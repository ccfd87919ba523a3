-------------------------------- MODULE IPList --------------------------------
(***************************************************************************)
(* The linked lists of addresses (src/src/utils/list.c) as sequences.      *)
(* Positions count from 0, as in the code.                                 *)
(***************************************************************************)
EXTENDS Integers, Sequences, SequencesExt

(* A position beyond the end appends and one at or before 0 prepends; any  *)
(* other puts the element after the one at that position.                  *)
insertInList(list, e, position) ==
  IF position >= Len(list) THEN Append(list, e)
  ELSE IF position <= 0 THEN <<e>> \o list
  ELSE InsertAt(list, position + 2, e)

removeFromList(list, position) ==
  IF position >= Len(list) THEN list ELSE RemoveAt(list, position + 1)

(* The search for an address; the code overloads getIPFromList. *)
getIPFromList(list, ip) == \E i \in DOMAIN list : list[i] = ip

(* Mistake: an address that is in the list is put in again. *)
InsertAlways(list, ip) == insertInList(list, ip, -1)

insertIPList(list, ip) ==
  IF getIPFromList(list, ip) THEN list ELSE insertInList(list, ip, -1)

removeIPList(list, ip) ==
  IF getIPFromList(list, ip)
  THEN removeFromList(list, SelectInSeq(list, LAMBDA e : e = ip) - 1)
  ELSE list

=============================================================================
