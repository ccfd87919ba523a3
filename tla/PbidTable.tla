------------------------------ MODULE PbidTable ------------------------------
(***************************************************************************)
(* The table of PBIDs (src/src/data_structures/pbid_table.c): a linked     *)
(* list of pairs of an address and a PBID, which is never empty.  A table  *)
(* without pairs is a single pair of zeros.                                *)
(***************************************************************************)
EXTENDS Integers, Sequences, SequencesExt

CONSTANTS
  NoIP,         \* address 0.0, which no node has
  NoPair        \* NULL

Pair(ip, pbid) == [ip |-> ip, pbid |-> pbid]
Zero == Pair(NoIP, 0)

(* Where the pair of ip is, 0 if nowhere. *)
PlaceOf(ip, table) == SelectInSeq(table, LAMBDA pair : pair.ip = ip)

pbidInitializeTable == <<Zero>>

pbidSearchIP(ip, table) ==
  IF PlaceOf(ip, table) = 0 THEN NoPair ELSE table[PlaceOf(ip, table)]

(* The first pair takes the place of the zeros; the pair of an address     *)
(* that has one already is overwritten.                                    *)
pbidInsertPair(ip, pbid, table) ==
  CASE table[1] = Zero -> [table EXCEPT ![1] = Pair(ip, pbid)]
    [] table[1] # Zero /\ PlaceOf(ip, table) # 0 ->
         [table EXCEPT ![PlaceOf(ip, table)].pbid = pbid]
    [] OTHER -> Append(table, Pair(ip, pbid))

(* Mistake: the pairs that follow go as well. *)
RemoveTail(ip, table) ==
  CASE PlaceOf(ip, table) = 0 -> table
    [] PlaceOf(ip, table) = 1 -> pbidInitializeTable
    [] OTHER -> SubSeq(table, 1, PlaceOf(ip, table) - 1)

(* The only pair is not removed but set to zeros. *)
pbidRemovePair(ip, table) ==
  CASE PlaceOf(ip, table) = 0 -> table
    [] PlaceOf(ip, table) # 0 /\ Len(table) = 1 -> pbidInitializeTable
    [] OTHER -> RemoveAt(table, PlaceOf(ip, table))

(* Pairs are removed from the head until it is zeros; then a new table     *)
(* takes the place of this one.                                            *)
emptyTable == pbidInitializeTable

=============================================================================
