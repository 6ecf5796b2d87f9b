------------------------------- MODULE RowLog -------------------------------
(***************************************************************************)
(* What a reader of the tables may rely on, whatever the writer does: each *)
(* table is a log of what was accepted for it.  Rows are added newest last *)
(* and once, some may be missing, none is ever taken back.                 *)
(***************************************************************************)
EXTENDS Naturals

CONSTANTS Tables, Topics, TopicOf

VARIABLES
  accepted,  \* how many items of each topic were accepted: they are 1..accepted
  stored     \* the items each table has rows of

vars == << accepted, stored >>

Init ==
  /\ accepted = [k \in Topics |-> 0]
  /\ stored = [t \in Tables |-> {}]

Accept(k) ==
  /\ accepted' = [accepted EXCEPT ![k] = @ + 1]
  /\ UNCHANGED stored

\* Some accepted items, newer than all the table holds, are added at once.
Store(t, items) ==
  /\ items \subseteq 1..accepted[TopicOf[t]]
  /\ \A new \in items, old \in stored[t] : old < new
  /\ stored' = [stored EXCEPT ![t] = @ \union items]
  /\ UNCHANGED accepted

Next ==
  \/ \E k \in Topics : Accept(k)
  \/ \E t \in Tables : \E items \in SUBSET (1..accepted[TopicOf[t]]) : Store(t, items)

Spec == Init /\ [][Next]_vars
=============================================================================
