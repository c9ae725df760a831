---------------------------- MODULE MCOrderQueue ----------------------------
(* Small instances of OrderQueue for TLC. *)
EXTENDS OrderQueue, TLC

\* Order ids are drawn at random; workers and accounts are interchangeable.
Symmetric ==
  Permutations(Row) \union Permutations(Worker) \union Permutations(Account)

=============================================================================
