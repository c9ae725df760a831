----------------------------- MODULE TossClient -----------------------------
(***************************************************************************)
(* TossRestClient of broker/toss.py: several processes (auto, monitor, web, *)
(* CLI) share one client id, for which the venue keeps one access token     *)
(* alive.  They share the token through a cache file, under a file lock,    *)
(* and each request refreshes it at most once, retries what the venue       *)
(* answers "later" to, and tells an order that was refused from one whose   *)
(* fate is unknown.                                                         *)
(***************************************************************************)
EXTENDS Integers, FiniteSets

CONSTANTS
  Proc,        \* the processes, one client each
  MaxToken,    \* tokens the venue issues (a bound)
  MaxRate,     \* _MAX_RATE_RETRIES, for 429 and 409
  MaxServer,   \* retries of a 5xx
  NoProc

ASSUME ClientAssumption ==
  /\ MaxToken \in Nat \ {0}
  /\ MaxRate \in Nat /\ MaxServer \in 0 .. MaxRate
  /\ NoProc \notin Proc

VARIABLES
  live,     \* the token the venue honours, 0 when it honours none
  issued,   \* the number of tokens issued, and the last token
  aged,     \* tokens past their expiry by the clients' clock
  cache,    \* the token in the cache file
  spoilt,   \* ghost: the file failed a reader or its writer since its last write
  lock,     \* the holder of the file lock
  mem,      \* _access_token of each process
  pc,       \* the step of each process's request
  call,     \* the locals of each request
  placed    \* how often the venue has executed each request

tokens == <<live, issued, aged>>
store  == <<cache, spoilt>>
vars   == <<tokens, store, lock, mem, pc, call, placed>>

Token == 1 .. MaxToken

CallRecord ==
  [keyed : BOOLEAN,        \* idempotent: a GET, or an order with a clientOrderId
   sent : Token \union {0},  \* attempted_token, stale_token of the refresh
   forced : BOOLEAN,       \* inside ensure_token(force_refresh=True)
   refreshed : BOOLEAN,
   tries : 0 .. MaxRate,   \* rate_attempt
   result : {"none", "ok", "rejected", "raised"}]

Fresh(keyed, result) ==
  [keyed |-> keyed, sent |-> 0, forced |-> FALSE, refreshed |-> FALSE,
   tries |-> 0, result |-> result]

NoCall == Fresh(FALSE, "none")

TypeOK ==
  /\ issued \in 0 .. MaxToken
  /\ live \in 0 .. issued
  /\ aged \subseteq 1 .. issued
  /\ cache \in 0 .. issued /\ spoilt \in BOOLEAN
  /\ mem \in [Proc -> 0 .. issued]
  /\ pc \in [Proc -> {"idle", "token", "locked", "write", "send"}]
  /\ call \in [Proc -> CallRecord]
  /\ placed \in [Proc -> Nat]
  /\ \A p \in Proc : lock = p <=> pc[p] \in {"locked", "write"}

Init ==
  /\ live = 0 /\ issued = 0 /\ aged = {} /\ cache = 0 /\ spoilt = FALSE
  /\ lock = NoProc
  /\ mem = [p \in Proc |-> 0]
  /\ pc = [p \in Proc |-> "idle"]
  /\ call = [p \in Proc |-> NoCall]
  /\ placed = [p \in Proc |-> 0]

-----------------------------------------------------------------------------
Goto(p, step) == pc' = [pc EXCEPT ![p] = step]

Return(p, result) ==
  /\ Goto(p, "idle")
  /\ call' = [call EXCEPT ![p] = Fresh(call[p].keyed, result)]

Call(p, keyed) ==
  /\ pc[p] = "idle"
  /\ Goto(p, "token")
  /\ call' = [call EXCEPT ![p] = Fresh(keyed, "none")]
  /\ placed' = [placed EXCEPT ![p] = 0]
  /\ UNCHANGED <<tokens, store, lock, mem>>

-----------------------------------------------------------------------------
(* ensure_token *)

Usable(t) == t # 0 /\ t \notin aged

UseMemory(p) ==
  /\ pc[p] = "token" /\ ~call[p].forced /\ Usable(mem[p])
  /\ Goto(p, "send")
  /\ call' = [call EXCEPT ![p].sent = mem[p]]
  /\ UNCHANGED <<tokens, store, lock, mem, placed>>

Lock(p) ==
  /\ pc[p] = "token" /\ (call[p].forced \/ ~Usable(mem[p]))
  /\ lock = NoProc
  /\ lock' = p
  /\ Goto(p, "locked")
  /\ UNCHANGED <<tokens, store, mem, call, placed>>

\* A refresh goes back to the top of the request, a first token is sent.
GotToken(p, t) ==
  /\ mem' = [mem EXCEPT ![p] = t]
  /\ IF call[p].forced
     THEN /\ Goto(p, "token")
          /\ call' = [call EXCEPT ![p].forced = FALSE, ![p].refreshed = TRUE]
     ELSE /\ Goto(p, "send")
          /\ call' = [call EXCEPT ![p].sent = t]

MutReusable(p) == Usable(cache) /\ ~call[p].forced

\* The cached token serves, unless it is the one that was just refused.
Reusable(p) == Usable(cache) /\ (call[p].forced => cache # call[p].sent)

Reuse(p) ==
  /\ pc[p] = "locked" /\ Reusable(p)
  /\ lock' = NoProc
  /\ GotToken(p, cache)
  /\ UNCHANGED <<tokens, store, placed>>

\* No token in the cache serves: there is none, or its file cannot be read,
\* which passes for none.
NothingCached(p) == spoilt' = (spoilt \/ Reusable(p))

\* A new token ends the life of the one before.
Issue(p) ==
  /\ pc[p] = "locked" /\ NothingCached(p)
  /\ issued < MaxToken
  /\ issued' = issued + 1 /\ live' = issued + 1
  /\ mem' = [mem EXCEPT ![p] = issued + 1]
  /\ Goto(p, "write")
  /\ UNCHANGED <<aged, cache, lock, call, placed>>

WriteCache(p) ==
  /\ pc[p] = "write"
  /\ cache' = mem[p] /\ spoilt' = FALSE
  /\ lock' = NoProc
  /\ GotToken(p, mem[p])
  /\ UNCHANGED <<tokens, placed>>

\* An OSError on the way, before the file is replaced or at the chmod after it:
\* the new token stays in memory.
WriteCacheFails(p) ==
  /\ pc[p] = "write"
  /\ cache' \in {cache, mem[p]} /\ spoilt' = (cache' # mem[p])
  /\ lock' = NoProc
  /\ Return(p, "raised")
  /\ UNCHANGED <<tokens, mem, placed>>

\* The with block lets go of the lock however it ends.
Unlocked(p) == IF lock = p THEN NoProc ELSE lock

\* No token comes back, or it comes back unreadable.
IssueFails(p) ==
  /\ pc[p] = "locked" /\ NothingCached(p)
  /\ \/ UNCHANGED <<issued, live>>
     \/ issued < MaxToken /\ issued' = issued + 1 /\ live' = issued + 1
  /\ lock' = Unlocked(p)
  /\ Return(p, "raised")
  /\ UNCHANGED <<aged, cache, mem, placed>>

-----------------------------------------------------------------------------
(* request, with _submit_order's and _conditional_write's reading of errors *)

\* The venue refuses the token: one refresh, then give up.
Unauthorised(p) ==
  /\ pc[p] = "send" /\ call[p].sent # live
  /\ IF call[p].refreshed
     THEN Return(p, "raised") /\ UNCHANGED mem
     ELSE /\ mem' = [mem EXCEPT ![p] = 0]
          /\ Goto(p, "token")
          /\ call' = [call EXCEPT ![p].forced = TRUE]
  /\ UNCHANGED <<tokens, store, lock, placed>>

\* The venue executes a request; with a key, only once.
Executed(p) ==
  [placed EXCEPT ![p] = IF call[p].keyed /\ @ > 0 THEN @ ELSE @ + 1]

Sent(p) == pc[p] = "send" /\ call[p].sent = live

Accepted(p) ==
  /\ Sent(p)
  /\ placed' = Executed(p)
  /\ Return(p, "ok")
  /\ UNCHANGED <<tokens, store, lock, mem>>

MutRefusal == {"bad", "in progress"}

\* The answers after which the order certainly does not exist: 400, 404, 422.
Refusal == {"bad"}

MutMayRetry(p, max) == call[p].tries < max

\* Only what carries a key is ever sent again.
MayRetry(p, max) == call[p].keyed /\ call[p].tries < max

MutNextTry(n) == n

NextTry(n) == n + 1

RetryOrGiveUp(p, answer, max) ==
  IF MayRetry(p, max)
  THEN Goto(p, "token") /\ call' = [call EXCEPT ![p].tries = NextTry(@)]
  ELSE Return(p, IF answer \in Refusal THEN "rejected" ELSE "raised")

Refused(p) ==
  /\ Sent(p)
  /\ ~(call[p].keyed /\ placed[p] > 0)     \* a replay gets the first answer
  /\ RetryOrGiveUp(p, "bad", 0)
  /\ UNCHANGED <<tokens, store, lock, mem, placed>>

RateLimited(p) ==
  /\ Sent(p)
  /\ RetryOrGiveUp(p, "rate", MaxRate)
  /\ UNCHANGED <<tokens, store, lock, mem, placed>>

\* The first copy of the request is still being executed.
InProgress(p) ==
  /\ Sent(p)
  /\ call[p].keyed
  /\ placed' = Executed(p)
  /\ RetryOrGiveUp(p, "in progress", MaxRate)
  /\ UNCHANGED <<tokens, store, lock, mem>>

\* 5xx: executed or not.
ServerError(p) ==
  /\ Sent(p)
  /\ placed' \in {placed, Executed(p)}
  /\ RetryOrGiveUp(p, "server", MaxServer)
  /\ UNCHANGED <<tokens, store, lock, mem>>

\* No answer at all is never retried here.
NetworkError(p) ==
  /\ Sent(p)
  /\ placed' \in {placed, Executed(p)}
  /\ Return(p, "raised")
  /\ UNCHANGED <<tokens, store, lock, mem>>

-----------------------------------------------------------------------------
(* Processes and tokens die. The last token of the bound does not.          *)

Crash(p) ==
  /\ pc[p] # "idle"
  /\ mem' = [mem EXCEPT ![p] = 0]
  /\ lock' = IF lock = p THEN NoProc ELSE lock
  /\ Goto(p, "idle")
  /\ call' = [call EXCEPT ![p] = NoCall]
  /\ placed' = [placed EXCEPT ![p] = 0]
  /\ UNCHANGED <<tokens, store>>

\* The clients let a token go a minute before the venue does.
Age ==
  /\ issued \in 1 .. MaxToken - 1
  /\ aged' = 1 .. issued
  /\ UNCHANGED <<live, issued, store, lock, mem, pc, call, placed>>

\* The venue ends a token, on time or because another program took a new one.
Revoke ==
  /\ live # 0 /\ issued < MaxToken
  /\ live' = 0
  /\ UNCHANGED <<issued, aged, store, lock, mem, pc, call, placed>>

-----------------------------------------------------------------------------
Answer(p) ==
  \/ Unauthorised(p) \/ Accepted(p) \/ Refused(p) \/ RateLimited(p)
  \/ InProgress(p) \/ ServerError(p) \/ NetworkError(p)

Step(p) ==
  \/ UseMemory(p) \/ Reuse(p) \/ Issue(p) \/ IssueFails(p)
  \/ WriteCache(p) \/ WriteCacheFails(p)
  \/ Answer(p)

Next ==
  \/ \E p \in Proc :
       \/ Call(p, TRUE) \/ Call(p, FALSE)
       \/ Lock(p) \/ Step(p) \/ Crash(p)
  \/ Age \/ Revoke

Spec == Init /\ [][Next]_vars

\* A request's thread runs, its calls time out, and the lock is granted to
\* whoever keeps waiting for it.
FairSpec == Spec /\ \A p \in Proc : WF_vars(Step(p)) /\ SF_vars(Lock(p))

-----------------------------------------------------------------------------
(* Properties *)

\* Somebody, or the cache, has a token that the venue still honours.
Shared == \E t \in {cache} \union {mem[p] : p \in Proc} : Usable(t) /\ t = live

\* "Reuse the same token instead of invalidating one another in a refresh loop":
\* a process takes a new token only when none of the others, and not the cache,
\* has one that the venue still honours; unless the file has failed since it was
\* last written, because it could not be read or could not be written.
NoRefreshLoop == [][issued' > issued /\ ~spoilt' => ~Shared]_vars

\* A request without a key is never executed twice, and one with a key only by
\* the grace of the key.
AtMostOnce == \A p \in Proc : placed[p] <= 1

\* What the client reports as rejected was not executed ("definitively rejected
\* an order before it could execute"), and what it reports as accepted was.
ResultTrue ==
  \A p \in Proc :
    /\ call[p].result = "rejected" => placed[p] = 0
    /\ call[p].result = "ok" => placed[p] = 1

\* Every request comes to an end: no loop of refreshes and retries, no wait for
\* the lock that never ends.
Returns == \A p \in Proc : pc[p] # "idle" ~> pc[p] = "idle"

=============================================================================
