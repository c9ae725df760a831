-------------------------- MODULE TossClientProofs --------------------------
(***************************************************************************)
(* Proofs about TossClient for every set of processes and every bound.      *)
(* AtMostOnce and ResultTrue rest on what a request that is still under way *)
(* may have done already, CallInv.  NoRefreshLoop rests on who may know the *)
(* live token, TokenInv: while the cache file has not failed, a process     *)
(* that has it took it from the cache, or is about to write it there and    *)
(* holds the lock.                                                          *)
(***************************************************************************)
EXTENDS TossClient, TLAPS

CallOK(p) ==
  /\ placed[p] <= 1
  /\ pc[p] # "idle" => call[p].result = "none"
  /\ pc[p] # "idle" /\ ~call[p].keyed => placed[p] = 0
  /\ call[p].result = "rejected" => placed[p] = 0
  /\ call[p].result = "ok" => placed[p] = 1

CallInv == \A p \in Proc : CallOK(p)

TokenOK(p) ==
  /\ call[p].sent <= issued
  /\ pc[p] = "send" => call[p].sent # 0
  /\ call[p].forced => call[p].sent # 0 /\ call[p].sent # live /\ pc[p] # "send"
  /\ pc[p] = "write" => mem[p] # 0 /\ live \in {0, mem[p]}
  /\ ~spoilt /\ live # 0 /\ mem[p] = live => cache = live \/ pc[p] = "write"

TokenInv == \A p \in Proc : TokenOK(p)

IndInv == TypeOK /\ CallInv /\ TokenInv

-----------------------------------------------------------------------------
\* Changing one entry of a function.
LEMMA Update ==
  ASSUME NEW S, NEW f \in [Proc -> S], NEW p \in Proc, NEW x \in S,
         NEW g, g = [f EXCEPT ![p] = x]
  PROVE  g \in [Proc -> S] /\ g[p] = x /\ \A q \in Proc \ {p} : g[q] = f[q]
OBVIOUS

Steps == {"idle", "token", "locked", "write", "send"}

\* What a step of p that changes the request's locals to c leaves behind.
Locals(p, step, c) ==
  /\ call' \in [Proc -> CallRecord]
  /\ pc' \in [Proc -> Steps]
  /\ pc'[p] = step
  /\ call'[p] = c
  /\ \A q \in Proc \ {p} : pc'[q] = pc[q] /\ call'[q] = call[q]

\* A request that goes to a step with new locals changes nobody else's.
LEMMA LocalsStep ==
  ASSUME TypeOK, NEW p \in Proc, NEW step \in Steps, NEW c \in CallRecord,
         Goto(p, step), call' = [call EXCEPT ![p] = c]
  PROVE  Locals(p, step, c)
<1>1. call \in [Proc -> CallRecord] /\ pc \in [Proc -> Steps]
  BY DEF TypeOK, Steps
<1>2. pc' = [pc EXCEPT ![p] = step]
  BY DEF Goto
<1>3. call' \in [Proc -> CallRecord] /\ call'[p] = c
        /\ \A q \in Proc \ {p} : call'[q] = call[q]
  BY <1>1, Update
<1>4. pc' \in [Proc -> Steps] /\ pc'[p] = step /\ \A q \in Proc \ {p} : pc'[q] = pc[q]
  BY <1>1, <1>2, Update
<1>. QED
  BY <1>3, <1>4 DEF Locals

\* What a request that ends with r leaves behind.
Returned(p, r) ==
  /\ call' \in [Proc -> CallRecord]
  /\ pc' \in [Proc -> Steps]
  /\ pc'[p] = "idle"
  /\ call'[p].result = r /\ call'[p].sent = 0 /\ ~call'[p].forced
  /\ \A q \in Proc \ {p} : pc'[q] = pc[q] /\ call'[q] = call[q]

\* A request that ends is idle, with its result.
LEMMA ReturnStep ==
  ASSUME ClientAssumption, TypeOK, NEW p \in Proc,
         NEW r \in {"ok", "rejected", "raised"}, Return(p, r)
  PROVE  Returned(p, r)
<1>1. PICK k \in BOOLEAN : k = call[p].keyed
  BY DEF TypeOK, CallRecord
<1>2. PICK c \in CallRecord :
        /\ c = Fresh(k, r)
        /\ c.result = r /\ c.sent = 0 /\ ~c.forced
  <2>1. Fresh(k, r) \in CallRecord
    BY DEF Fresh, CallRecord, ClientAssumption
  <2>2. Fresh(k, r).result = r /\ Fresh(k, r).sent = 0 /\ ~Fresh(k, r).forced
    BY DEF Fresh
  <2>. QED
    BY <2>1, <2>2
<1>3. Goto(p, "idle") /\ call' = [call EXCEPT ![p] = c]
  BY <1>1, <1>2 DEF Return
<1>4. Locals(p, "idle", c)
  BY <1>3, LocalsStep DEF Steps
<1>. QED
  BY <1>2, <1>4 DEF Locals, Returned

\* A request ends, or goes back for another try with a key.
LEMMA RetryStep ==
  ASSUME ClientAssumption, TypeOK, NEW p \in Proc,
         NEW answer, NEW max \in {0, MaxRate, MaxServer},
         RetryOrGiveUp(p, answer, max)
  PROVE  \/ /\ MayRetry(p, max)
            /\ call[p].keyed /\ call[p].tries + 1 \in 0 .. MaxRate
            /\ Locals(p, "token", [call[p] EXCEPT !.tries = @ + 1])
         \/ /\ ~MayRetry(p, max) /\ answer \in Refusal
            /\ Returned(p, "rejected")
         \/ /\ ~MayRetry(p, max) /\ answer \notin Refusal
            /\ Returned(p, "raised")
<1>1. CASE MayRetry(p, max)
  <2>1. call[p] \in CallRecord /\ call[p].keyed /\ call[p].tries + 1 \in 0 .. MaxRate
    BY <1>1 DEF TypeOK, CallRecord, MayRetry, ClientAssumption
  <2>2. [call[p] EXCEPT !.tries = @ + 1] \in CallRecord
    BY <2>1 DEF CallRecord
  <2>3. call' = [call EXCEPT ![p] = [call[p] EXCEPT !.tries = @ + 1]]
    BY <1>1 DEF RetryOrGiveUp, NextTry, TypeOK
  <2>. QED
    BY <1>1, <2>1, <2>2, <2>3, LocalsStep DEF RetryOrGiveUp, Steps
<1>2. CASE ~MayRetry(p, max) /\ answer \in Refusal
  BY <1>2, ReturnStep DEF RetryOrGiveUp
<1>3. CASE ~MayRetry(p, max) /\ answer \notin Refusal
  BY <1>3, ReturnStep DEF RetryOrGiveUp
<1>. QED
  BY <1>1, <1>2, <1>3

\* The lock and the steps agree after a step of p that leaves the lock alone
\* and its holder inside.
LEMMA SameLock ==
  ASSUME TypeOK, NEW p \in Proc, lock' = lock,
         pc[p] \in {"locked", "write"} <=> pc'[p] \in {"locked", "write"},
         \A q \in Proc \ {p} : pc'[q] = pc[q]
  PROVE  \A q \in Proc : lock' = q <=> pc'[q] \in {"locked", "write"}
BY DEF TypeOK

\* The same after a step that lets the lock go.
LEMMA FreeLock ==
  ASSUME TypeOK, ClientAssumption, NEW p \in Proc, pc[p] \in {"locked", "write"},
         lock' = NoProc, pc'[p] \notin {"locked", "write"},
         \A q \in Proc \ {p} : pc'[q] = pc[q]
  PROVE  \A q \in Proc : lock' = q <=> pc'[q] \in {"locked", "write"}
BY DEF TypeOK, ClientAssumption

\* A token was got: the refresh goes back to the top, the first token is sent.
LEMMA GotTokenStep ==
  ASSUME ClientAssumption, TypeOK, NEW p \in Proc, NEW t \in 1 .. issued, GotToken(p, t)
  PROVE  /\ mem' \in [Proc -> 0 .. issued] /\ mem'[p] = t
         /\ \A q \in Proc \ {p} : mem'[q] = mem[q]
         /\ \/ Locals(p, "token", [call[p] EXCEPT !.forced = FALSE, !.refreshed = TRUE])
            \/ ~call[p].forced /\ Locals(p, "send", [call[p] EXCEPT !.sent = t])
<1>1. mem \in [Proc -> 0 .. issued] /\ t \in 0 .. issued /\ t \in Token
  BY DEF TypeOK, Token, ClientAssumption
<1>2. mem' \in [Proc -> 0 .. issued] /\ mem'[p] = t
        /\ \A q \in Proc \ {p} : mem'[q] = mem[q]
  BY <1>1, Update DEF GotToken
<1>3. call[p] \in CallRecord
  BY DEF TypeOK
<1>4. CASE call[p].forced
  <2>1. [call[p] EXCEPT !.forced = FALSE, !.refreshed = TRUE] \in CallRecord
    BY <1>3 DEF CallRecord
  <2>2. /\ Goto(p, "token")
        /\ call' = [call EXCEPT ![p] = [call[p] EXCEPT !.forced = FALSE, !.refreshed = TRUE]]
    BY <1>4 DEF GotToken, TypeOK
  <2>. QED
    BY <1>2, <2>1, <2>2, LocalsStep DEF Steps
<1>5. CASE ~call[p].forced
  <2>1. [call[p] EXCEPT !.sent = t] \in CallRecord
    BY <1>1, <1>3 DEF CallRecord
  <2>2. Goto(p, "send") /\ call' = [call EXCEPT ![p] = [call[p] EXCEPT !.sent = t]]
    BY <1>5 DEF GotToken, TypeOK
  <2>. QED
    BY <1>2, <1>5, <2>1, <2>2, LocalsStep DEF Steps
<1>. QED
  BY <1>4, <1>5

\* The venue executes a request of p, or does not: no other count moves.
LEMMA ExecutedStep ==
  ASSUME TypeOK, NEW p \in Proc, placed[p] <= 1, ~call[p].keyed => placed[p] = 0,
         placed' \in {placed, Executed(p)}
  PROVE  /\ placed' \in [Proc -> Nat] /\ placed'[p] <= 1
         /\ \A q \in Proc \ {p} : placed'[q] = placed[q]
         /\ placed' = Executed(p) => placed'[p] = 1
<1>1. placed \in [Proc -> Nat]
  BY DEF TypeOK
<1>2. CASE placed' = Executed(p)
  <2>1. PICK n \in Nat : n = IF call[p].keyed /\ placed[p] > 0 THEN placed[p] ELSE placed[p] + 1
    BY <1>1
  <2>2. placed' = [placed EXCEPT ![p] = n] /\ n = 1
    BY <1>1, <1>2, <2>1 DEF Executed
  <2>. QED
    BY <1>1, <2>2, Update
<1>3. CASE placed' # Executed(p)
  BY <1>1, <1>3
<1>. QED
  BY <1>2, <1>3

-----------------------------------------------------------------------------
(* Steps that only the request of p, its lock and its token feel.           *)

\* The answers of the venue: tokens, cache, memory and lock stay.
AnswerEffect(p) ==
  /\ pc[p] = "send" /\ ~call[p].forced
  /\ UNCHANGED <<tokens, store, lock, mem>>
  /\ placed' \in [Proc -> Nat]
  /\ \A q \in Proc \ {p} : placed'[q] = placed[q]
  /\ \/ /\ \E n \in 0 .. MaxRate : Locals(p, "token", [call[p] EXCEPT !.tries = n])
        /\ call[p].keyed /\ placed'[p] <= 1
     \/ \E r \in {"ok", "rejected", "raised"} :
          /\ Returned(p, r)
          /\ placed'[p] <= 1
          /\ r = "rejected" => placed'[p] = 0
          /\ r = "ok" => placed'[p] = 1

\* Every answer but 401 has AnswerEffect: request, _submit_order and
\* _conditional_write read the fate of the order off it correctly.
LEMMA AnswerSteps ==
  ASSUME ClientAssumption, IndInv, NEW p \in Proc, Answer(p), ~Unauthorised(p)
  PROVE  AnswerEffect(p)
<1>. USE DEF IndInv
<1>1. pc[p] = "send" /\ Sent(p)
  BY DEF Answer, Accepted, Refused, RateLimited, InProgress, ServerError, NetworkError, Sent
<1>2. /\ placed \in [Proc -> Nat] /\ placed[p] <= 1
      /\ ~call[p].keyed => placed[p] = 0
      /\ ~call[p].forced /\ call[p].tries \in 0 .. MaxRate
  BY <1>1 DEF CallInv, CallOK, TokenInv, TokenOK, TypeOK, CallRecord
<1>3. ASSUME placed' \in {placed, Executed(p)}
      PROVE  /\ placed' \in [Proc -> Nat] /\ placed'[p] <= 1
             /\ \A q \in Proc \ {p} : placed'[q] = placed[q]
             /\ placed' = Executed(p) => placed'[p] = 1
  BY <1>2, <1>3, ExecutedStep
<1>4. UNCHANGED <<tokens, store, lock, mem>>
  BY DEF Answer, Accepted, Refused, RateLimited, InProgress, ServerError, NetworkError
<1>5. CASE Accepted(p)
  <2>1. placed' = Executed(p) /\ Returned(p, "ok")
    BY <1>5, ReturnStep DEF Accepted
  <2>. QED
    BY <1>1, <1>2, <1>3, <1>4, <2>1 DEF AnswerEffect
<1>6. CASE Refused(p)
  <2>1. placed' = placed /\ placed[p] = 0 /\ ~MayRetry(p, 0)
    BY <1>2, <1>6 DEF Refused, MayRetry
  <2>2. Returned(p, "rejected")
    BY <1>6, <2>1, RetryStep DEF Refused, Refusal
  <2>. QED
    BY <1>1, <1>2, <1>4, <2>1, <2>2 DEF AnswerEffect
<1>7. ASSUME NEW a \in {"rate", "in progress", "server"}, NEW m \in {MaxRate, MaxServer},
             RetryOrGiveUp(p, a, m), placed' \in {placed, Executed(p)}
      PROVE  AnswerEffect(p)
  <2>1. placed' \in [Proc -> Nat] /\ placed'[p] <= 1
          /\ \A q \in Proc \ {p} : placed'[q] = placed[q]
    BY <1>3, <1>7
  <2>2. \/ /\ call[p].keyed /\ call[p].tries + 1 \in 0 .. MaxRate
           /\ Locals(p, "token", [call[p] EXCEPT !.tries = @ + 1])
        \/ Returned(p, "raised")
    BY <1>7, RetryStep DEF Refusal
  <2>4. CASE Returned(p, "raised")
    BY <1>1, <1>2, <1>4, <2>1, <2>4 DEF AnswerEffect
  <2>5. CASE /\ call[p].keyed /\ call[p].tries + 1 \in 0 .. MaxRate
             /\ Locals(p, "token", [call[p] EXCEPT !.tries = @ + 1])
    <3>1. PICK n \in 0 .. MaxRate : n = call[p].tries + 1
      BY <2>5
    <3>2. Locals(p, "token", [call[p] EXCEPT !.tries = n])
      BY <2>5, <3>1
    <3>. QED
      BY <1>1, <1>2, <1>4, <2>1, <2>5, <3>2 DEF AnswerEffect
  <2>. QED
    BY <2>2, <2>4, <2>5
<1>8. CASE RateLimited(p)
  BY <1>3, <1>7, <1>8 DEF RateLimited
<1>9. CASE InProgress(p)
  BY <1>3, <1>7, <1>9 DEF InProgress
<1>10. CASE ServerError(p)
  BY <1>3, <1>7, <1>10 DEF ServerError
<1>11. CASE NetworkError(p)
  <2>1. placed' \in {placed, Executed(p)} /\ Returned(p, "raised")
    BY <1>11, ReturnStep DEF NetworkError
  <2>. QED
    BY <1>1, <1>2, <1>3, <1>4, <2>1 DEF AnswerEffect
<1>. QED
  BY <1>5, <1>6, <1>8, <1>9, <1>10, <1>11 DEF Answer

-----------------------------------------------------------------------------
(* The inductive invariant.                                                 *)

\* The first state satisfies the inductive invariant.
LEMMA InitInv == ClientAssumption /\ Init => IndInv
<1>. SUFFICES ASSUME ClientAssumption, Init PROVE IndInv
  OBVIOUS
<1>1. NoCall \in CallRecord /\ NoCall.sent = 0 /\ ~NoCall.forced /\ NoCall.result = "none"
  BY DEF NoCall, Fresh, CallRecord, ClientAssumption
<1>2. TypeOK
  <2>1. spoilt \in BOOLEAN
    BY DEF Init
  <2>. QED
    BY <1>1, <2>1 DEF Init, TypeOK, ClientAssumption
<1>3. CallInv /\ TokenInv
  BY <1>1 DEF Init, CallInv, CallOK, TokenInv, TokenOK
<1>. QED
  BY <1>2, <1>3 DEF IndInv

\* What every step of p does to the rest: no other process is touched, a new
\* live token is one nobody has, taken under the lock, and a cache file that has
\* not failed still holds the live token if it did.
Frame(p) ==
  /\ pc' \in [Proc -> Steps] /\ call' \in [Proc -> CallRecord]
  /\ mem' \in [Proc -> 0 .. issued'] /\ placed' \in [Proc -> Nat]
  /\ \A q \in Proc \ {p} :
       pc'[q] = pc[q] /\ call'[q] = call[q] /\ mem'[q] = mem[q] /\ placed'[q] = placed[q]
  /\ \A q \in Proc : lock' = q <=> pc'[q] \in {"locked", "write"}
  /\ issued' \in issued .. MaxToken /\ live' \in 0 .. issued'
  /\ aged' = aged /\ cache' \in 0 .. issued' /\ spoilt' \in BOOLEAN
  /\ \/ live' \in {live, 0}
     \/ live' = issued' /\ issued' > issued /\ pc[p] = "locked"
  /\ live' = live /\ live # 0 /\ cache = live => cache' = live
  /\ ~spoilt' => ~spoilt \/ live' \in {0, cache'}

\* A step within Frame that keeps p's own part of the invariant keeps all of it.
LEMMA Framed ==
  ASSUME ClientAssumption, IndInv, NEW p \in Proc, Frame(p), CallOK(p)', TokenOK(p)'
  PROVE  IndInv'
<1>1. TypeOK'
  BY DEF IndInv, TypeOK, Frame, Steps, ClientAssumption
<1>2. CallInv'
  <2>1. ASSUME NEW q \in Proc \ {p} PROVE CallOK(q)'
    BY DEF IndInv, CallInv, CallOK, Frame
  <2>. QED
    BY <2>1 DEF CallInv
<1>3. TokenInv'
  <2>1. ASSUME NEW q \in Proc \ {p} PROVE TokenOK(q)'
    <3>1. /\ TokenOK(q) /\ mem[q] \in 0 .. issued /\ issued \in Nat /\ live \in 0 .. issued
          /\ call[q].sent \in Nat
      BY DEF IndInv, TypeOK, TokenInv, CallRecord, Token, ClientAssumption
    <3>2. /\ pc'[q] = pc[q] /\ call'[q] = call[q] /\ mem'[q] = mem[q]
          /\ issued' \in Nat /\ issued' >= issued
      BY <3>1 DEF Frame, ClientAssumption
    <3>3. CASE live' \in {live, 0}
      BY <3>1, <3>2, <3>3 DEF TokenOK, Frame
    <3>4. CASE live' = issued' /\ issued' > issued /\ pc[p] = "locked"
      <4>1. pc[q] # "write"
        BY <3>4 DEF IndInv, TypeOK
      <4>. QED
        BY <3>1, <3>2, <3>4, <4>1 DEF TokenOK
    <3>. QED
      BY <3>3, <3>4 DEF Frame
  <2>. QED
    BY <2>1 DEF TokenInv
<1>. QED
  BY <1>1, <1>2, <1>3 DEF IndInv

-----------------------------------------------------------------------------
(* One lemma per step.                                                      *)

\* What the invariant says of one process.
LEMMA Facts ==
  ASSUME ClientAssumption, IndInv, NEW p \in Proc
  PROVE  /\ TypeOK /\ CallOK(p) /\ TokenOK(p)
         /\ issued \in 0 .. MaxToken /\ live \in 0 .. issued /\ cache \in 0 .. issued
         /\ spoilt \in BOOLEAN
         /\ mem \in [Proc -> 0 .. issued] /\ mem[p] \in 0 .. issued
         /\ pc \in [Proc -> Steps] /\ call \in [Proc -> CallRecord] /\ call[p] \in CallRecord
         /\ placed \in [Proc -> Nat]
         /\ \A q \in Proc : lock = q <=> pc[q] \in {"locked", "write"}
BY DEF IndInv, TypeOK, CallInv, TokenInv, Steps

\* An answer of the venue keeps the invariant.
LEMMA AnswerKeeps ==
  ASSUME ClientAssumption, IndInv, NEW p \in Proc, AnswerEffect(p)
  PROVE  IndInv'
<1>1. /\ pc' \in [Proc -> Steps] /\ call' \in [Proc -> CallRecord]
      /\ \A q \in Proc \ {p} : pc'[q] = pc[q] /\ call'[q] = call[q]
      /\ pc'[p] \in {"token", "idle"}
  BY DEF AnswerEffect, Locals, Returned
<1>2. Frame(p)
  BY <1>1, Facts, SameLock DEF AnswerEffect, Frame, tokens, store, ClientAssumption
<1>3. CallOK(p)' /\ TokenOK(p)'
  <2>1. ASSUME NEW n \in 0 .. MaxRate, Locals(p, "token", [call[p] EXCEPT !.tries = n]),
               call[p].keyed, placed'[p] <= 1
        PROVE  CallOK(p)' /\ TokenOK(p)'
    <3>1. /\ call'[p].sent = call[p].sent /\ call'[p].forced = call[p].forced
          /\ call'[p].keyed = call[p].keyed /\ call'[p].result = call[p].result
          /\ pc'[p] = "token"
      BY <2>1, Facts DEF Locals, CallRecord
    <3>. QED
      BY <2>1, <3>1, Facts DEF AnswerEffect, CallOK, TokenOK, tokens, store
  <2>2. ASSUME NEW r \in {"ok", "rejected", "raised"}, Returned(p, r), placed'[p] <= 1,
               r = "rejected" => placed'[p] = 0, r = "ok" => placed'[p] = 1
        PROVE  CallOK(p)' /\ TokenOK(p)'
    BY <2>2, Facts DEF Returned, AnswerEffect, CallOK, TokenOK, tokens, store
  <2>. QED
    BY <2>1, <2>2 DEF AnswerEffect
<1>. QED
  BY <1>2, <1>3, Framed

\* A 401 keeps the invariant: the refused token is the one the refresh avoids.
LEMMA UnauthorisedKeeps ==
  ASSUME ClientAssumption, IndInv, NEW p \in Proc, Unauthorised(p)
  PROVE  IndInv'
<1>1. pc[p] = "send" /\ call[p].sent # live /\ UNCHANGED <<tokens, store, lock, placed>>
  BY DEF Unauthorised
<1>2. CASE call[p].refreshed
  <2>1. Returned(p, "raised") /\ mem' = mem
    BY <1>2, Facts, ReturnStep DEF Unauthorised
  <2>2. Frame(p)
    BY <1>1, <2>1, Facts, SameLock DEF Frame, Returned, tokens, store, ClientAssumption
  <2>3. CallOK(p)' /\ TokenOK(p)'
    BY <1>1, <2>1, Facts DEF Returned, CallOK, TokenOK, tokens, store
  <2>. QED
    BY <2>2, <2>3, Framed
<1>3. CASE ~call[p].refreshed
  <2>1. mem' \in [Proc -> 0 .. issued] /\ mem'[p] = 0 /\ \A q \in Proc \ {p} : mem'[q] = mem[q]
    BY <1>3, Facts, Update DEF Unauthorised
  <2>2. [call[p] EXCEPT !.forced = TRUE] \in CallRecord
    BY Facts DEF CallRecord
  <2>3. Goto(p, "token") /\ call' = [call EXCEPT ![p] = [call[p] EXCEPT !.forced = TRUE]]
    BY <1>3, Facts DEF Unauthorised
  <2>4. Locals(p, "token", [call[p] EXCEPT !.forced = TRUE])
    BY <2>2, <2>3, Facts, LocalsStep DEF Steps
  <2>5. /\ call'[p].sent = call[p].sent /\ call'[p].forced
        /\ call'[p].keyed = call[p].keyed /\ call'[p].result = call[p].result
        /\ pc'[p] = "token"
    BY <2>4, Facts DEF Locals, CallRecord
  <2>6. Frame(p)
    BY <1>1, <2>1, <2>4, Facts, SameLock DEF Frame, Locals, tokens, store, ClientAssumption
  <2>7. CallOK(p)' /\ TokenOK(p)'
    BY <1>1, <2>1, <2>5, Facts DEF CallOK, TokenOK, tokens, store
  <2>. QED
    BY <2>6, <2>7, Framed
<1>. QED
  BY <1>2, <1>3

\* A new request keeps the invariant.
LEMMA CallKeeps ==
  ASSUME ClientAssumption, IndInv, NEW p \in Proc, NEW keyed \in BOOLEAN, Call(p, keyed)
  PROVE  IndInv'
<1>1. /\ Fresh(keyed, "none") \in CallRecord
      /\ Fresh(keyed, "none").sent = 0 /\ ~Fresh(keyed, "none").forced
      /\ Fresh(keyed, "none").result = "none"
  BY DEF Fresh, CallRecord, ClientAssumption
<1>2. Locals(p, "token", Fresh(keyed, "none"))
  BY <1>1, Facts, LocalsStep DEF Call, Steps
<1>3. placed' \in [Proc -> Nat] /\ placed'[p] = 0 /\ \A q \in Proc \ {p} : placed'[q] = placed[q]
  BY Facts, Update DEF Call
<1>4. Frame(p)
  BY <1>2, <1>3, Facts, SameLock DEF Call, Frame, Locals, tokens, store, ClientAssumption
<1>5. CallOK(p)' /\ TokenOK(p)'
  BY <1>1, <1>2, <1>3, Facts DEF Call, Locals, CallOK, TokenOK, tokens, store
<1>. QED
  BY <1>4, <1>5, Framed

\* Taking the token in memory keeps the invariant.
LEMMA UseMemoryKeeps ==
  ASSUME ClientAssumption, IndInv, NEW p \in Proc, UseMemory(p)
  PROVE  IndInv'
<1>1. mem[p] \in 1 .. issued /\ mem[p] \in Token
  BY Facts DEF UseMemory, Usable, Token, ClientAssumption
<1>2. [call[p] EXCEPT !.sent = mem[p]] \in CallRecord
  BY <1>1, Facts DEF CallRecord
<1>3. Goto(p, "send") /\ call' = [call EXCEPT ![p] = [call[p] EXCEPT !.sent = mem[p]]]
  BY Facts DEF UseMemory
<1>4. Locals(p, "send", [call[p] EXCEPT !.sent = mem[p]])
  BY <1>2, <1>3, Facts, LocalsStep DEF Steps
<1>5. /\ call'[p].sent = mem[p] /\ ~call'[p].forced /\ call'[p].keyed = call[p].keyed
      /\ call'[p].result = call[p].result /\ pc'[p] = "send"
  BY <1>4, Facts DEF UseMemory, Locals, CallRecord
<1>6. Frame(p)
  BY <1>4, Facts, SameLock DEF UseMemory, Frame, Locals, tokens, store, ClientAssumption
<1>7. CallOK(p)' /\ TokenOK(p)'
  BY <1>1, <1>5, Facts DEF UseMemory, CallOK, TokenOK, tokens, store
<1>. QED
  BY <1>6, <1>7, Framed

\* Entering the file lock keeps the invariant.
LEMMA LockKeeps ==
  ASSUME ClientAssumption, IndInv, NEW p \in Proc, Lock(p)
  PROVE  IndInv'
<1>1. /\ pc' \in [Proc -> Steps] /\ pc'[p] = "locked"
      /\ \A q \in Proc \ {p} : pc'[q] = pc[q]
  BY Facts, Update DEF Lock, Goto, Steps
<1>2. \A q \in Proc : lock' = q <=> pc'[q] \in {"locked", "write"}
  BY <1>1, Facts DEF Lock, ClientAssumption
<1>3. Frame(p)
  BY <1>1, <1>2, Facts DEF Lock, Frame, tokens, store, ClientAssumption
<1>4. CallOK(p)' /\ TokenOK(p)'
  BY <1>1, Facts DEF Lock, CallOK, TokenOK, tokens, store
<1>. QED
  BY <1>3, <1>4, Framed

\* A process inside the lock that got the token t, and the token is the cache's.
LEMMA GotTokenKeeps ==
  ASSUME ClientAssumption, IndInv, NEW p \in Proc, pc[p] \in {"locked", "write"},
         NEW t \in 1 .. issued, GotToken(p, t), lock' = NoProc, cache' = t,
         UNCHANGED <<tokens, placed>>, ~spoilt' => ~spoilt \/ live \in {0, t}, spoilt' \in BOOLEAN,
         live \in {0, t} \/ cache = t
  PROVE  IndInv'
<1>1. /\ mem' \in [Proc -> 0 .. issued] /\ mem'[p] = t
      /\ \A q \in Proc \ {p} : mem'[q] = mem[q]
      /\ \/ Locals(p, "token", [call[p] EXCEPT !.forced = FALSE, !.refreshed = TRUE])
         \/ ~call[p].forced /\ Locals(p, "send", [call[p] EXCEPT !.sent = t])
  BY Facts, GotTokenStep
<1>2. /\ pc' \in [Proc -> Steps] /\ call' \in [Proc -> CallRecord]
      /\ \A q \in Proc \ {p} : pc'[q] = pc[q] /\ call'[q] = call[q]
      /\ pc'[p] \in {"token", "send"}
  BY <1>1 DEF Locals
<1>3. Frame(p)
  <2>1. \A q \in Proc : lock' = q <=> pc'[q] \in {"locked", "write"}
    BY <1>2, Facts, FreeLock
  <2>. QED
    BY <1>1, <1>2, <2>1, Facts DEF Frame, tokens, store, ClientAssumption
<1>4. /\ call'[p].sent \in {call[p].sent, t} /\ ~call'[p].forced
      /\ call'[p].keyed = call[p].keyed /\ call'[p].result = call[p].result
      /\ pc'[p] = "send" => call'[p].sent = t
  <2>1. CASE Locals(p, "token", [call[p] EXCEPT !.forced = FALSE, !.refreshed = TRUE])
    BY <2>1, Facts DEF Locals, CallRecord
  <2>2. CASE ~call[p].forced /\ Locals(p, "send", [call[p] EXCEPT !.sent = t])
    BY <2>2, Facts DEF Locals, CallRecord
  <2>. QED
    BY <1>1, <2>1, <2>2
<1>5. CallOK(p)' /\ TokenOK(p)'
  BY <1>1, <1>2, <1>4, Facts DEF CallOK, TokenOK, tokens, store
<1>. QED
  BY <1>3, <1>5, Framed

\* Taking the cached token keeps the invariant.
LEMMA ReuseKeeps ==
  ASSUME ClientAssumption, IndInv, NEW p \in Proc, Reuse(p)
  PROVE  IndInv'
<1>1. cache \in 1 .. issued
  BY Facts DEF Reuse, Reusable, Usable
<1>. QED
  BY <1>1, Facts, GotTokenKeeps DEF Reuse, store

\* Writing the new token to the cache keeps the invariant.
LEMMA WriteCacheKeeps ==
  ASSUME ClientAssumption, IndInv, NEW p \in Proc, WriteCache(p)
  PROVE  IndInv'
<1>1. mem[p] \in 1 .. issued
  BY Facts DEF WriteCache, TokenOK
<1>2. live \in {0, mem[p]}
  BY Facts DEF WriteCache, TokenOK
<1>. QED
  BY <1>1, <1>2, GotTokenKeeps DEF WriteCache

\* A new token keeps the invariant: the issuer is inside the lock.
LEMMA IssueKeeps ==
  ASSUME ClientAssumption, IndInv, NEW p \in Proc, Issue(p)
  PROVE  IndInv'
<1>1. /\ pc' \in [Proc -> Steps] /\ pc'[p] = "write"
      /\ \A q \in Proc \ {p} : pc'[q] = pc[q]
  BY Facts, Update DEF Issue, Goto, Steps
<1>2. PICK t \in 0 .. MaxToken : t = issued + 1
  BY Facts DEF Issue, ClientAssumption
<1>3. mem' \in [Proc -> 0 .. t] /\ mem'[p] = t /\ \A q \in Proc \ {p} : mem'[q] = mem[q]
  <2>1. mem \in [Proc -> 0 .. t]
    BY <1>2, Facts DEF ClientAssumption
  <2>2. mem' = [mem EXCEPT ![p] = t] /\ t \in 0 .. t
    BY <1>2, Facts DEF Issue, ClientAssumption
  <2>. QED
    BY <2>1, <2>2, Update
<1>4. Frame(p)
  <2>1. \A q \in Proc : lock' = q <=> pc'[q] \in {"locked", "write"}
    BY <1>1, Facts, SameLock DEF Issue
  <2>. QED
    BY <1>1, <1>2, <1>3, <2>1, Facts DEF Issue, NothingCached, Frame, ClientAssumption
<1>5. CallOK(p)' /\ TokenOK(p)'
  <2>1. call[p].sent \in Nat
    BY Facts DEF CallRecord, Token, ClientAssumption
  <2>2. /\ pc'[p] = "write" /\ pc[p] = "locked" /\ call' = call /\ placed' = placed
        /\ mem'[p] = t /\ issued' = t /\ live' = t /\ t = issued + 1 /\ issued \in Nat
    BY <1>1, <1>2, <1>3, Facts DEF Issue, ClientAssumption
  <2>. QED
    BY <2>1, <2>2, Facts DEF CallOK, TokenOK
<1>. QED
  BY <1>4, <1>5, Framed

\* A failed issue keeps the invariant, and lets the lock go.
LEMMA IssueFailsKeeps ==
  ASSUME ClientAssumption, IndInv, NEW p \in Proc, IssueFails(p)
  PROVE  IndInv'
<1>1. Returned(p, "raised")
  BY Facts, ReturnStep DEF IssueFails
<1>2. lock' = NoProc
  BY Facts DEF IssueFails, Unlocked
<1>3. \A q \in Proc : lock' = q <=> pc'[q] \in {"locked", "write"}
  BY <1>1, <1>2, Facts, FreeLock DEF IssueFails, Returned
<1>4. /\ issued' \in issued .. MaxToken
      /\ \/ issued' = issued /\ live' = live
         \/ live' = issued' /\ issued' > issued
  BY Facts DEF IssueFails, ClientAssumption
<1>5. mem' = mem /\ mem' \in [Proc -> 0 .. issued'] /\ cache' = cache /\ cache' \in 0 .. issued'
  BY <1>4, Facts DEF IssueFails, ClientAssumption
<1>6. Frame(p)
  BY <1>1, <1>3, <1>4, <1>5, Facts DEF IssueFails, NothingCached, Frame, Returned, ClientAssumption
<1>7. CallOK(p)' /\ TokenOK(p)'
  BY <1>1, <1>4, <1>5, Facts
     DEF IssueFails, NothingCached, Returned, CallOK, TokenOK, ClientAssumption
<1>. QED
  BY <1>6, <1>7, Framed

\* A cache write that fails keeps the invariant: the file has failed, or holds
\* the new token after all.
LEMMA WriteCacheFailsKeeps ==
  ASSUME ClientAssumption, IndInv, NEW p \in Proc, WriteCacheFails(p)
  PROVE  IndInv'
<1>1. Returned(p, "raised")
  BY Facts, ReturnStep DEF WriteCacheFails
<1>2. \A q \in Proc : lock' = q <=> pc'[q] \in {"locked", "write"}
  BY <1>1, Facts, FreeLock DEF WriteCacheFails, Returned
<1>3. /\ cache' \in 0 .. issued /\ spoilt' \in BOOLEAN
      /\ ~spoilt' => cache' = mem[p] /\ live \in {0, mem[p]}
  BY Facts DEF WriteCacheFails, TokenOK
<1>4. live # 0 /\ cache = live => cache' = live
  BY Facts DEF WriteCacheFails, TokenOK
<1>5. Frame(p)
  BY <1>1, <1>2, <1>3, <1>4, Facts DEF WriteCacheFails, Frame, Returned, tokens, ClientAssumption
<1>6. CallOK(p)' /\ TokenOK(p)'
  BY <1>1, <1>3, Facts DEF WriteCacheFails, Returned, CallOK, TokenOK, tokens
<1>. QED
  BY <1>5, <1>6, Framed

\* A crash of one process keeps the invariant.
LEMMA CrashKeeps ==
  ASSUME ClientAssumption, IndInv, NEW p \in Proc, Crash(p)
  PROVE  IndInv'
<1>1. /\ NoCall \in CallRecord
      /\ NoCall.sent = 0 /\ ~NoCall.forced /\ NoCall.result = "none"
  BY DEF NoCall, Fresh, CallRecord, ClientAssumption
<1>2. Locals(p, "idle", NoCall)
  BY <1>1, Facts, LocalsStep DEF Crash, Steps
<1>3. placed' \in [Proc -> Nat] /\ placed'[p] = 0 /\ \A q \in Proc \ {p} : placed'[q] = placed[q]
  BY Facts, Update DEF Crash
<1>4. mem' \in [Proc -> 0 .. issued] /\ mem'[p] = 0 /\ \A q \in Proc \ {p} : mem'[q] = mem[q]
  BY Facts, Update DEF Crash
<1>5. \A q \in Proc : lock' = q <=> pc'[q] \in {"locked", "write"}
  BY <1>2, Facts DEF Crash, Locals, ClientAssumption
<1>6. Frame(p)
  BY <1>2, <1>3, <1>4, <1>5, Facts DEF Crash, Frame, Locals, tokens, store, ClientAssumption
<1>7. CallOK(p)' /\ TokenOK(p)'
  BY <1>1, <1>2, <1>3, <1>4, Facts DEF Crash, Locals, CallOK, TokenOK, tokens, store
<1>. QED
  BY <1>6, <1>7, Framed

\* Tokens that age or end keep the invariant.
LEMMA TokensKeep ==
  ASSUME ClientAssumption, IndInv, Age \/ Revoke
  PROVE  IndInv'
<1>1. TypeOK'
  <2>1. CASE Age
    BY <2>1 DEF Age, IndInv, TypeOK, store
  <2>2. CASE Revoke
    BY <2>2 DEF Revoke, IndInv, TypeOK, store
  <2>. QED
    BY <2>1, <2>2
<1>2. CallInv'
  BY DEF Age, Revoke, IndInv, CallInv, CallOK
<1>3. TokenInv'
  BY DEF Age, Revoke, IndInv, TokenInv, TokenOK, store
<1>. QED
  BY <1>1, <1>2, <1>3 DEF IndInv

\* Every step keeps the invariant.
LEMMA NextKeeps == ClientAssumption /\ IndInv /\ [Next]_vars => IndInv'
<1>. SUFFICES ASSUME ClientAssumption, IndInv, [Next]_vars PROVE IndInv'
  OBVIOUS
<1>1. ASSUME NEW p \in Proc, Answer(p) PROVE IndInv'
  BY <1>1, AnswerSteps, AnswerKeeps, UnauthorisedKeeps
<1>2. ASSUME NEW p \in Proc, Step(p) PROVE IndInv'
  BY <1>1, <1>2, UseMemoryKeeps, ReuseKeeps, IssueKeeps, WriteCacheKeeps,
     WriteCacheFailsKeeps, IssueFailsKeeps
     DEF Step
<1>3. ASSUME NEW p \in Proc, Call(p, TRUE) \/ Call(p, FALSE) PROVE IndInv'
  BY <1>3, CallKeeps
<1>4. ASSUME NEW p \in Proc, Lock(p) \/ Crash(p) PROVE IndInv'
  BY <1>4, LockKeeps, CrashKeeps
<1>5. CASE Age \/ Revoke
  BY <1>5, TokensKeep
<1>6. CASE UNCHANGED vars
  BY <1>6 DEF vars, tokens, store, IndInv, TypeOK, CallInv, CallOK, TokenInv, TokenOK
<1>. QED
  BY <1>2, <1>3, <1>4, <1>5, <1>6 DEF Next

-----------------------------------------------------------------------------
(* Theorems.                                                                *)

\* The inductive invariant holds in every reachable state.
LEMMA Invariance == Spec => []IndInv
BY ClientAssumption, InitInv, NextKeeps, PTL DEF Spec

\* Every reachable state is well typed, and the file lock is held exactly by
\* the process inside ensure_token's critical section.
THEOREM TypeCorrect == Spec => []TypeOK
BY Invariance, PTL DEF IndInv

\* No request is executed twice, for any number of processes, retries and
\* tokens.
THEOREM AtMostOnceHolds == Spec => []AtMostOnce
<1>1. IndInv => AtMostOnce
  BY DEF IndInv, CallInv, CallOK, AtMostOnce
<1>. QED
  BY <1>1, Invariance, PTL

\* What the client reports of an order is what the venue did with it.
THEOREM ResultTrueHolds == Spec => []ResultTrue
<1>1. IndInv => ResultTrue
  BY DEF IndInv, CallInv, CallOK, ResultTrue
<1>. QED
  BY <1>1, Invariance, PTL

\* Only a process that found the cache useless under the lock takes a token,
\* while the cache file has not failed.
LEMMA IssueUnderLock ==
  ASSUME ClientAssumption, IndInv, [Next]_vars, issued' > issued, ~spoilt'
  PROVE  \E p \in Proc : pc[p] = "locked" /\ ~Reusable(p) /\ ~spoilt
<1>1. issued \in Nat /\ issued' # issued
  BY DEF IndInv, TypeOK, ClientAssumption
<1>2. ASSUME NEW p \in Proc, Answer(p) PROVE FALSE
  BY <1>1, <1>2 DEF Answer, Unauthorised, Accepted, Refused, RateLimited, InProgress,
     ServerError, NetworkError, tokens, store
<1>3. ASSUME NEW p \in Proc, Step(p) PROVE pc[p] = "locked" /\ ~Reusable(p) /\ ~spoilt
  BY <1>1, <1>2, <1>3
     DEF Step, UseMemory, Reuse, WriteCache, WriteCacheFails, Issue, IssueFails,
         NothingCached, tokens
<1>4. ASSUME NEW p \in Proc, Call(p, TRUE) \/ Call(p, FALSE) \/ Lock(p) \/ Crash(p)
      PROVE  FALSE
  BY <1>1, <1>4 DEF Call, Lock, Crash, tokens, store
<1>5. ~Age /\ ~Revoke /\ ~UNCHANGED vars
  BY <1>1 DEF Age, Revoke, vars, tokens, store
<1>. QED
  BY <1>3, <1>4, <1>5 DEF Next

\* While the cache file has not failed a reader or a writer, a token is taken
\* only when no process and no cache has one that still works: inside the lock,
\* whoever has the live token left it in the cache, and the cache was just found
\* useless.
THEOREM NoRefreshLoopHolds == Spec => NoRefreshLoop
<1>1. IndInv /\ [Next]_vars =>
        (issued' > issued /\ ~spoilt' => ~Shared)
  <2>. SUFFICES ASSUME IndInv, [Next]_vars, issued' > issued, ~spoilt',
                       NEW t \in {cache} \union {mem[p] : p \in Proc},
                       Usable(t), t = live
                PROVE  FALSE
    BY DEF Shared
  <2>1. PICK p \in Proc : pc[p] = "locked" /\ ~Reusable(p) /\ ~spoilt
    BY IssueUnderLock, ClientAssumption
  <2>2. cache = live
    <3>1. \A q \in Proc : pc[q] # "write"
      BY <2>1 DEF IndInv, TypeOK
    <3>2. live # 0
      BY DEF Usable
    <3>3. \A q \in Proc : mem[q] = live => cache = live
      BY <2>1, <3>1, <3>2 DEF IndInv, TokenInv, TokenOK
    <3>. QED
      BY <3>3
  <2>3. call[p].forced => call[p].sent # live
    BY DEF IndInv, TokenInv, TokenOK
  <2>. QED
    BY <2>1, <2>2, <2>3 DEF Reusable
<1>. QED
  BY <1>1, Invariance, PTL DEF Spec, NoRefreshLoop

=============================================================================
