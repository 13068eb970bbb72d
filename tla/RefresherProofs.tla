-------------------------- MODULE RefresherProofs --------------------------
(***************************************************************************)
(* Safety and progress of Refresher, for every number of handlers, keys,   *)
(* loops, sessions and fetches.                                            *)
(***************************************************************************)
EXTENDS Refresher, FiniteSetTheorems, TLAPS

(* Fetch i has produced its result. *)
Finished(i) == i \in DOMAIN calls /\ calls[i].st # "running"

(* Fetches carry the generation they started under, which only grows; the    *)
(* end of a session leaves none of the current generation behind. *)
GensOrdered ==
    /\ \A i \in DOMAIN calls : calls[i].gen <= gen
    /\ \A i, j \in DOMAIN calls : i < j => calls[i].gen <= calls[j].gen
    /\ SessionEnded => \A i \in DOMAIN calls : calls[i].gen < gen

(* The stop channel of an active session is open, and no other one is. *)
ActiveOpen ==
    /\ active => stop # NoChan /\ stop \notin closed
    /\ ~active => stop = NoChan \/ stop \in closed

(* The in-flight table holds the newest fetch of its key, not yet unlinked. *)
InflightOK ==
    /\ \A k \in Keys : inflight[k] # 0 =>
          /\ inflight[k] \in DOMAIN calls
          /\ calls[inflight[k]].key = k
          /\ calls[inflight[k]].st \in {"running", "stored"}
    /\ \A i \in DOMAIN calls : inflight[calls[i].key] # 0 => i <= inflight[calls[i].key]

(* A cached response is the newest finished one of its key. *)
EntriesOK ==
    /\ \A k \in Keys : entries[k] # 0 => Finished(entries[k])
    /\ \A i \in DOMAIN calls :
          Finished(i) /\ entries[calls[i].key] # 0 => i <= entries[calls[i].key]

(* What handlers were answered with came from finished fetches of the key. *)
ServedOK == \A k \in Keys : served[k] # 0 => Finished(served[k]) /\ calls[served[k]].key = k

(* A caller waits for, and is answered with, a fetch of its key that is no   *)
(* older than its floor. *)
CallerOK(r) ==
    /\ r.floor <= served[r.key]
    /\ r.pc = "wait" => /\ r.call \in DOMAIN calls
                        /\ calls[r.call].key = r.key
                        /\ r.call >= r.floor
    /\ r.status = "body" => /\ Finished(r.body)
                            /\ calls[r.body].key = r.key
                            /\ r.body >= r.floor
    /\ r.status # "body" => r.body = 0
ReqOK == \A g \in Getters : CallerOK(req[g])

IInv ==
    /\ TypeOK
    /\ GensOrdered
    /\ ActiveOpen /\ OneLiveLoop
    /\ InflightOK /\ SingleFlight
    /\ EntriesOK /\ CacheOfThisSession
    /\ ServedOK
    /\ ReqOK

-----------------------------------------------------------------------------
(* Lemmas about the state. *)

(* The idle caller is a caller. *)
LEMMA IdleType ==
    /\ Idle \in Request
    /\ Idle.pc = "idle" /\ Idle.floor = 0 /\ Idle.status = "none" /\ Idle.body = 0
    /\ Idle.key \in Keys
<1>1. (CHOOSE k \in Keys : TRUE) \in Keys
  BY KeysExist
<1> QED
  BY <1>1 DEF Idle, Request, Statuses

(* A caller that has just asked for k. *)
LEMMA AskingType ==
    ASSUME NEW k \in Keys, NEW f \in Nat
    PROVE  /\ Asking(k, f) \in Request
           /\ Asking(k, f).pc = "get" /\ Asking(k, f).key = k /\ Asking(k, f).floor = f
           /\ Asking(k, f).status = "none" /\ Asking(k, f).body = 0
<1>1. (CHOOSE m \in Keys : TRUE) \in Keys
  BY KeysExist
<1> QED
  BY <1>1 DEF Asking, Idle, Request, Statuses

(* Fetches are numbered from 1, and each is a call for a known key. *)
LEMMA CallsType ==
    ASSUME TypeOK
    PROVE  /\ Len(calls) \in Nat /\ DOMAIN calls = 1..Len(calls)
           /\ \A i \in DOMAIN calls : /\ calls[i] \in Call
                                     /\ calls[i].key \in Keys /\ calls[i].gen \in Nat
<1>1. /\ Len(calls) \in Nat /\ DOMAIN calls = 1..Len(calls)
      /\ \A i \in DOMAIN calls : calls[i] \in Call
  BY DEF TypeOK
<1> QED
  BY <1>1, ProducersAreKeys DEF Call

(* A fetch goroutine's step changes the state of its own call only. *)
LEMMA CallUpdate ==
    ASSUME calls \in Seq(Call), NEW i \in DOMAIN calls, NEW st \in CallStates,
           calls' = [calls EXCEPT ![i].st = st]
    PROVE  /\ calls' \in Seq(Call)
           /\ DOMAIN calls' = DOMAIN calls
           /\ calls'[i] = [calls[i] EXCEPT !.st = st]
           /\ \A j \in DOMAIN calls : j # i => calls'[j] = calls[j]
           /\ \A j \in DOMAIN calls : calls'[j].key = calls[j].key /\ calls'[j].gen = calls[j].gen
<1>1. DOMAIN calls = 1..Len(calls) /\ Len(calls) \in Nat /\ \A j \in DOMAIN calls : calls[j] \in Call
  OBVIOUS
<1>2. [calls[i] EXCEPT !.st = st] \in Call
  BY <1>1 DEF Call
<1>3. calls' = [j \in 1..Len(calls) |-> IF j = i THEN [calls[i] EXCEPT !.st = st] ELSE calls[j]]
  BY <1>1
<1>4. calls' \in Seq(Call)
  BY <1>1, <1>2, <1>3
<1> QED
  BY <1>1, <1>2, <1>3, <1>4 DEF Call

(* A step that changes one caller only, to a well-formed one, keeps IInv. *)
LEMMA CallerStep ==
    ASSUME IInv, NEW g \in Getters, NEW r \in Request, CallerOK(r),
           req' = [req EXCEPT ![g] = r],
           UNCHANGED <<cacheVars, inflight, sessionVars, calls, loop, served>>
    PROVE  IInv'
<1> USE DEF IInv, cacheVars, sessionVars
<1>1. TypeOK'
  BY DEF TypeOK
<1>2. ReqOK'
  BY DEF ReqOK, CallerOK, Finished, TypeOK
<1>3. GensOrdered' /\ ActiveOpen' /\ OneLiveLoop' /\ SingleFlight' /\ CacheOfThisSession'
  BY DEF GensOrdered, ActiveOpen, OneLiveLoop, SingleFlight, CacheOfThisSession, SessionEnded
<1>4. InflightOK' /\ EntriesOK' /\ ServedOK'
  BY DEF InflightOK, EntriesOK, ServedOK, Finished
<1> QED
  BY <1>1, <1>2, <1>3, <1>4

(* The cache and the in-flight table are never behind what was served. *)
LEMMA NeverBehind ==
    ASSUME IInv, NEW k \in Keys
    PROVE  /\ entries[k] # 0 => entries[k] >= served[k]
           /\ inflight[k] # 0 => inflight[k] >= served[k]
           /\ served[k] <= Len(calls)
<1> USE DEF IInv
<1>1. served[k] \in Nat /\ entries[k] \in Nat /\ inflight[k] \in Nat /\ Len(calls) \in Nat
      /\ DOMAIN calls = 1..Len(calls)
  BY DEF TypeOK
<1>2. CASE served[k] = 0
  BY <1>1, <1>2
<1>3. CASE served[k] # 0
  BY <1>1, <1>3 DEF ServedOK, EntriesOK, InflightOK, Finished
<1> QED
  BY <1>2, <1>3

-----------------------------------------------------------------------------
(* The refresher starts with the invariant. *)
LEMMA InitIInv == Init => IInv
<1> SUFFICES ASSUME Init PROVE IInv
  OBVIOUS
<1>1. calls = <<>> /\ DOMAIN calls = {} /\ calls \in Seq(Call)
  BY DEF Init
<1>2. TypeOK
  BY <1>1, IdleType DEF Init, TypeOK
<1>3. GensOrdered /\ InflightOK /\ SingleFlight /\ EntriesOK /\ CacheOfThisSession
  BY <1>1 DEF Init, GensOrdered, InflightOK, SingleFlight, EntriesOK, CacheOfThisSession, SessionEnded
<1>4. ActiveOpen /\ OneLiveLoop /\ ServedOK
  BY DEF Init, ActiveOpen, OneLiveLoop, ServedOK
<1>5. ReqOK
  BY IdleType DEF Init, ReqOK, CallerOK
<1> QED
  BY <1>2, <1>3, <1>4, <1>5 DEF IInv

(* setActive, in both directions. *)
LEMMA SetActiveStep ==
    ASSUME IInv, NEW b \in BOOLEAN, SetActive(b)
    PROVE  IInv'
<1> USE DEF IInv, SetActive
<1>1. CASE b
  <2>1. StartSession /\ UNCHANGED <<cacheVars, inflight, calls, req, served>>
    BY <1>1
  <2>2. /\ TypeOK' /\ gen' = gen
        /\ ActiveOpen' /\ OneLiveLoop'
        /\ SessionEnded' => SessionEnded
    <3>1. CASE active
      BY <2>1, <3>1 DEF StartSession, cacheVars, sessionVars, TypeOK, ActiveOpen, OneLiveLoop, SessionEnded
    <3>2. CASE ~active
      <4>1. PICK l \in Loops : /\ active' = TRUE /\ stop' = l /\ closed' = closed \ {l}
                               /\ loop' = [loop EXCEPT ![l] = "refresh"] /\ gen' = gen
        BY <2>1, <3>2 DEF StartSession
      <4>2. TypeOK'
        BY <2>1, <4>1 DEF cacheVars, TypeOK
      <4>3. ActiveOpen' /\ (SessionEnded' => SessionEnded)
        BY <4>1, NoChanIsNoLoop DEF ActiveOpen, SessionEnded
      <4>4. OneLiveLoop'
        BY <3>2, <4>1, <4>3 DEF OneLiveLoop, ActiveOpen, TypeOK
      <4> QED
        BY <4>1, <4>2, <4>3, <4>4
    <3> QED
      BY <3>1, <3>2
  <2>3. GensOrdered' /\ SingleFlight' /\ CacheOfThisSession'
    BY <2>1, <2>2 DEF GensOrdered, SingleFlight, CacheOfThisSession, cacheVars
  <2>4. InflightOK' /\ EntriesOK' /\ ServedOK' /\ ReqOK'
    BY <2>1 DEF InflightOK, EntriesOK, ServedOK, ReqOK, CallerOK, Finished, cacheVars
  <2> QED
    BY <2>2, <2>3, <2>4
<1>2. CASE ~b
  <2>1. EndSession /\ UNCHANGED <<loop, inflight, calls, req, served>>
    BY <1>2
  <2>2. TypeOK'
    <3>1. closed' \subseteq Loops /\ stop' \in Loops \cup {NoChan}
      BY <2>1 DEF EndSession, TypeOK
    <3>2. entries' \in [Keys -> Nat] /\ fresh' \subseteq Keys /\ gen' \in Nat
      BY <2>1 DEF EndSession, TypeOK
    <3>3. active' \in BOOLEAN
      BY <2>1, Zenon DEF EndSession
    <3> QED
      BY <2>1, <3>1, <3>2, <3>3 DEF TypeOK
  <2>3. ActiveOpen' /\ OneLiveLoop'
    <3>1. stop \in closed' \/ stop = NoChan
      BY <2>1 DEF EndSession
    <3>2. ActiveOpen'
      BY <2>1, <3>1 DEF EndSession, ActiveOpen
    <3>3. \A l \in Loops : loop[l] # "off" => l \in closed'
      BY <2>1, NoChanIsNoLoop DEF EndSession, OneLiveLoop
    <3> QED
      BY <2>1, <3>2, <3>3 DEF OneLiveLoop, ActiveOpen
  <2>4. GensOrdered'
    BY <2>1, CallsType DEF EndSession, GensOrdered, TypeOK
  <2>5. SingleFlight' /\ CacheOfThisSession' /\ EntriesOK'
    BY <2>1, CallsType DEF EndSession, SingleFlight, CacheOfThisSession, EntriesOK
  <2>6. InflightOK' /\ ServedOK' /\ ReqOK'
    BY <2>1 DEF InflightOK, ServedOK, ReqOK, CallerOK, Finished
  <2> QED
    BY <2>2, <2>3, <2>4, <2>5, <2>6
<1> QED
  BY <1>1, <1>2

(* The background loop. *)
LEMMA LoopStep ==
    ASSUME IInv, NEW l \in Loops, LoopNext(l)
    PROVE  IInv'
<1> USE DEF IInv
<1>1. /\ UNCHANGED <<cacheVars, inflight, sessionVars, calls, served>>
      /\ loop' \in [Loops -> {"off", "refresh", "join", "select"}]
      /\ \A m \in Loops : loop'[m] # "off" => loop[m] # "off"
  BY DEF LoopNext, RefreshAll, Join, Tick, LoopStop, TypeOK
<1>2. req' \in [Getters -> Request] /\ \A g \in Getters : CallerOK(req'[g])
  <2>1. CASE RefreshAll(l)
    <3>0. \A g \in Workers : g[2] \in Keys
      BY ProducersAreKeys DEF Workers
    <3>1. \A g \in Getters : req'[g] = req[g] \/ \E k \in Keys : req'[g] = Asking(k, 0)
      BY <2>1, <3>0 DEF RefreshAll
    <3>2. \A k \in Keys : Asking(k, 0) \in Request /\ CallerOK(Asking(k, 0))
      <4> TAKE k \in Keys
      <4>1. /\ Asking(k, 0) \in Request
            /\ Asking(k, 0).pc = "get" /\ Asking(k, 0).key = k /\ Asking(k, 0).floor = 0
            /\ Asking(k, 0).status = "none" /\ Asking(k, 0).body = 0
        BY AskingType
      <4>2. 0 <= served[k]
        BY DEF TypeOK
      <4> QED
        BY <4>1, <4>2 DEF CallerOK
    <3>3. \A g \in Getters : req'[g] \in Request
      BY <3>1, <3>2 DEF TypeOK
    <3>4. req' \in [Getters -> Request]
      BY <2>1, <3>3 DEF RefreshAll
    <3>5. \A g \in Getters : CallerOK(req'[g])
      BY <3>1, <3>2 DEF ReqOK
    <3> QED
      BY <3>4, <3>5
  <2>2. CASE Join(l) \/ Tick(l) \/ LoopStop(l)
    BY <2>2 DEF Join, Tick, LoopStop, TypeOK, ReqOK
  <2> QED
    BY <2>1, <2>2 DEF LoopNext
<1>3. TypeOK'
  BY <1>1, <1>2 DEF TypeOK, cacheVars, sessionVars
<1>4. ReqOK'
  BY <1>1, <1>2 DEF ReqOK, CallerOK, Finished
<1>5. OneLiveLoop' /\ ActiveOpen' /\ GensOrdered' /\ SingleFlight' /\ CacheOfThisSession'
  BY <1>1 DEF OneLiveLoop, ActiveOpen, GensOrdered, SingleFlight, CacheOfThisSession,
              SessionEnded, cacheVars, sessionVars
<1>6. InflightOK' /\ EntriesOK' /\ ServedOK'
  BY <1>1 DEF InflightOK, EntriesOK, ServedOK, Finished, cacheVars
<1> QED
  BY <1>3, <1>4, <1>5, <1>6

-----------------------------------------------------------------------------
(* get() returning an answer that is a finished fetch of the right key and   *)
(* no older than the caller's floor, or no body at all. *)
LEMMA AnswerStep ==
    ASSUME IInv, NEW g \in Getters, NEW status \in Statuses, NEW body \in Nat,
           Answer(g, status, body),
           status = "body" => /\ Finished(body) /\ calls[body].key = req[g].key
                              /\ body >= req[g].floor,
           status # "body" => body = 0,
           UNCHANGED <<cacheVars, inflight, sessionVars, calls, loop, served>>
    PROVE  IInv'
<1> DEFINE done == [req[g] EXCEPT !.pc = "done", !.call = 0, !.status = status, !.body = body]
           r == IF g \in Workers THEN Idle ELSE done
<1>1. req[g] \in Request /\ req[g].key \in Keys /\ req[g].floor <= served[req[g].key]
  BY DEF IInv, TypeOK, Request, ReqOK, CallerOK
<1>2. done \in Request /\ CallerOK(done)
  BY <1>1 DEF Request, CallerOK, Statuses
<1>3. Idle \in Request /\ CallerOK(Idle)
  BY IdleType DEF CallerOK, IInv, TypeOK
<1>4. r \in Request /\ CallerOK(r)
  BY <1>2, <1>3
<1>5. req' = [req EXCEPT ![g] = r]
  BY DEF Answer
<1> HIDE DEF r
<1> QED
  BY <1>4, <1>5, CallerStep

(* The handler's side: requests, cancelled waits, responses. *)
LEMMA ClientStep ==
    ASSUME IInv, NEW h \in Handlers, ClientNext(h)
    PROVE  IInv'
<1>0. h \in Getters
  BY DEF Getters
<1>1. CASE BadMethod(h)
  <2> DEFINE r == [Idle EXCEPT !.pc = "done", !.status = "405"]
  <2>1. r \in Request /\ CallerOK(r)
    <3>1. /\ r \in Request /\ r.key \in Keys
          /\ r.pc = "done" /\ r.floor = 0 /\ r.status = "405" /\ r.body = 0
      BY IdleType DEF Request, Statuses
    <3>2. served[r.key] \in Nat
      BY <3>1 DEF IInv, TypeOK
    <3> HIDE DEF r
    <3> QED
      BY <3>1, <3>2 DEF CallerOK
  <2>2. req' = [req EXCEPT ![h] = r]
    BY <1>1 DEF BadMethod
  <2> HIDE DEF r
  <2> QED
    BY <1>0, <1>1, <2>1, <2>2, CallerStep DEF BadMethod
<1>2. ASSUME NEW k \in Keys, Receive(h, k) PROVE IInv'
  <2> DEFINE r == Asking(k, served[k])
  <2>1. served[k] \in Nat
    BY DEF IInv, TypeOK
  <2>2. r \in Request /\ CallerOK(r)
    <3>1. /\ r \in Request
          /\ r.pc = "get" /\ r.key = k /\ r.floor = served[k]
          /\ r.status = "none" /\ r.body = 0
      BY <2>1, AskingType
    <3> HIDE DEF r
    <3> QED
      BY <2>1, <3>1 DEF CallerOK
  <2>3. req' = [req EXCEPT ![h] = r]
    BY <1>2 DEF Receive
  <2> HIDE DEF r
  <2> QED
    BY <1>0, <1>2, <2>2, <2>3, CallerStep DEF Receive
<1>3. CASE WaitCancelled(h)
  <2> DEFINE k == req[h].key
  <2>1. k \in Keys /\ req[h].floor <= served[k] /\ req[h].floor \in Nat
        /\ served[k] \in Nat /\ entries[k] \in Nat
    BY <1>0 DEF IInv, TypeOK, Request, ReqOK, CallerOK
  <2>2. CASE entries[k] # 0
    <3>1. Finished(entries[k]) /\ calls[entries[k]].key = k
      BY <2>1, <2>2 DEF IInv, EntriesOK, CacheOfThisSession
    <3>2. entries[k] >= req[h].floor
      BY <2>1, <2>2, NeverBehind
    <3>3. Answer(h, "body", entries[k])
      BY <1>3, <2>2 DEF WaitCancelled
    <3> QED
      BY <1>0, <1>3, <2>1, <3>1, <3>2, <3>3, AnswerStep DEF WaitCancelled, Statuses
  <2>3. CASE entries[k] = 0
    <3>1. Answer(h, "timeout", 0)
      BY <1>3, <2>3 DEF WaitCancelled
    <3> QED
      BY <1>0, <1>3, <3>1, AnswerStep DEF WaitCancelled, Statuses
  <2> QED
    BY <2>2, <2>3
<1>4. CASE Return(h)
  <2> USE DEF IInv
  <2> DEFINE k == req[h].key
  <2>1. k \in Keys /\ req[h].body \in Nat /\ CallerOK(req[h]) /\ served \in [Keys -> Nat]
    BY <1>0 DEF TypeOK, Request, ReqOK
  <2>2. /\ served' \in [Keys -> Nat]
        /\ \A m \in Keys : served'[m] >= served[m]
        /\ \A m \in Keys : served'[m] # served[m] => m = k /\ served'[m] = req[h].body /\ req[h].body # 0
    BY <1>4, <2>1 DEF Return
  <2>3. UNCHANGED <<entries, fresh, inflight, active, gen, stop, closed, calls, loop>>
    BY <1>4 DEF Return, cacheVars, sessionVars
  <2>4. req' = [req EXCEPT ![h] = Idle]
    BY <1>4 DEF Return
  <2>5. TypeOK'
    BY <1>0, <2>2, <2>3, <2>4, IdleType DEF TypeOK
  <2>6. ServedOK'
    BY <2>1, <2>2, <2>3 DEF ServedOK, CallerOK, Finished
  <2>7. ReqOK'
    <3> SUFFICES ASSUME NEW g \in Getters PROVE CallerOK(req[g])'
      BY DEF ReqOK
    <3>1. CASE g = h
      <4>1. req'[g] = Idle
        BY <1>0, <2>4, <3>1 DEF TypeOK
      <4>2. served'[Idle.key] \in Nat
        BY <2>2, IdleType
      <4> QED
        BY <4>1, <4>2, IdleType DEF CallerOK
    <3>2. CASE g # h
      <4>1. req'[g] = req[g] /\ req[g].key \in Keys /\ req[g].floor \in Nat
        BY <2>4, <3>2 DEF TypeOK, Request
      <4>2. req[g].floor <= served'[req[g].key]
        BY <2>1, <2>2, <4>1 DEF ReqOK, CallerOK
      <4>3. CallerOK(req[g])
        BY DEF ReqOK
      <4> QED
        BY <2>3, <4>1, <4>2, <4>3 DEF CallerOK, Finished
    <3> QED
      BY <3>1, <3>2
  <2>8. GensOrdered' /\ ActiveOpen' /\ OneLiveLoop' /\ SingleFlight' /\ CacheOfThisSession'
    BY <2>3 DEF GensOrdered, ActiveOpen, OneLiveLoop, SingleFlight, CacheOfThisSession, SessionEnded
  <2>9. InflightOK' /\ EntriesOK'
    BY <2>3 DEF InflightOK, EntriesOK, Finished
  <2> QED
    BY <2>5, <2>6, <2>7, <2>8, <2>9
<1> QED
  BY <1>1, <1>2, <1>3, <1>4 DEF ClientNext

(* get() and wait(), up to the start of a fetch. *)
LEMMA GetStep ==
    ASSUME IInv, NEW g \in Getters,
           GetFresh(g) \/ GetJoin(g) \/ GetRefused(g) \/ WaitDone(g)
    PROVE  IInv'
<1> DEFINE k == req[g].key
<1>1. /\ req[g] \in Request /\ CallerOK(req[g])
      /\ k \in Keys /\ req[g].floor <= served[k] /\ req[g].floor \in Nat /\ req[g].call \in Nat
      /\ served[k] \in Nat /\ entries[k] \in Nat /\ inflight[k] \in Nat
  BY DEF IInv, TypeOK, Request, ReqOK, CallerOK
<1>2. CASE GetFresh(g)
  <2>1. entries[k] # 0 /\ Answer(g, "body", entries[k])
    BY <1>2 DEF GetFresh, Stale
  <2>2. Finished(entries[k]) /\ calls[entries[k]].key = k
    BY <1>1, <2>1 DEF IInv, EntriesOK, CacheOfThisSession
  <2>3. entries[k] >= req[g].floor
    BY <1>1, <2>1, NeverBehind
  <2> QED
    BY <1>1, <1>2, <2>1, <2>2, <2>3, AnswerStep DEF GetFresh, Statuses
<1>3. CASE GetJoin(g)
  <2> DEFINE r == [req[g] EXCEPT !.pc = "wait", !.call = inflight[k]]
  <2>1. inflight[k] # 0 /\ req' = [req EXCEPT ![g] = r]
    BY <1>3 DEF GetJoin
  <2>2. inflight[k] \in DOMAIN calls /\ calls[inflight[k]].key = k
    BY <1>1, <2>1 DEF IInv, InflightOK
  <2>3. inflight[k] >= req[g].floor
    BY <1>1, <2>1, NeverBehind
  <2>4. r \in Request /\ CallerOK(r)
    BY <1>1, <2>2, <2>3 DEF Request, CallerOK
  <2> HIDE DEF r
  <2> QED
    BY <1>3, <2>1, <2>4, CallerStep DEF GetJoin
<1>4. CASE GetRefused(g)
  <2> DEFINE status == IF k \notin Producers THEN "404" ELSE "ended"
  <2>1. Answer(g, status, 0) /\ status \in Statuses /\ status # "body"
    BY <1>4 DEF GetRefused, Statuses
  <2> HIDE DEF status
  <2> QED
    BY <1>4, <2>1, AnswerStep DEF GetRefused
<1>5. CASE WaitDone(g)
  <2>1. /\ Finished(req[g].call) /\ calls[req[g].call].key = k /\ req[g].call >= req[g].floor
        /\ Answer(g, "body", req[g].call)
    BY <1>1, <1>5 DEF WaitDone, CallerOK, Finished
  <2> QED
    BY <1>1, <1>5, <2>1, AnswerStep DEF WaitDone, Statuses
<1> QED
  BY <1>2, <1>3, <1>4, <1>5

(* get() starting a fetch: the new call is the newest of all. *)
LEMMA GetFetchStep ==
    ASSUME IInv, NEW g \in Getters, GetFetch(g)
    PROVE  IInv'
<1> USE DEF IInv
<1> DEFINE k == req[g].key
           n == Len(calls) + 1
           new == [key |-> k, gen |-> gen, st |-> "running"]
           r == [req[g] EXCEPT !.pc = "wait", !.call = n]
<1>1. /\ inflight[k] = 0 /\ k \in Producers /\ k \in Keys /\ ~SessionEnded
      /\ calls' = Append(calls, new)
      /\ inflight' = [inflight EXCEPT ![k] = n]
      /\ req' = [req EXCEPT ![g] = r]
      /\ UNCHANGED <<entries, fresh, active, gen, stop, closed, loop, served>>
  BY ProducersAreKeys DEF GetFetch, cacheVars, sessionVars
<1>2. new \in Call /\ gen \in Nat
  BY <1>1 DEF TypeOK, Call, CallStates
<1>3. Len(calls) \in Nat /\ DOMAIN calls = 1..Len(calls)
  BY CallsType
<1>4. /\ calls' \in Seq(Call)
      /\ DOMAIN calls' = DOMAIN calls \cup {n} /\ n \notin DOMAIN calls /\ n \in Nat /\ n # 0
      /\ calls'[n] = new
      /\ \A i \in DOMAIN calls : calls'[i] = calls[i] /\ i < n /\ i # n
  BY <1>1, <1>2, <1>3 DEF TypeOK
<1>5. new.key = k /\ new.gen = gen /\ new.st = "running"
  OBVIOUS
<1>6. /\ req[g] \in Request /\ CallerOK(req[g]) /\ req[g].floor \in Nat
      /\ req[g].floor <= served[k] /\ served[k] \in Nat /\ served[k] < n
  <2>1. req[g] \in Request /\ CallerOK(req[g]) /\ served[k] \in Nat
    BY <1>1 DEF TypeOK, ReqOK
  <2> QED
    BY <1>1, <1>3, <2>1, NeverBehind DEF CallerOK, Request
<1>7. r \in Request
  BY <1>4, <1>6 DEF Request
<1> HIDE DEF n, new
<1>8. TypeOK'
  BY <1>1, <1>4, <1>7 DEF TypeOK
<1>9. GensOrdered'
  BY <1>1, <1>2, <1>3, <1>4, <1>5 DEF GensOrdered, SessionEnded
<1>10. InflightOK'
  <2>1. ASSUME NEW m \in Keys, inflight'[m] # 0
        PROVE  /\ inflight'[m] \in DOMAIN calls' /\ calls'[inflight'[m]].key = m
               /\ calls'[inflight'[m]].st \in {"running", "stored"}
    BY <1>1, <1>4, <1>5, <2>1 DEF InflightOK, TypeOK
  <2>2. ASSUME NEW i \in DOMAIN calls', inflight'[calls'[i].key] # 0
        PROVE  i <= inflight'[calls'[i].key]
    BY <1>1, <1>3, <1>4, <1>5, <2>2, CallsType DEF InflightOK, TypeOK
  <2> QED
    BY <2>1, <2>2 DEF InflightOK
<1>11. SingleFlight'
  <2>1. \A i \in DOMAIN calls : calls[i].st \in {"running", "stored"} => calls[i].key # k /\ i # 0
    BY <1>1, <1>3 DEF SingleFlight
  <2> QED
    BY <1>1, <1>4, <1>5, <2>1, CallsType DEF SingleFlight, TypeOK
<1>12. EntriesOK' /\ CacheOfThisSession' /\ ServedOK'
  BY <1>1, <1>4, <1>5 DEF EntriesOK, CacheOfThisSession, ServedOK, Finished
<1>13. \A b : Finished(b) => Finished(b)' /\ calls'[b].key = calls[b].key
  BY <1>4 DEF Finished
<1>14. ReqOK'
  <2> SUFFICES ASSUME NEW h \in Getters PROVE CallerOK(req[h])'
    BY DEF ReqOK
  <2>1. CASE h = g
    <3>1. PICK q \in Request : q = r
      BY <1>7
    <3>2. req'[h] = q
      BY <1>1, <2>1, <3>1 DEF TypeOK
    <3>3. q.pc = "wait" /\ q.call = n /\ q.key = k /\ q.floor = req[g].floor
          /\ q.status = req[g].status /\ q.body = req[g].body
      BY <1>6, <3>1 DEF Request
    <3> HIDE DEF r
    <3>4. q.status = "body" => /\ Finished(q.body)' /\ calls'[q.body].key = k
                               /\ q.body >= q.floor
      BY <1>6, <1>13, <3>3 DEF CallerOK
    <3>5. q.status # "body" => q.body = 0
      BY <1>6, <3>3 DEF CallerOK
    <3>6. n \in DOMAIN calls' /\ calls'[n].key = k /\ n >= req[g].floor
      BY <1>4, <1>5, <1>6
    <3> QED
      BY <1>1, <1>6, <3>2, <3>3, <3>4, <3>5, <3>6 DEF CallerOK
  <2>2. CASE h # g
    <3>1. req'[h] = req[h] /\ CallerOK(req[h])
      BY <1>1, <2>2 DEF TypeOK, ReqOK
    <3> QED
      BY <1>1, <1>4, <1>13, <3>1 DEF CallerOK
  <2> QED
    BY <2>1, <2>2
<1>15. ActiveOpen' /\ OneLiveLoop'
  BY <1>1 DEF ActiveOpen, OneLiveLoop
<1> QED
  BY <1>8, <1>9, <1>10, <1>11, <1>12, <1>14, <1>15

-----------------------------------------------------------------------------
(* The fetch goroutine. *)
LEMMA FetchStep ==
    ASSUME IInv, NEW i \in DOMAIN calls, FetchNext(i)
    PROVE  IInv'
<1> USE DEF IInv
<1> DEFINE k == calls[i].key
<1>1. k \in Keys /\ i \in Nat /\ i # 0 /\ calls \in Seq(Call)
  BY CallsType DEF TypeOK
<1>2. UNCHANGED <<sessionVars, loop, req, served>>
  BY DEF FetchNext, Store, Unlink, CloseDone
<1>3. /\ calls' \in Seq(Call) /\ DOMAIN calls' = DOMAIN calls
      /\ calls'[i].st \in {"stored", "unlinked", "closed"}
      /\ calls'[i].st = "stored" => calls[i].st = "running"
      /\ \A j \in DOMAIN calls : j # i => calls'[j] = calls[j]
      /\ \A j \in DOMAIN calls : calls'[j].key = calls[j].key /\ calls'[j].gen = calls[j].gen
  <2>1. PICK st \in {"stored", "unlinked", "closed"} :
           /\ calls' = [calls EXCEPT ![i].st = st]
           /\ st = "stored" => calls[i].st = "running"
    BY DEF FetchNext, Store, Unlink, CloseDone
  <2>2. st \in CallStates /\ calls[i] \in Call
    BY CallsType DEF CallStates
  <2>3. calls'[i].st = st
    BY <1>1, <2>1, <2>2, CallUpdate DEF Call
  <2> QED
    BY <1>1, <2>1, <2>2, <2>3, CallUpdate
<1>4. \A j \in Nat : Finished(j) => Finished(j)'
  BY <1>3 DEF Finished
<1>5. GensOrdered' /\ ActiveOpen' /\ OneLiveLoop'
  BY <1>2, <1>3 DEF GensOrdered, ActiveOpen, OneLiveLoop, SessionEnded, sessionVars
<1>6. ServedOK'
  BY <1>2, <1>3, <1>4 DEF ServedOK, TypeOK, Finished
<1>7. ReqOK'
  <2> SUFFICES ASSUME NEW h \in Getters PROVE CallerOK(req[h])'
    BY DEF ReqOK
  <2>1. CallerOK(req[h]) /\ req[h].body \in Nat
    BY DEF ReqOK, TypeOK, Request
  <2> QED
    BY <1>2, <1>3, <1>4, <2>1 DEF CallerOK, Finished
<1>8. CASE Store(i)
  <2>1. /\ inflight' = inflight /\ calls[i].st = "running" /\ calls'[i].st = "stored"
        /\ inflight[k] = i
    <3>1. calls[i].st = "running" /\ inflight' = inflight /\ calls' = [calls EXCEPT ![i].st = "stored"]
      BY <1>8 DEF Store
    <3>2. calls'[i].st = "stored"
      BY <1>1, <3>1, CallsType, CallUpdate DEF Call, CallStates
    <3> QED
      BY <3>1, <3>2 DEF SingleFlight
  <2>2. \A j \in DOMAIN calls : calls[j].key = k => j <= i
    BY <1>1, <2>1 DEF InflightOK
  <2>3. InflightOK' /\ SingleFlight'
    BY <1>3, <2>1 DEF InflightOK, SingleFlight
  <2>4. CASE calls[i].gen = gen
    <3>1. entries' = [entries EXCEPT ![k] = i] /\ fresh' = fresh \cup {k}
      BY <1>8, <2>4 DEF Store
    <3>2. TypeOK'
      BY <1>1, <1>2, <1>3, <2>1, <3>1 DEF TypeOK, sessionVars
    <3>3. CacheOfThisSession'
      <4>1. ASSUME NEW m \in Keys, entries'[m] # 0
            PROVE  /\ entries'[m] \in DOMAIN calls /\ calls[entries'[m]].key = m
                   /\ calls[entries'[m]].gen = gen
        BY <1>1, <2>4, <3>1, <4>1 DEF CacheOfThisSession, TypeOK
      <4> QED
        BY <1>2, <1>3, <4>1 DEF CacheOfThisSession, sessionVars
    <3>4. ASSUME NEW m \in Keys, entries'[m] # 0 PROVE Finished(entries[m])'
      BY <1>3, <3>1, <3>4 DEF EntriesOK, Finished, TypeOK
    <3>5. ASSUME NEW j \in DOMAIN calls, Finished(j)', entries'[calls[j].key] # 0
          PROVE  j <= entries'[calls[j].key]
      <4>1. CASE calls[j].key = k
        BY <1>1, <2>2, <3>1, <4>1 DEF TypeOK
      <4>2. CASE calls[j].key # k
        <5>1. j # i /\ Finished(j) /\ calls[j].key \in Keys
          BY <1>3, <3>5, <4>2, CallsType DEF Finished
        <5> QED
          BY <1>1, <3>1, <3>5, <4>2, <5>1 DEF EntriesOK, TypeOK
      <4> QED
        BY <4>1, <4>2
    <3>6. EntriesOK'
      BY <1>3, <3>4, <3>5 DEF EntriesOK
    <3> QED
      BY <1>5, <1>6, <1>7, <2>3, <3>2, <3>3, <3>6
  <2>5. CASE calls[i].gen # gen
    <3>1. entries' = entries /\ fresh' = fresh
      BY <1>8, <2>5 DEF Store, cacheVars
    <3>2. TypeOK'
      BY <1>2, <1>3, <2>1, <3>1 DEF TypeOK, sessionVars
    <3>3. CacheOfThisSession'
      BY <1>2, <1>3, <3>1 DEF CacheOfThisSession, sessionVars
    <3>4. entries[k] = 0
      <4> SUFFICES ASSUME entries[k] # 0 PROVE FALSE
        OBVIOUS
      <4> DEFINE e == entries[k]
      <4>1. e \in DOMAIN calls /\ calls[e].key = k /\ calls[e].gen = gen
        BY <1>1 DEF CacheOfThisSession
      <4>2. e <= i /\ e # i /\ e \in Nat
        BY <1>1, <2>2, <2>5, <4>1, CallsType
      <4>3. calls[e].gen <= calls[i].gen /\ calls[i].gen <= gen
        BY <1>1, <4>1, <4>2 DEF GensOrdered
      <4> QED
        BY <2>5, <4>1, <4>3, CallsType DEF TypeOK
    <3>5. EntriesOK'
      <4>1. ASSUME NEW j \in DOMAIN calls, Finished(j)', entries[calls[j].key] # 0
            PROVE  Finished(j)
        BY <1>3, <3>4, <4>1 DEF Finished
      <4> QED
        BY <1>3, <3>1, <4>1 DEF EntriesOK, Finished
    <3> QED
      BY <1>5, <1>6, <1>7, <2>3, <3>2, <3>3, <3>5
  <2> QED
    BY <2>4, <2>5
<1>9. CASE Unlink(i) \/ CloseDone(i)
  <2>1. /\ entries' = entries /\ fresh' = fresh
        /\ calls[i].st \in {"stored", "unlinked"}
        /\ calls'[i].st \in {"unlinked", "closed"}
    <3>1. PICK st \in {"unlinked", "closed"} : calls' = [calls EXCEPT ![i].st = st]
      BY <1>9 DEF Unlink, CloseDone
    <3>2. calls'[i].st = st
      BY <1>1, <3>1, CallsType, CallUpdate DEF Call, CallStates
    <3> QED
      BY <1>9, <3>1, <3>2 DEF Unlink, CloseDone, cacheVars
  <2>2. \A j \in DOMAIN calls : Finished(j)' <=> Finished(j)
    BY <1>3, <2>1 DEF Finished
  <2>3. CacheOfThisSession' /\ EntriesOK'
    BY <1>2, <1>3, <2>1, <2>2 DEF CacheOfThisSession, EntriesOK, Finished, sessionVars
  <2>4. CASE Unlink(i)
    <3>1. /\ inflight' = [inflight EXCEPT ![k] = 0] /\ calls[i].st = "stored"
          /\ inflight[k] = i
      BY <2>4 DEF Unlink, SingleFlight
    <3>2. TypeOK'
      BY <1>1, <1>2, <1>3, <2>1, <3>1 DEF TypeOK, sessionVars
    <3>3. InflightOK'
      <4>1. ASSUME NEW m \in Keys, inflight'[m] # 0
            PROVE  /\ inflight'[m] \in DOMAIN calls' /\ calls'[inflight'[m]].key = m
                   /\ calls'[inflight'[m]].st \in {"running", "stored"}
        <5>1. m # k /\ inflight'[m] = inflight[m]
          BY <1>1, <3>1, <4>1 DEF TypeOK
        <5>2. inflight[m] # i /\ inflight[m] \in DOMAIN calls
          BY <4>1, <5>1 DEF InflightOK
        <5> QED
          BY <1>3, <4>1, <5>1, <5>2 DEF InflightOK
      <4>2. ASSUME NEW j \in DOMAIN calls, inflight'[calls[j].key] # 0
            PROVE  j <= inflight'[calls[j].key]
        BY <1>1, <3>1, <4>2, CallsType DEF InflightOK, TypeOK
      <4> QED
        BY <1>3, <4>1, <4>2 DEF InflightOK
    <3>4. SingleFlight'
      <4> SUFFICES ASSUME NEW j \in DOMAIN calls, calls'[j].st \in {"running", "stored"}
                   PROVE  inflight'[calls[j].key] = j
        BY <1>3 DEF SingleFlight
      <4>1. j # i /\ calls'[j] = calls[j]
        BY <1>3, <2>1
      <4>2. inflight[calls[j].key] = j
        BY <4>1 DEF SingleFlight
      <4>3. calls[j].key # k
        BY <3>1, <4>1, <4>2
      <4> QED
        BY <1>1, <3>1, <4>2, <4>3, CallsType DEF TypeOK
    <3> QED
      BY <1>5, <1>6, <1>7, <2>3, <3>2, <3>3, <3>4
  <2>5. CASE CloseDone(i)
    <3>1. inflight' = inflight /\ calls[i].st = "unlinked"
      BY <2>5 DEF CloseDone
    <3>2. TypeOK'
      BY <1>2, <1>3, <2>1, <3>1 DEF TypeOK, sessionVars
    <3>3. InflightOK' /\ SingleFlight'
      BY <1>3, <2>1, <3>1 DEF InflightOK, SingleFlight
    <3> QED
      BY <1>5, <1>6, <1>7, <2>3, <3>2, <3>3
  <2> QED
    BY <1>9, <2>4, <2>5
<1> QED
  BY <1>8, <1>9 DEF FetchNext

-----------------------------------------------------------------------------
(* IInv is inductive. *)
LEMMA NextIInv == IInv /\ [Next]_vars => IInv'
<1> SUFFICES ASSUME IInv, [Next]_vars PROVE IInv'
  OBVIOUS
<1>1. CASE SetActive(TRUE) \/ SetActive(FALSE)
  BY <1>1, SetActiveStep
<1>2. ASSUME NEW g \in Getters, GetNext(g) PROVE IInv'
  BY <1>2, GetStep, GetFetchStep DEF GetNext
<1>3. CASE (\E k \in Keys : Expire(k)) \/ UNCHANGED vars
  <2>1. /\ UNCHANGED <<entries, inflight, active, gen, stop, closed, calls, loop, req, served>>
        /\ fresh' \in SUBSET fresh
    BY <1>3 DEF Expire, vars, cacheVars, sessionVars
  <2> USE <2>1 DEF IInv
  <2>2. TypeOK'
    BY DEF TypeOK
  <2>3. GensOrdered' /\ ActiveOpen' /\ OneLiveLoop' /\ SingleFlight' /\ CacheOfThisSession'
    BY DEF GensOrdered, ActiveOpen, OneLiveLoop, SingleFlight, CacheOfThisSession, SessionEnded
  <2>4. InflightOK' /\ EntriesOK' /\ ServedOK' /\ ReqOK'
    BY DEF InflightOK, EntriesOK, ServedOK, ReqOK, CallerOK, Finished
  <2> QED
    BY <2>2, <2>3, <2>4
<1> QED
  BY <1>1, <1>2, <1>3, LoopStep, ClientStep, FetchStep DEF Next

(* The invariant along every behaviour of the refresher. *)
THEOREM Invariance == Spec => []IInv
<1> QED
  BY InitIInv, NextIInv, PTL DEF Spec

(* Every state of the refresher is well formed; in particular only known     *)
(* keys are ever fetched (get's 404). *)
THEOREM TypeCorrect == Spec => []TypeOK
<1>1. IInv => TypeOK
  BY DEF IInv
<1> QED
  BY <1>1, Invariance, PTL

(* One fetch per endpoint at a time, across sessions (get). *)
THEOREM FetchesAreShared == Spec => []SingleFlight
<1>1. IInv => SingleFlight
  BY DEF IInv
<1> QED
  BY <1>1, Invariance, PTL

(* No late store reaches the next session's cache (get, setActive). *)
THEOREM CacheIsOfThisSession == Spec => []CacheOfThisSession
<1>1. IInv => CacheOfThisSession
  BY DEF IInv
<1> QED
  BY <1>1, Invariance, PTL

(* An ended session's cache stays dropped (setActive, get). *)
THEOREM EndedCacheStaysEmpty == Spec => []EndedSessionCachesNothing
<1>1. IInv => EndedSessionCachesNothing
  <2> SUFFICES ASSUME IInv, SessionEnded, NEW k \in Keys, entries[k] # 0 PROVE FALSE
    BY DEF EndedSessionCachesNothing
  <2>1. entries[k] \in DOMAIN calls /\ calls[entries[k]].gen = gen
    BY DEF IInv, CacheOfThisSession
  <2>2. calls[entries[k]].gen < gen /\ gen \in Nat
    BY <2>1 DEF IInv, GensOrdered, TypeOK
  <2> QED
    BY <2>1, <2>2
<1> QED
  BY <1>1, Invariance, PTL

(* No client is answered with older data than was already served when it     *)
(* asked (get, wait). *)
THEOREM ReadsAreMonotonic == Spec => []MonotonicReads
<1>1. IInv => MonotonicReads
  BY DEF IInv, ReqOK, CallerOK, MonotonicReads, Getters
<1> QED
  BY <1>1, Invariance, PTL

(* Only the active session's loop may keep refreshing (setActive, loop). *)
THEOREM LoopsAreStopped == Spec => []OneLiveLoop
<1>1. IInv => OneLiveLoop
  BY DEF IInv
<1> QED
  BY <1>1, Invariance, PTL

-----------------------------------------------------------------------------
(* How many fetches there can be.  Once MaxFetch have started nothing        *)
(* expires any more, so that from then on a session fetches every endpoint   *)
(* at most once. *)

(* A late fetch of this session is running or its response is cached. *)
LateKept ==
    \A i \in DOMAIN calls : i > MaxFetch /\ calls[i].gen = gen =>
        calls[i].st = "running" \/ ~Stale(calls[i].key)

(* Two late fetches differ in the endpoint or in the session. *)
OncePerSession ==
    \A i, j \in DOMAIN calls :
        i > MaxFetch /\ i < j /\ calls[i].key = calls[j].key => calls[i].gen # calls[j].gen

CountInv == gen <= MaxGen /\ LateKept /\ OncePerSession

(* A caller's own steps, the loops' and the clock's, which start no fetch. *)
LEMMA CountQuiet ==
    ASSUME IInv, CountInv, UNCHANGED <<entries, calls, gen>>,
           \/ UNCHANGED fresh
           \/ Len(calls) < MaxFetch
    PROVE  CountInv'
<1>1. Len(calls) \in Nat /\ DOMAIN calls = 1..Len(calls) /\ MaxFetch \in Nat
  BY CallsType, BoundsAreNat DEF IInv
<1>2. OncePerSession' /\ (gen <= MaxGen)'
  BY DEF CountInv, OncePerSession
<1>3. LateKept'
  <2>1. CASE UNCHANGED fresh
    BY <2>1 DEF CountInv, LateKept, Stale
  <2>2. CASE Len(calls) < MaxFetch
    BY <1>1, <2>2 DEF LateKept
  <2> QED
    BY <2>1, <2>2
<1> QED
  BY <1>2, <1>3 DEF CountInv

(* get() starting a fetch: there was no late one of this session. *)
LEMMA CountFetch ==
    ASSUME IInv, CountInv, NEW g \in Getters, GetFetch(g)
    PROVE  CountInv'
<1> DEFINE k == req[g].key
           n == Len(calls) + 1
           new == [key |-> k, gen |-> gen, st |-> "running"]
<1>1. /\ Stale(k) /\ inflight[k] = 0 /\ k \in Keys /\ k \in Producers
      /\ calls' = Append(calls, new)
      /\ UNCHANGED <<entries, fresh, gen>>
  BY ProducersAreKeys DEF GetFetch, cacheVars, sessionVars
<1>2. Len(calls) \in Nat /\ DOMAIN calls = 1..Len(calls) /\ gen \in Nat /\ MaxFetch \in Nat
  BY CallsType, BoundsAreNat DEF IInv, TypeOK
<1>3. /\ DOMAIN calls' = DOMAIN calls \cup {n} /\ n \notin DOMAIN calls
      /\ calls'[n] = new
      /\ \A i \in DOMAIN calls : calls'[i] = calls[i] /\ i < n
  <2>1. calls \in Seq(Call) /\ new \in Call
    BY <1>1, <1>2 DEF IInv, TypeOK, Call, CallStates
  <2> QED
    BY <1>1, <1>2, <2>1
<1>4. new.key = k /\ new.gen = gen /\ new.st = "running"
  OBVIOUS
<1>5. \A i \in DOMAIN calls : i > MaxFetch /\ calls[i].key = k => calls[i].gen # gen
  <2> SUFFICES ASSUME NEW i \in DOMAIN calls, i > MaxFetch, calls[i].key = k, calls[i].gen = gen
               PROVE  FALSE
    OBVIOUS
  <2>1. calls[i].st # "running"
    BY <1>1, <1>2 DEF IInv, SingleFlight
  <2> QED
    BY <1>1, <2>1 DEF CountInv, LateKept
<1> HIDE DEF n, new
<1>6. OncePerSession'
  <2> SUFFICES ASSUME NEW i \in DOMAIN calls', NEW j \in DOMAIN calls', i > MaxFetch, i < j,
                      calls'[i].key = calls'[j].key
               PROVE  calls'[i].gen # calls'[j].gen
    BY DEF OncePerSession
  <2>1. i # n
    BY <1>2, <1>3 DEF n
  <2>2. i \in DOMAIN calls /\ calls'[i] = calls[i]
    BY <1>3, <2>1
  <2>3. CASE j = n
    BY <1>3, <1>4, <1>5, <2>2, <2>3
  <2>4. CASE j # n
    BY <1>3, <2>2, <2>4 DEF CountInv, OncePerSession
  <2> QED
    BY <2>3, <2>4
<1>7. LateKept'
  BY <1>1, <1>3, <1>4 DEF CountInv, LateKept, Stale
<1> QED
  BY <1>1, <1>6, <1>7 DEF CountInv

(* A fetch goroutine's step: a late response is cached and stays. *)
LEMMA CountStore ==
    ASSUME IInv, CountInv, NEW i \in DOMAIN calls, FetchNext(i)
    PROVE  CountInv'
<1>1. calls \in Seq(Call) /\ gen \in Nat /\ gen' = gen /\ calls[i].key \in Keys /\ i # 0
  BY CallsType DEF IInv, TypeOK, FetchNext, Store, Unlink, CloseDone, sessionVars
<1>2. PICK st \in {"stored", "unlinked", "closed"} : calls' = [calls EXCEPT ![i].st = st]
  BY DEF FetchNext, Store, Unlink, CloseDone
<1>3. /\ DOMAIN calls' = DOMAIN calls
      /\ \A j \in DOMAIN calls : j # i => calls'[j] = calls[j]
      /\ \A j \in DOMAIN calls : calls'[j].key = calls[j].key /\ calls'[j].gen = calls[j].gen
  BY <1>1, <1>2, CallUpdate DEF CallStates
<1>4. OncePerSession'
  BY <1>3 DEF CountInv, OncePerSession
<1>5. \A k \in Keys : ~Stale(k) => ~Stale(k)'
  BY <1>1 DEF FetchNext, Store, Unlink, CloseDone, cacheVars, Stale, IInv, TypeOK
<1>6. \A k \in Keys : k = calls[i].key /\ calls[i].gen = gen /\ calls[i].st = "running" => ~Stale(k)'
  BY <1>1 DEF FetchNext, Store, Unlink, CloseDone, Stale, IInv, TypeOK
<1>7. LateKept'
  <2> SUFFICES ASSUME NEW j \in DOMAIN calls, NEW k \in Keys, k = calls[j].key,
                      j > MaxFetch, calls[j].gen = gen, calls'[j].st # "running"
               PROVE  ~Stale(k)'
    <3>1. \A j \in DOMAIN calls : calls[j].key \in Keys
      BY CallsType DEF IInv
    <3> QED
      BY <1>1, <1>3, <3>1 DEF LateKept, Stale
  <2>2. CASE j # i
    BY <1>3, <1>5, <2>2 DEF CountInv, LateKept
  <2>3. CASE j = i /\ calls[i].st # "running"
    BY <1>5, <2>3 DEF CountInv, LateKept
  <2>4. CASE j = i /\ calls[i].st = "running"
    BY <1>6, <2>4
  <2> QED
    BY <2>2, <2>3, <2>4
<1> QED
  BY <1>1, <1>4, <1>7 DEF CountInv

(* The end of a session: no fetch is of the next one yet. *)
LEMMA CountEnd ==
    ASSUME IInv, CountInv, gen < MaxGen, SetActive(FALSE)
    PROVE  CountInv'
<1>1. gen' = gen + 1 /\ calls' = calls /\ gen \in Nat /\ MaxGen \in Nat
  BY BoundsAreNat DEF SetActive, EndSession, IInv, TypeOK
<1>2. \A i \in DOMAIN calls : calls[i].gen # gen'
  BY <1>1, CallsType DEF IInv, GensOrdered
<1> QED
  BY <1>1, <1>2 DEF CountInv, LateKept, OncePerSession

(* CountInv along every behaviour. *)
LEMMA CountHolds == Spec => []CountInv
<1>1. Init => CountInv
  BY BoundsAreNat DEF Init, CountInv, LateKept, OncePerSession
<1>2. IInv /\ CountInv /\ [Next]_vars => CountInv'
  <2> SUFFICES ASSUME IInv, CountInv, [Next]_vars PROVE CountInv'
    OBVIOUS
  <2>1. CASE SetActive(TRUE)
    BY <2>1, CountQuiet DEF SetActive, StartSession, cacheVars, sessionVars
  <2>2. CASE gen < MaxGen /\ SetActive(FALSE)
    BY <2>2, CountEnd
  <2>3. ASSUME NEW l \in Loops, LoopNext(l) PROVE CountInv'
    BY <2>3, CountQuiet DEF LoopNext, RefreshAll, Join, Tick, LoopStop, cacheVars, sessionVars
  <2>4. ASSUME NEW h \in Handlers, ClientNext(h) PROVE CountInv'
    BY <2>4, CountQuiet DEF ClientNext, BadMethod, Receive, WaitCancelled, Return, cacheVars, sessionVars
  <2>5. ASSUME NEW g \in Getters, GetFresh(g) \/ GetJoin(g) \/ GetRefused(g) \/ WaitDone(g)
        PROVE  CountInv'
    BY <2>5, CountQuiet DEF GetFresh, GetJoin, GetRefused, WaitDone, cacheVars, sessionVars
  <2>6. CASE (\E k \in Keys : Expire(k)) \/ UNCHANGED vars
    BY <2>6, CountQuiet DEF Expire, vars, cacheVars, sessionVars
  <2> QED
    BY <2>1, <2>2, <2>3, <2>4, <2>5, <2>6, CountFetch, CountStore DEF Next, GetNext
<1> QED
  BY <1>1, <1>2, Invariance, PTL DEF Spec

(* The bound itself: the late fetches inject into endpoints and sessions. *)
LEMMA FetchesCounted ==
    ASSUME IsFiniteSet(Producers), IInv, CountInv
    PROVE  DOMAIN calls \subseteq FetchIds
<1> DEFINE n == Len(calls)
           late == (MaxFetch + 1)..n
           slots == Producers \X (0..MaxGen)
           f == [i \in late |-> <<calls[i].key, calls[i].gen>>]
<1>1. n \in Nat /\ DOMAIN calls = 1..n /\ MaxFetch \in Nat /\ MaxGen \in Nat
  BY CallsType, BoundsAreNat DEF IInv
<1>2. IsFiniteSet(slots) /\ Cardinality(slots) = Cardinality(Producers) * (MaxGen + 1)
      /\ Cardinality(Producers) \in Nat
  <2>1. IsFiniteSet(0..MaxGen) /\ Cardinality(0..MaxGen) = MaxGen + 1
    BY <1>1, FS_Interval
  <2> QED
    BY <2>1, FS_Product, FS_CardinalityType
<1>3. ASSUME NEW i \in late
      PROVE  /\ i \in DOMAIN calls /\ i > MaxFetch
             /\ calls[i].key \in Producers /\ calls[i].gen \in 0..MaxGen
  <2>1. i \in DOMAIN calls /\ i > MaxFetch
    BY <1>1
  <2>2. calls[i].key \in Producers /\ calls[i].gen \in Nat /\ calls[i].gen <= gen /\ gen <= MaxGen /\ gen \in Nat
    BY <2>1, CallsType DEF IInv, GensOrdered, CountInv, Call, TypeOK
  <2> QED
    BY <1>1, <2>1, <2>2
<1>4. f \in Injection(late, slots)
  <2>1. f \in [late -> slots]
    BY <1>3
  <2>2. ASSUME NEW i \in late, NEW j \in late, f[i] = f[j] PROVE i = j
    <3>1. calls[i].key = calls[j].key /\ calls[i].gen = calls[j].gen
      BY <2>2
    <3>2. ~(i < j) /\ ~(j < i)
      BY <1>3, <3>1 DEF CountInv, OncePerSession
    <3> QED
      BY <1>1, <3>2
  <2> HIDE DEF f, late, slots
  <2> QED
    BY <2>1, <2>2 DEF Injection, IsInjective
<1>5. Cardinality(late) <= Cardinality(slots)
  <2> HIDE DEF f, late, slots
  <2> QED
    BY <1>2, <1>4, FS_Injection
<1>6. Cardinality(late) = IF MaxFetch + 1 > n THEN 0 ELSE n - (MaxFetch + 1) + 1
  <2>1. MaxFetch + 1 \in Int /\ n \in Int
    BY <1>1
  <2> HIDE DEF n
  <2> QED
    BY <2>1, FS_Interval
<1> DEFINE m == Cardinality(Producers) * (MaxGen + 1)
<1>7. m \in Nat /\ Cardinality(late) <= m
  BY <1>1, <1>2, <1>5
<1> HIDE DEF m, late
<1>8. n <= MaxFetch + m
  BY <1>1, <1>6, <1>7
<1>9. DOMAIN calls \subseteq 1..(MaxFetch + m)
  BY <1>1, <1>7, <1>8
<1> QED
  BY <1>9 DEF FetchIds, m

(* No behaviour starts more fetches than Fairness names, so that every fetch *)
(* goroutine is one of those that keep running (get). *)
THEOREM FetchesBounded ==
    ASSUME IsFiniteSet(Producers)
    PROVE  Spec => [](DOMAIN calls \subseteq FetchIds)
<1>1. IInv /\ CountInv => DOMAIN calls \subseteq FetchIds
  BY FetchesCounted
<1> QED
  BY <1>1, Invariance, CountHolds, PTL

-----------------------------------------------------------------------------
(* Liveness, up to ENABLED, which the prover leaves uninterpreted: whenever  *)
(* the guard of the fetch goroutine, of get, of a wait whose call is closed  *)
(* or of a loop is true, the step is possible.  All these steps assign every *)
(* variable. *)
CanFetch(i) == ENABLED <<i \in DOMAIN calls /\ FetchNext(i)>>_vars
CanGet(g) == ENABLED <<GetNext(g)>>_vars
CanLoop(l) == ENABLED <<LoopNext(l)>>_vars

RefresherEnabled ==
    /\ \A i \in FetchIds : i \in DOMAIN calls /\ calls[i].st # "closed" => CanFetch(i)
    /\ \A g \in Getters :
          \/ req[g].pc = "get"
          \/ req[g].pc = "wait" /\ calls[req[g].call].st = "closed"
          => CanGet(g)
    /\ \A l \in Loops :
          \/ loop[l] \in {"refresh", "select"}
          \/ loop[l] = "join" /\ \A k \in Producers : req[<<l, k>>].pc = "idle"
          => CanLoop(l)

(* Caller g waits for fetch i, which has come as far as st. *)
AwaitsAt(g, i, st) ==
    /\ req[g].pc = "wait" /\ req[g].call = i
    /\ i \in DOMAIN calls /\ calls[i].st = st

Released(g) == req[g].pc # "wait"

(* A fetch passes through its states one by one, a closed one for good, and  *)
(* whoever waits for it waits on or leaves. *)
LEMMA WaiterStep ==
    ASSUME IInv, [Next]_vars, NEW g \in Getters, NEW i, NEW st, AwaitsAt(g, i, st)
    PROVE  \/ Released(g)'
           \/ AwaitsAt(g, i, st)'
           \/ st = "running" /\ AwaitsAt(g, i, "stored")'
           \/ st = "stored" /\ AwaitsAt(g, i, "unlinked")'
           \/ st = "unlinked" /\ AwaitsAt(g, i, "closed")'
<1>0. req \in [Getters -> Request] /\ calls \in Seq(Call)
  BY DEF IInv, TypeOK
<1>1. CASE UNCHANGED <<req, calls>>
  BY <1>1 DEF AwaitsAt
<1>3. ASSUME NEW h \in Getters, GetFetch(h) PROVE AwaitsAt(g, i, st)'
  <2>1. h # g /\ req'[g] = req[g]
    BY <1>0, <1>3 DEF GetFetch, AwaitsAt
  <2>2. Len(calls) \in Nat /\ DOMAIN calls = 1..Len(calls)
    BY <1>0
  <2>3. i \in DOMAIN calls' /\ calls'[i] = calls[i]
    BY <1>0, <1>3, <2>2 DEF GetFetch, AwaitsAt
  <2> QED
    BY <2>1, <2>3 DEF AwaitsAt
<1>4. ASSUME NEW j \in DOMAIN calls, FetchNext(j)
      PROVE  \/ AwaitsAt(g, i, st)'
             \/ st = "running" /\ AwaitsAt(g, i, "stored")'
             \/ st = "stored" /\ AwaitsAt(g, i, "unlinked")'
             \/ st = "unlinked" /\ AwaitsAt(g, i, "closed")'
  <2>1. req' = req
    BY <1>4 DEF FetchNext, Store, Unlink, CloseDone
  <2>2. PICK to \in CallStates :
            /\ calls' = [calls EXCEPT ![j].st = to]
            /\ \/ calls[j].st = "running" /\ to = "stored"
               \/ calls[j].st = "stored" /\ to = "unlinked"
               \/ calls[j].st = "unlinked" /\ to = "closed"
    BY <1>4 DEF FetchNext, Store, Unlink, CloseDone, CallStates
  <2>3. /\ DOMAIN calls' = DOMAIN calls
        /\ calls'[j] = [calls[j] EXCEPT !.st = to]
        /\ \A m \in DOMAIN calls : m # j => calls'[m] = calls[m]
    BY <1>0, <2>2, CallUpdate
  <2>4. calls'[j].st = to
    BY <1>0, <2>3 DEF Call
  <2> QED
    BY <2>1, <2>2, <2>3, <2>4 DEF AwaitsAt
<1>5. ASSUME NEW h \in Getters, NEW s, NEW b, Answer(h, s, b), s \in Statuses, b \in Nat, calls' = calls
      PROVE  Released(g)' \/ AwaitsAt(g, i, st)'
  <2>1. CASE h = g
    <3>1. req'[g].pc \in {"idle", "done"}
      BY <1>0, <1>5, <2>1, IdleType DEF Answer, Request
    <3> QED
      BY <3>1 DEF Released
  <2>2. CASE h # g
    BY <1>0, <1>5, <2>2 DEF Answer, AwaitsAt
  <2> QED
    BY <2>1, <2>2
<1>6. ASSUME NEW h \in Getters, GetNext(h), ~GetFetch(h)
      PROVE  Released(g)' \/ AwaitsAt(g, i, st)'
  <2>1. CASE GetJoin(h)
    <3>1. h # g /\ req'[g] = req[g] /\ calls' = calls
      BY <1>0, <2>1 DEF GetJoin, AwaitsAt
    <3> QED
      BY <3>1 DEF AwaitsAt
  <2>2. req[h] \in Request /\ req[h].key \in Keys /\ req[h].call \in Nat /\ entries[req[h].key] \in Nat
    BY <1>0 DEF Request, IInv, TypeOK
  <2>3. CASE GetFresh(h) \/ WaitDone(h)
    BY <1>5, <2>2, <2>3 DEF GetFresh, WaitDone, Statuses
  <2>4. CASE GetRefused(h)
    BY <1>5, <2>4 DEF GetRefused, Statuses
  <2> QED
    BY <1>6, <2>1, <2>3, <2>4 DEF GetNext
<1>7. ASSUME NEW h \in Handlers, ClientNext(h)
      PROVE  Released(g)' \/ AwaitsAt(g, i, st)'
  <2>0. h \in Getters /\ req[h] \in Request /\ req[h].key \in Keys /\ entries[req[h].key] \in Nat
    BY <1>0 DEF Getters, Request, IInv, TypeOK
  <2>1. CASE WaitCancelled(h)
    BY <1>5, <2>0, <2>1 DEF WaitCancelled, Statuses
  <2>2. CASE ~WaitCancelled(h)
    <3>1. h # g /\ calls' = calls /\ req[h].pc \in {"idle", "done"}
      BY <1>7, <2>2 DEF ClientNext, BadMethod, Receive, Return, AwaitsAt
    <3>2. req'[g] = req[g]
      BY <1>0, <1>7, <2>2, <3>1 DEF ClientNext, BadMethod, Receive, Return
    <3> QED
      BY <3>1, <3>2 DEF AwaitsAt
  <2> QED
    BY <2>1, <2>2
<1>8. ASSUME NEW l \in Loops, LoopNext(l)
      PROVE  Released(g)' \/ AwaitsAt(g, i, st)'
  <2>1. CASE RefreshAll(l)
    <3>1. calls' = calls
      BY <2>1 DEF RefreshAll
    <3>2. req'[g] = req[g] \/ \E k \in Producers : req'[g] = Asking(k, 0)
      BY <2>1 DEF RefreshAll, Workers
    <3>3. \A k \in Producers : Asking(k, 0).pc = "get"
      BY AskingType, ProducersAreKeys
    <3> QED
      BY <3>1, <3>2, <3>3 DEF Released, AwaitsAt
  <2> QED
    BY <1>1, <1>8, <2>1 DEF LoopNext, Join, Tick, LoopStop, AwaitsAt
<1>9. CASE SetActive(TRUE) \/ SetActive(FALSE) \/ (\E k \in Keys : Expire(k)) \/ UNCHANGED vars
  BY <1>1, <1>9 DEF SetActive, Expire, vars
<1> QED
  BY <1>3, <1>4, <1>6, <1>7, <1>8, <1>9 DEF Next

(* The waiters of one fetch are released: its goroutine stores, unlinks and  *)
(* closes, and each of those steps leaves them waiting for the next. *)
LEMMA FetchReleases ==
    ASSUME NEW g \in Getters, NEW i \in FetchIds
    PROVE  FairSpec /\ []RefresherEnabled =>
               ((req[g].pc = "wait" /\ req[g].call = i /\ i \in DOMAIN calls) ~> Released(g))
<1> DEFINE A == i \in DOMAIN calls /\ FetchNext(i)
           R == AwaitsAt(g, i, "running")
           S == AwaitsAt(g, i, "stored")
           U == AwaitsAt(g, i, "unlinked")
           C == AwaitsAt(g, i, "closed")
           Q == Released(g)
           P == req[g].pc = "wait" /\ req[g].call = i /\ i \in DOMAIN calls
<1>1. FairSpec => FetchFairness(i) /\ GetFairness(g)
  BY DEF FairSpec, Fairness
<1>2. FetchFairness(i) => WF_vars(A)
  BY PTL DEF FetchFairness
<1>3. IInv /\ [Next]_vars => /\ R => R' \/ S' \/ Q'
                             /\ S => S' \/ U' \/ Q'
                             /\ U => U' \/ C' \/ Q'
                             /\ C => C' \/ Q'
  BY WaiterStep
<1>4. IInv /\ <<A>>_vars => /\ R => S'
                            /\ S => U'
                            /\ U => C'
  <2> SUFFICES ASSUME IInv, A, R \/ S \/ U
               PROVE  (R => S') /\ (S => U') /\ (U => C')
    OBVIOUS
  <2>1. calls \in Seq(Call) /\ i \in DOMAIN calls /\ req' = req
    BY DEF IInv, TypeOK, FetchNext, Store, Unlink, CloseDone
  <2>2. PICK to \in CallStates :
            /\ calls' = [calls EXCEPT ![i].st = to]
            /\ \/ calls[i].st = "running" /\ to = "stored"
               \/ calls[i].st = "stored" /\ to = "unlinked"
               \/ calls[i].st = "unlinked" /\ to = "closed"
    BY DEF FetchNext, Store, Unlink, CloseDone, CallStates
  <2>3. DOMAIN calls' = DOMAIN calls /\ calls'[i] = [calls[i] EXCEPT !.st = to]
    BY <2>1, <2>2, CallUpdate
  <2>4. calls'[i].st = to
    BY <2>1, <2>3 DEF Call
  <2> QED
    BY <2>1, <2>2, <2>3, <2>4 DEF AwaitsAt
<1>5. IInv /\ <<GetNext(g)>>_vars => (C => Q')
  <2> SUFFICES ASSUME IInv, GetNext(g), C PROVE Q'
    OBVIOUS
  <2>1. WaitDone(g)
    BY DEF GetNext, GetFresh, GetJoin, GetRefused, GetFetch, AwaitsAt
  <2>2. req \in [Getters -> Request]
    BY DEF IInv, TypeOK
  <2>3. req'[g].pc \in {"idle", "done"}
    BY <2>1, <2>2, IdleType DEF WaitDone, Answer, Request
  <2> QED
    BY <2>3 DEF Released
<1>6. RefresherEnabled => /\ R \/ S \/ U => ENABLED <<A>>_vars
                          /\ C => ENABLED <<GetNext(g)>>_vars
  <2>1. RefresherEnabled => (R \/ S \/ U => CanFetch(i)) /\ (C => CanGet(g))
    BY DEF RefresherEnabled, AwaitsAt
  <2> QED
    BY <2>1 DEF CanFetch, CanGet
<1>7. IInv /\ P => R \/ S \/ U \/ C
  BY CallsType DEF IInv, Call, CallStates, AwaitsAt
<1> HIDE DEF A, R, S, U, C, Q, P
<1>8. FairSpec /\ []RefresherEnabled => (C ~> Q)
  BY <1>1, <1>3, <1>5, <1>6, Invariance, PTL DEF FairSpec, Spec, GetFairness
<1>9. FairSpec /\ []RefresherEnabled => (U ~> C \/ Q)
  BY <1>1, <1>2, <1>3, <1>4, <1>6, Invariance, PTL DEF FairSpec, Spec
<1>10. FairSpec /\ []RefresherEnabled => (S ~> U \/ Q)
  BY <1>1, <1>2, <1>3, <1>4, <1>6, Invariance, PTL DEF FairSpec, Spec
<1>11. FairSpec /\ []RefresherEnabled => (R ~> S \/ Q)
  BY <1>1, <1>2, <1>3, <1>4, <1>6, Invariance, PTL DEF FairSpec, Spec
<1>12. FairSpec /\ []RefresherEnabled => (P ~> Q)
  BY <1>7, <1>8, <1>9, <1>10, <1>11, Invariance, PTL DEF FairSpec
<1> QED
  BY <1>12 DEF P, Q

(* One caller of get() that waits is released. *)
IsReleased(g) == (req[g].pc = "wait") ~> (req[g].pc # "wait")

(* Whichever fetch it waits for, of the finitely many there can be. *)
LEMMA WaiterReleased ==
    ASSUME IsFiniteSet(Producers), NEW g \in Getters
    PROVE  FairSpec /\ []RefresherEnabled => IsReleased(g)
<1> DEFINE F == FairSpec /\ []RefresherEnabled
           P(i) == req[g].pc = "wait" /\ req[g].call = i /\ i \in DOMAIN calls
           Q == Released(g)
           Some == \E i \in FetchIds : P(i)
           Waits == req[g].pc = "wait"
           W == \A i \in FetchIds : (P(i) => <>Q)
<1>1. ASSUME NEW i \in FetchIds PROVE F => [](P(i) => <>Q)
  BY FetchReleases, PTL
<1>2. IInv /\ DOMAIN calls \subseteq FetchIds /\ Waits => Some
  BY DEF IInv, ReqOK, CallerOK
<1>3. Q <=> req[g].pc # "wait"
  BY DEF Released
<1> HIDE DEF F, P, Q
<1>4. F => \A i \in FetchIds : [](P(i) => <>Q)
  BY <1>1
<1>5. (\A i \in FetchIds : [](P(i) => <>Q)) => [](\A i \in FetchIds : (P(i) => <>Q))
  OBVIOUS
<1>6. F => []W
  BY <1>4, <1>5
<1>7. W => (Some => <>Q)
  OBVIOUS
<1> HIDE DEF W, Some, Waits
<1>8. F => (Waits ~> Q)
  BY <1>2, <1>6, <1>7, Invariance, FetchesBounded, PTL DEF F, FairSpec
<1>9. F => ((req[g].pc = "wait") ~> (req[g].pc # "wait"))
  BY <1>3, <1>8, PTL DEF Waits
<1> QED
  BY <1>9 DEF F, IsReleased

(* Every caller of get() that waits is released, by its fetch or before, in  *)
(* whichever session the fetch ends (get's deferred close, wait). *)
THEOREM EveryWaiterReleased ==
    ASSUME IsFiniteSet(Producers)
    PROVE  FairSpec /\ []RefresherEnabled => WaitersReleased
<1> DEFINE F == FairSpec /\ []RefresherEnabled
<1>1. ASSUME NEW g \in Getters PROVE F => ((req[g].pc = "wait") ~> (req[g].pc # "wait"))
  BY WaiterReleased DEF IsReleased
<1> HIDE DEF F
<1>2. F => \A g \in Getters : ((req[g].pc = "wait") ~> (req[g].pc # "wait"))
  BY <1>1
<1> QED
  BY <1>2 DEF F, WaitersReleased

-----------------------------------------------------------------------------
(* A loop's workers run only while it waits for them, each for its own key. *)
WorkersOK ==
    \A l \in Loops, k \in Producers :
        /\ req[<<l, k>>].pc # "done"
        /\ req[<<l, k>>].pc # "idle" => loop[l] = "join" /\ req[<<l, k>>].key = k

(* A fetch of this session that has ended has left its response. *)
StoredKept ==
    \A i \in DOMAIN calls :
        calls[i].gen = gen /\ calls[i].st # "running" => entries[calls[i].key] # 0

(* The active session's loop runs. *)
LoopAlive == active => loop[stop] # "off"

LoopInv == WorkersOK /\ StoredKept /\ LoopAlive

(* A step of get by anybody keeps the workers so. *)
LEMMA WorkersGet ==
    ASSUME IInv, WorkersOK, NEW g \in Getters, GetNext(g)
    PROVE  WorkersOK'
<1>0. req \in [Getters -> Request] /\ loop' = loop
  BY DEF IInv, TypeOK, GetNext, GetFresh, GetJoin, GetRefused, GetFetch, WaitDone
<1> SUFFICES ASSUME NEW l \in Loops, NEW k \in Producers
             PROVE  /\ req'[<<l, k>>].pc # "done"
                    /\ req'[<<l, k>>].pc # "idle" => loop[l] = "join" /\ req'[<<l, k>>].key = k
  BY <1>0 DEF WorkersOK
<1> DEFINE w == <<l, k>>
<1>1. w \in Workers /\ w \in Getters /\ req[w] \in Request
  BY <1>0 DEF Workers, Getters
<1>2. CASE g # w
  <2>1. req'[w] = req[w]
    BY <1>0, <1>1, <1>2 DEF GetNext, GetFresh, GetJoin, GetRefused, GetFetch, WaitDone, Answer
  <2> QED
    BY <2>1 DEF WorkersOK
<1>3. CASE g = w
  <2>1. loop[l] = "join" /\ req[w].key = k
    BY <1>3 DEF WorkersOK, GetNext, GetFresh, GetJoin, GetRefused, GetFetch, WaitDone
  <2>2. CASE GetFresh(g) \/ GetRefused(g) \/ WaitDone(g)
    <3>1. req'[w] = Idle
      BY <1>0, <1>1, <1>3, <2>2 DEF GetFresh, GetRefused, WaitDone, Answer
    <3> QED
      BY <3>1, IdleType
  <2>3. CASE GetJoin(g) \/ GetFetch(g)
    <3>1. PICK i : req' = [req EXCEPT ![g].pc = "wait", ![g].call = i]
      BY <2>3 DEF GetJoin, GetFetch
    <3>2. req'[w] = [req[w] EXCEPT !.pc = "wait", !.call = i]
      BY <1>0, <1>1, <1>3, <3>1
    <3>3. req'[w].pc = "wait" /\ req'[w].key = k
      BY <1>1, <2>1, <3>2 DEF Request
    <3> QED
      BY <2>1, <3>3
  <2> QED
    BY <1>3, <2>2, <2>3 DEF GetNext
<1> QED
  BY <1>2, <1>3

(* So does a step of a loop. *)
LEMMA WorkersLoop ==
    ASSUME IInv, WorkersOK, NEW m \in Loops, LoopNext(m)
    PROVE  WorkersOK'
<1>0. req \in [Getters -> Request] /\ loop \in [Loops -> {"off", "refresh", "join", "select"}]
  BY DEF IInv, TypeOK
<1>1. CASE RefreshAll(m)
  <2> SUFFICES ASSUME NEW l \in Loops, NEW k \in Producers
               PROVE  /\ req'[<<l, k>>].pc # "done"
                      /\ req'[<<l, k>>].pc # "idle" => loop'[l] = "join" /\ req'[<<l, k>>].key = k
    BY DEF WorkersOK
  <2>1. <<l, k>> \in Workers /\ <<l, k>> \in Getters
    BY DEF Workers, Getters
  <2>2. \/ req'[<<l, k>>] = req[<<l, k>>]
        \/ l = m /\ req'[<<l, k>>] = Asking(k, 0)
    BY <1>1, <2>1 DEF RefreshAll
  <2>3. loop'[m] = "join" /\ \A n \in Loops : n # m => loop'[n] = loop[n]
    BY <1>0, <1>1 DEF RefreshAll
  <2>4. Asking(k, 0).pc = "get" /\ Asking(k, 0).key = k
    BY AskingType, ProducersAreKeys
  <2> QED
    BY <2>2, <2>3, <2>4 DEF WorkersOK
<1>2. CASE Join(m) \/ Tick(m) \/ LoopStop(m)
  <2>1. req' = req /\ \A n \in Loops : n # m => loop'[n] = loop[n]
    BY <1>0, <1>2 DEF Join, Tick, LoopStop
  <2>2. \A k \in Producers : req[<<m, k>>].pc = "idle"
    BY <1>2 DEF Join, Tick, LoopStop, WorkersOK
  <2> QED
    BY <2>1, <2>2 DEF WorkersOK
<1> QED
  BY <1>1, <1>2 DEF LoopNext

(* The end of a session and the start of one. *)
LEMMA LoopInvSession ==
    ASSUME IInv, LoopInv, NEW b \in BOOLEAN, SetActive(b)
    PROVE  LoopInv'
<1>0. loop \in [Loops -> {"off", "refresh", "join", "select"}] /\ gen \in Nat
  BY DEF IInv, TypeOK
<1>1. CASE b = FALSE
  <2>1. gen' = gen + 1 /\ ~active' /\ UNCHANGED <<req, loop, calls>>
    BY <1>1 DEF SetActive, EndSession
  <2>2. \A i \in DOMAIN calls : calls[i].gen # gen'
    BY <1>0, <2>1, CallsType DEF IInv, GensOrdered
  <2> QED
    BY <2>1, <2>2 DEF LoopInv, WorkersOK, StoredKept, LoopAlive
<1>2. CASE b = TRUE /\ active
  BY <1>2 DEF SetActive, StartSession, sessionVars, cacheVars, LoopInv, WorkersOK, StoredKept, LoopAlive
<1>3. CASE b = TRUE /\ ~active
  <2>1. PICK l \in Loops : loop[l] = "off" /\ stop' = l /\ loop' = [loop EXCEPT ![l] = "refresh"]
    BY <1>3 DEF SetActive, StartSession
  <2>2. UNCHANGED <<req, calls, gen, entries>>
    BY <1>3 DEF SetActive, StartSession, cacheVars
  <2>3. LoopAlive'
    BY <1>0, <2>1 DEF LoopAlive
  <2>4. WorkersOK'
    BY <1>0, <2>1, <2>2 DEF LoopInv, WorkersOK
  <2> QED
    BY <2>2, <2>3, <2>4 DEF LoopInv, StoredKept
<1> QED
  BY <1>1, <1>2, <1>3

(* The other steps of a session leave its responses and its loop. *)
LEMMA LoopInvKept ==
    ASSUME IInv, LoopInv, WorkersOK',
           UNCHANGED <<entries, calls, gen, active, stop>>,
           active => loop'[stop] # "off"
    PROVE  LoopInv'
  BY DEF LoopInv, StoredKept, LoopAlive

(* LoopInv along every behaviour. *)
LEMMA LoopInvHolds == Spec => []LoopInv
<1>1. Init => LoopInv
  BY IdleType DEF Init, LoopInv, WorkersOK, StoredKept, LoopAlive, Getters, Workers
<1>2. IInv /\ LoopInv /\ [Next]_vars => LoopInv'
  <2> SUFFICES ASSUME IInv, LoopInv, [Next]_vars PROVE LoopInv'
    OBVIOUS
  <2>0. /\ req \in [Getters -> Request] /\ loop \in [Loops -> {"off", "refresh", "join", "select"}]
        /\ WorkersOK
    BY DEF IInv, TypeOK, LoopInv
  <2>1. CASE SetActive(TRUE) \/ SetActive(FALSE)
    BY <2>1, LoopInvSession
  <2>2. ASSUME NEW l \in Loops, LoopNext(l) PROVE LoopInv'
    <3>1. UNCHANGED <<entries, calls, gen, active, stop>>
      BY <2>2 DEF LoopNext, RefreshAll, Join, Tick, LoopStop, cacheVars, sessionVars
    <3>2. active => loop'[stop] # "off"
      <4> SUFFICES ASSUME active PROVE loop'[stop] # "off"
        OBVIOUS
      <4>1. stop \in Loops /\ stop \notin closed /\ loop[stop] # "off"
        BY DEF IInv, TypeOK, ActiveOpen, LoopInv, LoopAlive
      <4>2. PICK v : loop' = [loop EXCEPT ![l] = v] /\ (v = "off" => l \in closed)
        BY <2>2 DEF LoopNext, RefreshAll, Join, Tick, LoopStop
      <4> QED
        BY <2>0, <4>1, <4>2
    <3> QED
      BY <2>0, <2>2, <3>1, <3>2, WorkersLoop, LoopInvKept
  <2>3. ASSUME NEW h \in Handlers, ClientNext(h) PROVE LoopInv'
    <3>1. UNCHANGED <<entries, calls, gen, active, stop, loop>>
      BY <2>3 DEF ClientNext, BadMethod, Receive, WaitCancelled, Return, cacheVars, sessionVars
    <3>2. \A w \in Workers : req'[w] = req[w]
      BY <2>0, <2>3, HandlersAreNoWorkers
      DEF ClientNext, BadMethod, Receive, WaitCancelled, Return, Answer, Workers, Getters
    <3>3. WorkersOK'
      <4>1. \A l \in Loops, k \in Producers : req'[<<l, k>>] = req[<<l, k>>]
        BY <3>2 DEF Workers
      <4> QED
        <5> SUFFICES ASSUME NEW l \in Loops, NEW k \in Producers
                     PROVE  /\ req'[<<l, k>>].pc # "done"
                            /\ req'[<<l, k>>].pc # "idle" => loop'[l] = "join" /\ req'[<<l, k>>].key = k
          BY DEF WorkersOK
        <5>1. req'[<<l, k>>] = req[<<l, k>>] /\ loop'[l] = loop[l]
          BY <3>1, <4>1
        <5> QED
          BY <2>0, <5>1 DEF WorkersOK
    <3> QED
      BY <3>1, <3>3, LoopInvKept DEF LoopInv, LoopAlive
  <2>4. ASSUME NEW g \in Getters, GetNext(g), ~GetFetch(g) PROVE LoopInv'
    <3>1. UNCHANGED <<entries, calls, gen, active, stop, loop>>
      BY <2>4 DEF GetNext, GetFresh, GetJoin, GetRefused, WaitDone, cacheVars, sessionVars
    <3> QED
      BY <2>0, <2>4, <3>1, WorkersGet, LoopInvKept DEF LoopInv, LoopAlive
  <2>5. ASSUME NEW g \in Getters, GetFetch(g) PROVE LoopInv'
    <3>1. /\ calls' = Append(calls, [key |-> req[g].key, gen |-> gen, st |-> "running"])
          /\ UNCHANGED <<entries, gen, active, stop, loop>>
      BY <2>5 DEF GetFetch, cacheVars, sessionVars
    <3>2. calls \in Seq(Call) /\ Len(calls) \in Nat /\ DOMAIN calls = 1..Len(calls)
      BY CallsType DEF IInv, TypeOK
    <3>3. \A i \in DOMAIN calls' : calls'[i].st = "running" \/ (i \in DOMAIN calls /\ calls'[i] = calls[i])
      BY <3>1, <3>2
    <3>4. StoredKept'
      BY <3>1, <3>3 DEF LoopInv, StoredKept
    <3>5. WorkersOK'
      BY <2>0, <2>5, WorkersGet DEF GetNext
    <3> QED
      BY <3>1, <3>4, <3>5 DEF LoopInv, LoopAlive
  <2>6. ASSUME NEW i \in DOMAIN calls, FetchNext(i) PROVE LoopInv'
    <3>0. calls \in Seq(Call) /\ entries \in [Keys -> Nat] /\ i # 0
          /\ \A j \in DOMAIN calls : calls[j].key \in Keys
      BY CallsType DEF IInv, TypeOK
    <3>1. UNCHANGED <<gen, active, stop, loop, req>>
      BY <2>6 DEF FetchNext, Store, Unlink, CloseDone, sessionVars
    <3>2. PICK st \in {"stored", "unlinked", "closed"} : calls' = [calls EXCEPT ![i].st = st]
      BY <2>6 DEF FetchNext, Store, Unlink, CloseDone
    <3>3. /\ DOMAIN calls' = DOMAIN calls
          /\ \A j \in DOMAIN calls : j # i => calls'[j] = calls[j]
          /\ \A j \in DOMAIN calls : calls'[j].key = calls[j].key /\ calls'[j].gen = calls[j].gen
      BY <3>0, <3>2, CallUpdate DEF CallStates
    <3>4. \A k \in Keys : entries[k] # 0 => entries'[k] # 0
      BY <2>6, <3>0 DEF FetchNext, Store, Unlink, CloseDone, cacheVars
    <3>5. calls[i].gen = gen => entries'[calls[i].key] # 0
      BY <2>6, <3>0 DEF FetchNext, Store, Unlink, CloseDone, cacheVars, LoopInv, StoredKept
    <3>6. StoredKept'
      BY <3>0, <3>1, <3>3, <3>4, <3>5 DEF LoopInv, StoredKept
    <3> QED
      BY <3>1, <3>6 DEF LoopInv, WorkersOK, LoopAlive
  <2>7. CASE (\E k \in Keys : Expire(k)) \/ UNCHANGED vars
    BY <2>7 DEF Expire, vars, cacheVars, sessionVars, LoopInv, WorkersOK, StoredKept, LoopAlive
  <2> QED
    BY <2>1, <2>2, <2>3, <2>4, <2>5, <2>6, <2>7 DEF Next
<1> QED
  BY <1>1, <1>2, Invariance, PTL DEF Spec

-----------------------------------------------------------------------------
(* A worker that runs is where it is until it takes a step of its own. *)
LEMMA WorkerStep ==
    ASSUME IInv, LoopInv, [Next]_vars, NEW l \in Loops, NEW k \in Producers,
           req[<<l, k>>].pc # "idle"
    PROVE  \/ req'[<<l, k>>] = req[<<l, k>>]
           \/ GetNext(<<l, k>>)
<1> DEFINE w == <<l, k>>
<1>0. /\ req \in [Getters -> Request] /\ w \in Workers /\ w \in Getters /\ w \notin Handlers
      /\ loop[l] = "join"
  BY HandlersAreNoWorkers DEF IInv, TypeOK, Workers, Getters, LoopInv, WorkersOK
<1>1. ASSUME NEW m \in Loops, RefreshAll(m) PROVE req'[w] = req[w]
  BY <1>0, <1>1 DEF RefreshAll
<1>2. ASSUME NEW g \in Getters, GetNext(g), g # w PROVE req'[w] = req[w]
  BY <1>0, <1>2 DEF GetNext, GetFresh, GetJoin, GetRefused, GetFetch, WaitDone, Answer
<1>3. ASSUME NEW h \in Handlers, ClientNext(h) PROVE req'[w] = req[w]
  BY <1>0, <1>3 DEF ClientNext, BadMethod, Receive, WaitCancelled, Return, Answer, Getters
<1>4. CASE UNCHANGED req
  BY <1>4
<1> HIDE DEF w
<1>5. req'[w] = req[w] \/ GetNext(w)
  BY <1>1, <1>2, <1>3, <1>4
  DEF Next, SetActive, LoopNext, Join, Tick, LoopStop, FetchNext, Store, Unlink, CloseDone, Expire, vars
<1> QED
  BY <1>5 DEF w

(* While its loop waits for it, a worker that has ended stays ended, and one *)
(* that runs keeps the loop waiting. *)
LEMMA JoinStep ==
    ASSUME IInv, LoopInv, [Next]_vars, NEW l \in Loops, loop[l] = "join"
    PROVE  /\ loop'[l] \in {"join", "select"}
           /\ \A k \in Producers :
                 /\ req[<<l, k>>].pc # "idle" => loop'[l] = "join"
                 /\ req[<<l, k>>].pc = "idle" => req'[<<l, k>>].pc = "idle"
           /\ LoopNext(l) => loop'[l] = "select"
<1>0. /\ req \in [Getters -> Request] /\ loop \in [Loops -> {"off", "refresh", "join", "select"}]
      /\ Workers \subseteq Getters /\ Workers \cap Handlers = {}
      /\ \A k \in Producers : <<l, k>> \in Workers
  BY HandlersAreNoWorkers DEF IInv, TypeOK, Workers, Getters
<1>1. CASE LoopNext(l)
  BY <1>0, <1>1 DEF LoopNext, RefreshAll, Join, Tick, LoopStop
<1>2. ASSUME NEW m \in Loops, LoopNext(m), m # l
      PROVE  loop'[l] = "join" /\ \A k \in Producers : req'[<<l, k>>] = req[<<l, k>>]
  <2>1. loop'[l] = "join"
    BY <1>0, <1>2 DEF LoopNext, RefreshAll, Join, Tick, LoopStop
  <2>2. ASSUME NEW k \in Producers PROVE req'[<<l, k>>] = req[<<l, k>>]
    BY <1>0, <1>2 DEF LoopNext, RefreshAll, Join, Tick, LoopStop
  <2> QED
    BY <2>1, <2>2
<1>3. ASSUME NEW g \in Getters, GetNext(g)
      PROVE  loop' = loop /\ \A k \in Producers : req[<<l, k>>].pc = "idle" => req'[<<l, k>>] = req[<<l, k>>]
  <2>1. loop' = loop /\ req[g].pc # "idle"
    BY <1>3 DEF GetNext, GetFresh, GetJoin, GetRefused, GetFetch, WaitDone
  <2>2. \A w \in Workers : w # g => req'[w] = req[w]
    BY <1>0, <1>3 DEF GetNext, GetFresh, GetJoin, GetRefused, GetFetch, WaitDone, Answer
  <2> QED
    BY <1>0, <2>1, <2>2
<1>4. ASSUME NEW h \in Handlers, ClientNext(h)
      PROVE  loop' = loop /\ \A k \in Producers : req'[<<l, k>>] = req[<<l, k>>]
  <2>1. loop' = loop
    BY <1>4 DEF ClientNext, BadMethod, Receive, WaitCancelled, Return
  <2>2. \A w \in Workers : req'[w] = req[w]
    BY <1>0, <1>4 DEF ClientNext, BadMethod, Receive, WaitCancelled, Return, Answer, Getters
  <2> QED
    BY <1>0, <2>1, <2>2
<1>5. \/ LoopNext(l)
      \/ \E m \in Loops : m # l /\ LoopNext(m)
      \/ \E g \in Getters : GetNext(g)
      \/ \E h \in Handlers : ClientNext(h)
      \/ SetActive(TRUE) \/ SetActive(FALSE)
      \/ UNCHANGED <<req, loop>>
  BY DEF Next, FetchNext, Store, Unlink, CloseDone, Expire, vars
<1>6. ASSUME ~LoopNext(l)
      PROVE  loop'[l] = "join" /\ \A k \in Producers : req[<<l, k>>].pc = "idle" => req'[<<l, k>>].pc = "idle"
  <2>1. CASE SetActive(TRUE) \/ SetActive(FALSE) \/ UNCHANGED <<req, loop>>
    BY <1>0, <2>1 DEF SetActive, StartSession
  <2> QED
    BY <1>2, <1>3, <1>4, <1>5, <1>6, <2>1
<1> QED
  BY <1>1, <1>6

(* Its steps take it from get to wait or to its end, and from wait to its    *)
(* end. *)
LEMMA WorkerGets ==
    ASSUME IInv, NEW l \in Loops, NEW k \in Producers, GetNext(<<l, k>>)
    PROVE  \/ req[<<l, k>>].pc = "get" /\ req'[<<l, k>>].pc \in {"wait", "idle"}
           \/ req[<<l, k>>].pc = "wait" /\ req'[<<l, k>>].pc = "idle"
<1> DEFINE w == <<l, k>>
<1>1. w \in Workers /\ w \in Getters /\ req \in [Getters -> Request] /\ req[w] \in Request
  BY DEF Workers, Getters, IInv, TypeOK
<1>2. CASE GetFresh(w) \/ GetRefused(w) \/ WaitDone(w)
  <2>1. req'[w] = Idle /\ req[w].pc \in {"get", "wait"}
    BY <1>1, <1>2 DEF GetFresh, GetRefused, WaitDone, Answer
  <2> QED
    BY <2>1, IdleType
<1>3. CASE GetJoin(w) \/ GetFetch(w)
  <2>1. PICK i : req' = [req EXCEPT ![w].pc = "wait", ![w].call = i]
    BY <1>3 DEF GetJoin, GetFetch
  <2>2. req'[w] = [req[w] EXCEPT !.pc = "wait", !.call = i]
    BY <1>1, <2>1
  <2>3. req'[w].pc = "wait"
    BY <1>1, <2>2 DEF Request
  <2> QED
    BY <1>3, <2>3 DEF GetJoin, GetFetch
<1> QED
  BY <1>2, <1>3 DEF GetNext

(* A worker ends, and its loop waits for it until then. *)
IsJoined(l, k) ==
    (loop[l] = "join" /\ req[<<l, k>>].pc # "idle") ~> (loop[l] = "join" /\ req[<<l, k>>].pc = "idle")

(* It asks, and if it has to wait it is released. *)
LEMMA WorkerEnds ==
    ASSUME IsFiniteSet(Producers), NEW l \in Loops, NEW k \in Producers
    PROVE  FairSpec /\ []RefresherEnabled => IsJoined(l, k)
<1>0. PICK g \in Getters : g = <<l, k>>
  BY DEF Getters, Workers
<1> DEFINE A == GetNext(g)
           G == loop[l] = "join" /\ req[g].pc = "get"
           W == loop[l] = "join" /\ req[g].pc = "wait"
           E == loop[l] = "join" /\ req[g].pc = "idle"
           P == loop[l] = "join" /\ req[g].pc # "idle"
           P0 == loop[l] = "join" /\ req[<<l, k>>].pc # "idle"
           E0 == loop[l] = "join" /\ req[<<l, k>>].pc = "idle"
           Waits == req[g].pc = "wait"
           Gone == req[g].pc # "wait"
           F == FairSpec /\ []RefresherEnabled
<1>1. FairSpec => GetFairness(g)
  BY <1>0 DEF FairSpec, Fairness
<1>2. GetFairness(g) => WF_vars(A)
  BY PTL DEF GetFairness
<1>3. IInv /\ LoopInv /\ [Next]_vars => /\ G => G' \/ W' \/ E'
                                        /\ W => W' \/ E'
  <2> SUFFICES ASSUME IInv, LoopInv, [Next]_vars, G \/ W
               PROVE  (G => G' \/ W' \/ E') /\ (W => W' \/ E')
    OBVIOUS
  <2>1. loop'[l] = "join"
    BY <1>0, JoinStep
  <2>2. CASE req'[g] = req[g]
    BY <2>1, <2>2
  <2>3. CASE GetNext(g)
    BY <1>0, <2>1, <2>3, WorkerGets
  <2> QED
    BY <1>0, <2>2, <2>3, WorkerStep
<1>4. IInv /\ LoopInv /\ [Next]_vars /\ <<A>>_vars => (G => W' \/ E')
  <2> SUFFICES ASSUME IInv, LoopInv, [Next]_vars, GetNext(g), G
               PROVE  W' \/ E'
    OBVIOUS
  <2>1. loop'[l] = "join"
    BY <1>0, JoinStep
  <2> QED
    BY <1>0, <2>1, WorkerGets
<1>5. RefresherEnabled => (G => ENABLED <<A>>_vars)
  <2>1. RefresherEnabled => (G => CanGet(g))
    BY <1>0 DEF RefresherEnabled
  <2> QED
    BY <2>1 DEF CanGet
<1>6. IInv /\ LoopInv /\ P => G \/ W
  BY <1>0 DEF IInv, TypeOK, Request, LoopInv, WorkersOK
<1>7. F => (Waits ~> Gone)
  <2>1. F => IsReleased(g)
    BY <1>0, WaiterReleased
  <2> QED
    BY <2>1 DEF IsReleased
<1>8. (W => Waits) /\ ~(Waits /\ Gone)
  OBVIOUS
<1>9. W /\ Gone => FALSE
  OBVIOUS
<1>10. (P0 <=> P) /\ (E0 <=> E)
  BY <1>0
<1> HIDE DEF A, G, W, E, P, P0, E0, Waits, Gone
<1>11. F => (G ~> W \/ E)
  BY <1>1, <1>2, <1>3, <1>4, <1>5, Invariance, LoopInvHolds, PTL DEF FairSpec, Spec
<1>12. F => (W ~> E)
  BY <1>3, <1>7, <1>8, <1>9, Invariance, LoopInvHolds, PTL DEF FairSpec, Spec
<1>13. F => (P0 ~> E0)
  BY <1>6, <1>10, <1>11, <1>12, Invariance, LoopInvHolds, PTL DEF FairSpec
<1> QED
  BY <1>13 DEF P0, E0, IsJoined

-----------------------------------------------------------------------------
(* The temporal argument goes from worker to worker of a round, which for    *)
(* any finite set of endpoints takes an induction over temporal formulas     *)
(* that the prover does not have.  refresher.go has four: the theorems below *)
(* are for any four endpoints, of any names, or fewer. *)

(* Four endpoints are finitely many. *)
LEMMA FourFinite ==
    ASSUME NEW a, NEW b, NEW c, NEW d, Producers = {a, b, c, d}
    PROVE  IsFiniteSet(Producers)
<1>1. IsFiniteSet({a})
  BY FS_Singleton
<1>2. IsFiniteSet({a} \cup {b})
  BY <1>1, FS_AddElement
<1>3. IsFiniteSet(({a} \cup {b}) \cup {c})
  BY <1>2, FS_AddElement
<1>4. IsFiniteSet((({a} \cup {b}) \cup {c}) \cup {d})
  BY <1>3, FS_AddElement
<1>5. {a, b, c, d} = (({a} \cup {b}) \cup {c}) \cup {d}
  OBVIOUS
<1> QED
  BY <1>4, <1>5

(* A round of refreshes ends: wg.Wait returns. *)
LEMMA RoundEnds ==
    ASSUME NEW a, NEW b, NEW c, NEW d, Producers = {a, b, c, d}, NEW l \in Loops
    PROVE  FairSpec /\ []RefresherEnabled => ((loop[l] = "join") ~> (loop[l] = "select"))
<1> DEFINE F == FairSpec /\ []RefresherEnabled
           J == loop[l] = "join"
           S == loop[l] = "select"
           I(k) == loop[l] = "join" /\ req[<<l, k>>].pc = "idle"
           B(k) == loop[l] = "join" /\ req[<<l, k>>].pc # "idle"
           A == LoopNext(l)
<1>0. IsFiniteSet(Producers) /\ a \in Producers /\ b \in Producers /\ c \in Producers /\ d \in Producers
  BY FourFinite
<1>1. /\ F => (B(a) ~> I(a))
      /\ F => (B(b) ~> I(b))
      /\ F => (B(c) ~> I(c))
      /\ F => (B(d) ~> I(d))
  <2>1. F => IsJoined(l, a) /\ IsJoined(l, b) /\ IsJoined(l, c) /\ IsJoined(l, d)
    BY <1>0, WorkerEnds
  <2> QED
    BY <2>1 DEF IsJoined
<1>2. /\ J <=> I(a) \/ B(a)
      /\ J <=> I(b) \/ B(b)
      /\ J <=> I(c) \/ B(c)
      /\ J <=> I(d) \/ B(d)
  OBVIOUS
<1>3. IInv /\ LoopInv /\ [Next]_vars => /\ J => J' \/ S'
                                        /\ I(a) => I(a)' \/ S'
                                        /\ I(b) => I(b)' \/ S'
                                        /\ I(c) => I(c)' \/ S'
                                        /\ I(d) => I(d)' \/ S'
  <2> SUFFICES ASSUME IInv, LoopInv, [Next]_vars, J
               PROVE  /\ J' \/ S'
                      /\ \A k \in Producers : I(k) => I(k)' \/ S'
    BY <1>0
  <2> QED
    BY JoinStep
<1>4. IInv /\ LoopInv /\ [Next]_vars /\ <<A>>_vars => (J => S')
  BY JoinStep
<1>5. FairSpec => LoopFairness(l)
  BY DEF FairSpec, Fairness
<1>6. LoopFairness(l) => WF_vars(A)
  BY PTL DEF LoopFairness
<1>7. RefresherEnabled => (I(a) /\ I(b) /\ I(c) /\ I(d) => ENABLED <<A>>_vars)
  <2>1. RefresherEnabled => (I(a) /\ I(b) /\ I(c) /\ I(d) => CanLoop(l))
    BY DEF RefresherEnabled
  <2> QED
    BY <2>1 DEF CanLoop
<1> DEFINE Ia == I(a)  Ib == I(b)  Ic == I(c)  Id == I(d)
           Ba == B(a)  Bb == B(b)  Bc == B(c)  Bd == B(d)
<1>1a. F => (Ba ~> Ia) /\ (Bb ~> Ib) /\ (Bc ~> Ic) /\ (Bd ~> Id)
  BY <1>1
<1>8. /\ (J <=> Ia \/ Ba) /\ (J <=> Ib \/ Bb) /\ (J <=> Ic \/ Bc) /\ (J <=> Id \/ Bd)
      /\ RefresherEnabled => (Ia /\ Ib /\ Ic /\ Id => ENABLED <<A>>_vars)
      /\ IInv /\ LoopInv /\ [Next]_vars => /\ J => J' \/ S'
                                           /\ Ia => Ia' \/ S'
                                           /\ Ib => Ib' \/ S'
                                           /\ Ic => Ic' \/ S'
                                           /\ Id => Id' \/ S'
  BY <1>2, <1>3, <1>7
<1> HIDE DEF A, J, S, Ia, Ib, Ic, Id, Ba, Bb, Bc, Bd
<1>9. F => []IInv /\ []LoopInv /\ [][Next]_vars
  BY Invariance, LoopInvHolds, PTL DEF FairSpec, Spec
<1>10. F => (J ~> Ia \/ S)
  BY <1>1a, <1>8, PTL
<1>11. F => (Ia ~> (Ia /\ Ib) \/ S)
  BY <1>1a, <1>8, <1>9, PTL
<1>12. F => (Ia /\ Ib ~> (Ia /\ Ib /\ Ic) \/ S)
  BY <1>1a, <1>8, <1>9, PTL
<1>13. F => (Ia /\ Ib /\ Ic ~> (Ia /\ Ib /\ Ic /\ Id) \/ S)
  BY <1>1a, <1>8, <1>9, PTL
<1>14. F => (Ia /\ Ib /\ Ic /\ Id ~> S)
  BY <1>4, <1>5, <1>6, <1>8, <1>9, PTL
<1>15. F => (J ~> S)
  BY <1>10, <1>11, <1>12, <1>13, <1>14, PTL
<1> QED
  BY <1>15 DEF J, S

(* What a loop does next, and that it is told to stop once and for all. *)
LEMMA RoundStep ==
    ASSUME IInv, [Next]_vars, NEW l \in Loops, loop[l] # "off"
    PROVE  /\ l \in closed => l \in closed'
           /\ loop[l] = "refresh" => loop'[l] \in {"refresh", "join"}
           /\ loop[l] = "select" => loop'[l] \in {"select", IF l \in closed THEN "off" ELSE "refresh"}
           /\ LoopNext(l) => /\ loop[l] = "refresh" => loop'[l] = "join"
                             /\ loop[l] = "select" => loop'[l] # "select"
           /\ ~LoopNext(l) => loop'[l] = loop[l]
<1>0. loop \in [Loops -> {"off", "refresh", "join", "select"}]
  BY DEF IInv, TypeOK
<1>1. CASE LoopNext(l)
  <2>1. closed' = closed
    BY <1>1 DEF LoopNext, RefreshAll, Join, Tick, LoopStop, sessionVars
  <2> QED
    BY <1>0, <1>1, <2>1 DEF LoopNext, RefreshAll, Join, Tick, LoopStop
<1>2. CASE ~LoopNext(l)
  <2>1. ASSUME NEW m \in Loops, LoopNext(m), m # l PROVE loop'[l] = loop[l] /\ closed' = closed
    BY <1>0, <2>1 DEF LoopNext, RefreshAll, Join, Tick, LoopStop, sessionVars
  <2>2. ASSUME SetActive(TRUE) PROVE loop'[l] = loop[l] /\ (l \in closed => l \in closed')
    <3>1. CASE active
      BY <2>2, <3>1 DEF SetActive, StartSession, sessionVars
    <3>2. CASE ~active
      <4>1. PICK m \in Loops : loop[m] = "off" /\ closed' = closed \ {m} /\ loop' = [loop EXCEPT ![m] = "refresh"]
        BY <2>2, <3>2 DEF SetActive, StartSession
      <4> QED
        BY <1>0, <4>1
    <3> QED
      BY <3>1, <3>2
  <2>3. ASSUME SetActive(FALSE) PROVE loop' = loop /\ closed \subseteq closed'
    BY <2>3 DEF SetActive, EndSession
  <2>4. CASE UNCHANGED <<loop, closed>>
    BY <1>2, <2>4
  <2>5. \/ SetActive(TRUE) \/ SetActive(FALSE)
        \/ \E m \in Loops : m # l /\ LoopNext(m)
        \/ UNCHANGED <<loop, closed>>
    BY <1>2 DEF Next, ClientNext, BadMethod, Receive, WaitCancelled, Return, GetNext, GetFresh, GetJoin,
       GetRefused, GetFetch, WaitDone, FetchNext, Store, Unlink, CloseDone, Expire, vars, sessionVars
  <2>6. loop'[l] = loop[l] /\ (l \in closed => l \in closed')
    BY <2>1, <2>2, <2>3, <2>5
  <2> QED
    BY <1>2, <2>6
<1> QED
  BY <1>1, <1>2

(* The loop of an ended session returns, wherever in a round the end of the  *)
(* session finds it and whatever its workers wait for (loop, refreshAll). *)
THEOREM EndedLoopReturns ==
    ASSUME NEW a, NEW b, NEW c, NEW d, Producers = {a, b, c, d}
    PROVE  FairSpec /\ []RefresherEnabled => EndedLoopsReturn
<1> DEFINE F == FairSpec /\ []RefresherEnabled
<1>1. ASSUME NEW l \in Loops PROVE F => ((l \in closed) ~> (loop[l] = "off"))
  <2> DEFINE A == LoopNext(l)
             C == l \in closed
             O == loop[l] = "off"
             R == l \in closed /\ loop[l] = "refresh"
             J == l \in closed /\ loop[l] = "join"
             S == l \in closed /\ loop[l] = "select"
             J0 == loop[l] = "join"
             S0 == loop[l] = "select"
  <2>1. IInv /\ LoopInv /\ [Next]_vars => /\ R => R' \/ J'
                                          /\ J => J' \/ S'
                                          /\ S => S' \/ O'
    BY RoundStep, JoinStep
  <2>2. IInv /\ LoopInv /\ [Next]_vars /\ <<A>>_vars => (R => J') /\ (S => O')
    BY RoundStep
  <2>3. RefresherEnabled => (R \/ S => ENABLED <<A>>_vars)
    <3>1. RefresherEnabled => (R \/ S => CanLoop(l))
      BY DEF RefresherEnabled
    <3> QED
      BY <3>1 DEF CanLoop
  <2>4. FairSpec => LoopFairness(l)
    BY DEF FairSpec, Fairness
  <2>5. LoopFairness(l) => WF_vars(A)
    BY PTL DEF LoopFairness
  <2>6. IInv /\ C => R \/ J \/ S \/ O
    BY DEF IInv, TypeOK
  <2>7. F => (J0 ~> S0)
    BY RoundEnds
  <2>8. (J => J0) /\ ~(J /\ S0)
    OBVIOUS
  <2> HIDE DEF A, C, O, R, J, S, J0, S0
  <2>9. F => []IInv /\ []LoopInv /\ [][Next]_vars
    BY Invariance, LoopInvHolds, PTL DEF FairSpec, Spec
  <2>10. F => (R ~> J)
    BY <2>1, <2>2, <2>3, <2>4, <2>5, <2>9, PTL
  <2>11. F => (J ~> S)
    BY <2>1, <2>7, <2>8, <2>9, PTL
  <2>12. F => (S ~> O)
    BY <2>1, <2>2, <2>3, <2>4, <2>5, <2>9, PTL
  <2>13. F => (C ~> O)
    BY <2>6, <2>9, <2>10, <2>11, <2>12, PTL
  <2> QED
    BY <2>13 DEF C, O
<1> HIDE DEF F
<1>2. F => \A l \in Loops : ((l \in closed) ~> (loop[l] = "off"))
  BY <1>1
<1> QED
  BY <1>2 DEF F, EndedLoopsReturn

-----------------------------------------------------------------------------
(* The session of loop l is being served and has no response for k yet. *)
Cold(l, k) == active /\ stop = l /\ entries[k] = 0

(* Nobody is fetching k, a fetch of this session is, or one of an earlier    *)
(* session, whose response will not be stored. *)
FreeCold(l, k) == Cold(l, k) /\ inflight[k] = 0
OwnFetch(l, k) == Cold(l, k) /\ inflight[k] # 0 /\ calls[inflight[k]].gen = gen
LateFetch(l, k) == Cold(l, k) /\ inflight[k] # 0 /\ calls[inflight[k]].gen # gen

(* k is cached, or there is no session to cache it for. *)
Warm(k) == ~active \/ entries[k] # 0

(* While k stays cold its fetch in flight stays, or an earlier session's     *)
(* gives way to none, or none to one of this session. *)
LEMMA ColdStep ==
    ASSUME IInv, LoopInv, [Next]_vars, NEW l \in Loops, NEW k \in Producers, Cold(l, k)
    PROVE  \/ Warm(k)'
           \/ /\ Cold(l, k)' /\ gen' = gen /\ inflight'[k] = inflight[k]
              /\ inflight[k] # 0 =>
                    /\ calls'[inflight[k]].gen = calls[inflight[k]].gen
                    /\ \/ calls'[inflight[k]].st = calls[inflight[k]].st
                       \/ calls[inflight[k]].st = "running" /\ calls'[inflight[k]].st = "stored"
           \/ inflight[k] = 0 /\ OwnFetch(l, k)'
           \/ LateFetch(l, k) /\ calls[inflight[k]].st = "stored" /\ FreeCold(l, k)'
<1>0. /\ k \in Keys /\ inflight \in [Keys -> Nat] /\ entries \in [Keys -> Nat]
      /\ calls \in Seq(Call) /\ Len(calls) \in Nat /\ DOMAIN calls = 1..Len(calls)
      /\ \A i \in DOMAIN calls : calls[i].key \in Keys /\ calls[i] \in Call
  BY ProducersAreKeys, CallsType DEF IInv, TypeOK
<1>1. CASE UNCHANGED <<entries, active, gen, stop, inflight, calls>>
  BY <1>1 DEF Cold
<1>2. CASE SetActive(TRUE) \/ SetActive(FALSE)
  <2>1. CASE SetActive(TRUE)
    BY <1>1, <2>1 DEF SetActive, StartSession, sessionVars, cacheVars, Cold
  <2>2. CASE SetActive(FALSE)
    BY <2>2 DEF SetActive, EndSession, Warm
  <2> QED
    BY <1>2, <2>1, <2>2
<1>3. ASSUME NEW g \in Getters, GetFetch(g)
      PROVE  \/ /\ Cold(l, k)' /\ gen' = gen /\ inflight'[k] = inflight[k]
                /\ inflight[k] # 0 => calls'[inflight[k]] = calls[inflight[k]]
             \/ inflight[k] = 0 /\ OwnFetch(l, k)'
  <2>0. req[g].key \in Keys
    BY DEF IInv, TypeOK, Request
  <2>1. /\ calls' = Append(calls, [key |-> req[g].key, gen |-> gen, st |-> "running"])
        /\ inflight' = [inflight EXCEPT ![req[g].key] = Len(calls) + 1]
        /\ inflight[req[g].key] = 0
        /\ UNCHANGED <<entries, active, gen, stop>>
    BY <1>3 DEF GetFetch, cacheVars, sessionVars
  <2>2. /\ calls'[Len(calls) + 1] = [key |-> req[g].key, gen |-> gen, st |-> "running"]
        /\ \A i \in DOMAIN calls : calls'[i] = calls[i]
    BY <1>0, <2>1
  <2>3. calls'[Len(calls) + 1].gen = gen
    BY <2>2
  <2>4. CASE req[g].key = k
    <3>1. inflight'[k] = Len(calls) + 1 /\ inflight[k] = 0 /\ Len(calls) + 1 # 0
      BY <1>0, <2>1, <2>4
    <3> QED
      BY <2>1, <2>3, <3>1 DEF OwnFetch, Cold
  <2>5. CASE req[g].key # k
    <3>1. inflight'[k] = inflight[k] /\ Cold(l, k)' /\ gen' = gen
      BY <1>0, <2>0, <2>1, <2>5 DEF Cold
    <3>2. inflight[k] # 0 => inflight[k] \in DOMAIN calls
      BY <1>0 DEF IInv, InflightOK
    <3> QED
      BY <2>2, <3>1, <3>2
  <2> QED
    BY <2>4, <2>5
<1>4. ASSUME NEW i \in DOMAIN calls, FetchNext(i)
      PROVE  \/ Warm(k)'
             \/ /\ Cold(l, k)' /\ gen' = gen /\ inflight'[k] = inflight[k]
                /\ inflight[k] # 0 =>
                      /\ calls'[inflight[k]].gen = calls[inflight[k]].gen
                      /\ \/ calls'[inflight[k]].st = calls[inflight[k]].st
                         \/ calls[inflight[k]].st = "running" /\ calls'[inflight[k]].st = "stored"
             \/ LateFetch(l, k) /\ calls[inflight[k]].st = "stored" /\ FreeCold(l, k)'
  <2>1. UNCHANGED <<active, gen, stop>>
    BY <1>4 DEF FetchNext, Store, Unlink, CloseDone, sessionVars
  <2>2. entries' = entries \/ Warm(k)' \/ entries'[k] = entries[k]
    BY <1>0, <1>4 DEF FetchNext, Store, Unlink, CloseDone, cacheVars, Warm
  <2>3. Warm(k)' \/ Cold(l, k)'
    BY <2>1 DEF Warm, Cold
  <2>4. PICK to \in CallStates :
            /\ calls' = [calls EXCEPT ![i].st = to]
            /\ \/ Store(i) /\ calls[i].st = "running" /\ to = "stored" /\ inflight' = inflight
               \/ /\ Unlink(i) /\ calls[i].st = "stored" /\ to = "unlinked"
                  /\ inflight' = [inflight EXCEPT ![calls[i].key] = 0]
                  /\ entries' = entries
               \/ CloseDone(i) /\ calls[i].st = "unlinked" /\ to = "closed" /\ inflight' = inflight
    BY <1>4 DEF FetchNext, Store, Unlink, CloseDone, CallStates, cacheVars
  <2>5. /\ DOMAIN calls' = DOMAIN calls
        /\ calls'[i] = [calls[i] EXCEPT !.st = to]
        /\ \A j \in DOMAIN calls : j # i => calls'[j] = calls[j]
    BY <1>0, <2>4, CallUpdate
  <2>6. calls'[i].st = to /\ calls'[i].gen = calls[i].gen
    BY <1>0, <2>5 DEF Call
  <2>7. inflight[k] # 0 => /\ inflight[k] \in DOMAIN calls
                           /\ calls[inflight[k]].key = k
                           /\ calls[inflight[k]].st \in {"running", "stored"}
    BY <1>0 DEF IInv, InflightOK
  <2>8. CASE calls[i].st = "stored" /\ calls[i].key = k
    <3>1. inflight[k] = i
      BY <2>8 DEF IInv, SingleFlight
    <3>2. calls[i].gen # gen
      BY <2>8 DEF LoopInv, StoredKept, Cold
    <3>3. inflight'[k] = 0 /\ entries' = entries
      BY <1>0, <2>4, <2>8
    <3>4. inflight[k] # 0 /\ Cold(l, k)'
      BY <1>0, <2>1, <3>1, <3>3 DEF Cold
    <3> QED
      BY <2>8, <3>1, <3>2, <3>3, <3>4 DEF LateFetch, FreeCold
  <2>9. CASE ~(calls[i].st = "stored" /\ calls[i].key = k)
    <3>1. inflight'[k] = inflight[k]
      BY <1>0, <2>4, <2>9
    <3>2. CASE inflight[k] = i
      BY <2>1, <2>3, <2>4, <2>6, <2>7, <2>9, <3>1, <3>2
    <3>3. CASE inflight[k] # i
      BY <2>1, <2>3, <2>5, <2>7, <3>1, <3>3
    <3> QED
      BY <3>2, <3>3
  <2> QED
    BY <2>8, <2>9
<1>5. \/ UNCHANGED <<entries, active, gen, stop, inflight, calls>>
      \/ SetActive(TRUE) \/ SetActive(FALSE)
      \/ \E g \in Getters : GetFetch(g)
      \/ \E i \in DOMAIN calls : FetchNext(i)
  BY DEF Next, LoopNext, RefreshAll, Join, Tick, LoopStop, ClientNext, BadMethod, Receive, WaitCancelled,
     Return, GetNext, GetFresh, GetJoin, GetRefused, WaitDone, Expire, vars, cacheVars, sessionVars
<1> QED
  BY <1>1, <1>2, <1>3, <1>4, <1>5

(* A fetch of this session that is in flight while k is cold is running, and *)
(* what it does next is store. *)
LEMMA OwnStores ==
    ASSUME IInv, LoopInv, NEW l \in Loops, NEW k \in Producers, OwnFetch(l, k)
    PROVE  /\ inflight[k] \in DOMAIN calls
           /\ calls[inflight[k]].st = "running"
           /\ FetchNext(inflight[k]) => Warm(k)'
<1>0. k \in Keys /\ entries \in [Keys -> Nat]
  BY ProducersAreKeys DEF IInv, TypeOK
<1> DEFINE i == inflight[k]
<1>1. i # 0 /\ i \in DOMAIN calls /\ calls[i].key = k /\ calls[i].st \in {"running", "stored"} /\ calls[i].gen = gen
  BY <1>0 DEF IInv, InflightOK, OwnFetch
<1>2. calls[i].st = "running"
  BY <1>1 DEF OwnFetch, Cold, LoopInv, StoredKept
<1>3. ASSUME FetchNext(i) PROVE Warm(k)'
  <2>1. Store(i)
    BY <1>2, <1>3 DEF FetchNext, Unlink, CloseDone
  <2>2. entries' = [entries EXCEPT ![k] = i]
    BY <1>1, <2>1 DEF Store
  <2> QED
    BY <1>0, <1>1, <2>2 DEF Warm
<1> QED
  BY <1>1, <1>2, <1>3

(* The fetch in flight for a cold k, by its number: one of this session      *)
(* leaves a response, one of an earlier session makes room. *)
OwnCaches(l, k, i) == (OwnFetch(l, k) /\ inflight[k] = i) ~> Warm(k)
LateLeaves(l, k, i) == (LateFetch(l, k) /\ inflight[k] = i) ~> (FreeCold(l, k) \/ Warm(k))

(* Both by the fetch goroutine alone, whatever everybody else does. *)
LEMMA InflightEnds ==
    ASSUME NEW l \in Loops, NEW k \in Producers, NEW i \in FetchIds
    PROVE  FairSpec /\ []RefresherEnabled => OwnCaches(l, k, i) /\ LateLeaves(l, k, i)
<1> DEFINE F == FairSpec /\ []RefresherEnabled
           A == i \in DOMAIN calls /\ FetchNext(i)
           O == OwnFetch(l, k) /\ inflight[k] = i
           L == LateFetch(l, k) /\ inflight[k] = i
           R == LateFetch(l, k) /\ inflight[k] = i /\ calls[i].st = "running"
           S == LateFetch(l, k) /\ inflight[k] = i /\ calls[i].st = "stored"
           Q == Warm(k)
           E == FreeCold(l, k)
           EQ == FreeCold(l, k) \/ Warm(k)
<1>0. k \in Keys
  BY ProducersAreKeys
<1>1. IInv /\ L => R \/ S
  BY <1>0 DEF IInv, InflightOK, LateFetch
<1>2. IInv /\ LoopInv /\ [Next]_vars => /\ O => O' \/ Q'
                                        /\ R => R' \/ S' \/ Q'
                                        /\ S => S' \/ E' \/ Q'
  <2> SUFFICES ASSUME IInv, LoopInv, [Next]_vars, Cold(l, k)
               PROVE  (O => O' \/ Q') /\ (R => R' \/ S' \/ Q') /\ (S => S' \/ E' \/ Q')
    BY DEF OwnFetch, LateFetch
  <2> QED
    BY ColdStep DEF OwnFetch, LateFetch
<1>3. IInv /\ LoopInv /\ <<A>>_vars => (O => Q')
  BY OwnStores
<1>4. IInv /\ LoopInv /\ [Next]_vars /\ <<A>>_vars => (R => S' \/ Q') /\ (S => E' \/ Q')
  <2> SUFFICES ASSUME IInv, LoopInv, [Next]_vars, A, R \/ S
               PROVE  (R => S' \/ Q') /\ (S => E' \/ Q')
    OBVIOUS
  <2>0. i \in DOMAIN calls /\ calls \in Seq(Call) /\ calls[i] \in Call /\ calls[i].key = k
    BY <1>0, CallsType DEF IInv, TypeOK, InflightOK, LateFetch
  <2>1. PICK to \in CallStates :
            /\ calls' = [calls EXCEPT ![i].st = to]
            /\ \/ calls[i].st = "running" /\ to = "stored"
               \/ calls[i].st = "stored" /\ to = "unlinked"
               \/ calls[i].st = "unlinked" /\ to = "closed"
    BY DEF FetchNext, Store, Unlink, CloseDone, CallStates
  <2>2. calls'[i] = [calls[i] EXCEPT !.st = to]
    BY <2>0, <2>1, CallUpdate
  <2>3. calls'[i].st = to
    BY <2>0, <2>2 DEF Call
  <2>4. (R => R' \/ S' \/ Q') /\ (S => S' \/ E' \/ Q')
    BY <1>2
  <2> QED
    BY <2>1, <2>3, <2>4
<1>5. IInv /\ LoopInv /\ RefresherEnabled => (O \/ R \/ S => ENABLED <<A>>_vars)
  <2>1. IInv /\ LoopInv /\ (O \/ R \/ S) => i \in DOMAIN calls /\ calls[i].st # "closed"
    BY <1>0, OwnStores DEF IInv, InflightOK, LateFetch
  <2>2. IInv /\ LoopInv /\ RefresherEnabled => (O \/ R \/ S => CanFetch(i))
    BY <2>1 DEF RefresherEnabled
  <2> QED
    BY <2>2 DEF CanFetch
<1>6. FairSpec => FetchFairness(i)
  BY DEF FairSpec, Fairness
<1>7. FetchFairness(i) => WF_vars(A)
  BY PTL DEF FetchFairness
<1>8. EQ <=> E \/ Q
  OBVIOUS
<1> HIDE DEF A, O, L, R, S, Q, E, EQ
<1>9. F => []IInv /\ []LoopInv /\ [][Next]_vars
  BY Invariance, LoopInvHolds, PTL DEF FairSpec, Spec
<1>10. F => (O ~> Q)
  BY <1>2, <1>3, <1>5, <1>6, <1>7, <1>9, PTL
<1>11. F => (R ~> S \/ Q)
  BY <1>2, <1>4, <1>5, <1>6, <1>7, <1>9, PTL
<1>12. F => (S ~> E \/ Q)
  BY <1>2, <1>4, <1>5, <1>6, <1>7, <1>9, PTL
<1>13. F => (L ~> EQ)
  BY <1>1, <1>8, <1>9, <1>11, <1>12, PTL
<1>14. (F => OwnCaches(l, k, i)) /\ (F => LateLeaves(l, k, i))
  BY <1>10, <1>13 DEF O, Q, L, EQ, OwnCaches, LateLeaves
<1> QED
  BY <1>14

(* So whichever fetch of this session is in flight is cached, and whichever  *)
(* fetch of an earlier one leaves the table. *)
LEMMA EveryInflightEnds ==
    ASSUME IsFiniteSet(Producers), NEW l \in Loops, NEW k \in Producers
    PROVE  FairSpec /\ []RefresherEnabled =>
               /\ OwnFetch(l, k) ~> Warm(k)
               /\ LateFetch(l, k) ~> (FreeCold(l, k) \/ Warm(k))
<1> DEFINE F == FairSpec /\ []RefresherEnabled
           O == OwnFetch(l, k)
           L == LateFetch(l, k)
           Q == Warm(k)
           EQ == FreeCold(l, k) \/ Warm(k)
           Oi(i) == OwnFetch(l, k) /\ inflight[k] = i
           Li(i) == LateFetch(l, k) /\ inflight[k] = i
           SomeO == \E i \in FetchIds : Oi(i)
           SomeL == \E i \in FetchIds : Li(i)
           WO == \A i \in FetchIds : (Oi(i) => <>Q)
           WL == \A i \in FetchIds : (Li(i) => <>EQ)
<1>1. IInv /\ DOMAIN calls \subseteq FetchIds => (O => SomeO) /\ (L => SomeL)
  BY ProducersAreKeys DEF IInv, InflightOK, OwnFetch, LateFetch
<1>2. ASSUME NEW i \in FetchIds PROVE F => [](Oi(i) => <>Q)
  <2>1. F => OwnCaches(l, k, i)
    BY InflightEnds
  <2>2. F => (Oi(i) ~> Q)
    BY <2>1 DEF OwnCaches
  <2> QED
    BY <2>2, PTL
<1>3. ASSUME NEW i \in FetchIds PROVE F => [](Li(i) => <>EQ)
  <2>1. F => LateLeaves(l, k, i)
    BY InflightEnds
  <2>2. F => (Li(i) ~> EQ)
    BY <2>1 DEF LateLeaves
  <2> QED
    BY <2>2, PTL
<1> HIDE DEF F, O, L, Q, EQ, Oi, Li
<1>4. F => \A i \in FetchIds : [](Oi(i) => <>Q)
  BY <1>2
<1>5. (\A i \in FetchIds : [](Oi(i) => <>Q)) => [](\A i \in FetchIds : (Oi(i) => <>Q))
  OBVIOUS
<1>6. F => []WO
  BY <1>4, <1>5
<1>7. F => \A i \in FetchIds : [](Li(i) => <>EQ)
  BY <1>3
<1>8. (\A i \in FetchIds : [](Li(i) => <>EQ)) => [](\A i \in FetchIds : (Li(i) => <>EQ))
  OBVIOUS
<1>9. F => []WL
  BY <1>7, <1>8
<1>10. WO => (SomeO => <>Q)
  OBVIOUS
<1>11. WL => (SomeL => <>EQ)
  OBVIOUS
<1> HIDE DEF WO, WL, SomeO, SomeL
<1>12. F => (O ~> Q) /\ (L ~> EQ)
  BY <1>1, <1>6, <1>9, <1>10, <1>11, Invariance, FetchesBounded, PTL DEF F, FairSpec
<1> QED
  BY <1>12 DEF F, O, L, Q, EQ

(* Where the session's loop is while nobody fetches k, and the worker it has *)
(* started for k. *)
FreeAt(l, k, pc) == FreeCold(l, k) /\ loop[l] = pc
FreeAsked(l, k, g) == FreeCold(l, k) /\ req[g].pc = "get"

(* A cold k that nobody fetches is asked for in the loop's next round, and   *)
(* the worker that asks, if nobody else does, starts a fetch. *)
LEMMA FreeStep ==
    ASSUME IInv, LoopInv, [Next]_vars, NEW l \in Loops, NEW k \in Producers, NEW g \in Getters,
           g = <<l, k>>, FreeCold(l, k)
    PROVE  \/ Warm(k)'
           \/ OwnFetch(l, k)'
           \/ /\ FreeCold(l, k)'
              /\ loop[l] = "join" => FreeAt(l, k, "join")' \/ FreeAt(l, k, "select")'
              /\ loop[l] = "select" => \/ FreeAt(l, k, "select")' /\ ~LoopNext(l)
                                       \/ FreeAt(l, k, "refresh")'
              /\ loop[l] = "refresh" => \/ FreeAt(l, k, "refresh")' /\ ~LoopNext(l)
                                        \/ FreeAsked(l, k, g)'
              /\ req[g].pc = "get" => FreeAsked(l, k, g)' /\ ~GetNext(g)
<1>0. /\ k \in Keys /\ g \in Workers /\ stop = l /\ active /\ entries[k] = 0 /\ inflight[k] = 0
      /\ l \notin closed /\ loop[l] # "off" /\ Stale(k) /\ ~SessionEnded
  BY ProducersAreKeys
  DEF FreeCold, Cold, IInv, ActiveOpen, LoopInv, LoopAlive, Stale, Workers, SessionEnded
<1> SUFFICES ASSUME ~Warm(k)', ~OwnFetch(l, k)'
             PROVE  /\ FreeCold(l, k)'
                    /\ loop[l] = "join" => FreeAt(l, k, "join")' \/ FreeAt(l, k, "select")'
                    /\ loop[l] = "select" => \/ FreeAt(l, k, "select")' /\ ~LoopNext(l)
                                             \/ FreeAt(l, k, "refresh")'
                    /\ loop[l] = "refresh" => \/ FreeAt(l, k, "refresh")' /\ ~LoopNext(l)
                                              \/ FreeAsked(l, k, g)'
                    /\ req[g].pc = "get" => FreeAsked(l, k, g)' /\ ~GetNext(g)
  OBVIOUS
<1>1. FreeCold(l, k)'
  BY ColdStep DEF FreeCold, LateFetch
<1>2. loop[l] = "join" => FreeAt(l, k, "join")' \/ FreeAt(l, k, "select")'
  BY <1>1, JoinStep DEF FreeAt
<1>3. loop[l] = "select" => \/ FreeAt(l, k, "select")' /\ ~LoopNext(l)
                            \/ FreeAt(l, k, "refresh")'
  BY <1>0, <1>1, RoundStep DEF FreeAt
<1>4. ASSUME loop[l] = "refresh"
      PROVE  (FreeAt(l, k, "refresh")' /\ ~LoopNext(l)) \/ FreeAsked(l, k, g)'
  <2>1. CASE ~LoopNext(l)
    BY <1>0, <1>1, <1>4, <2>1, RoundStep DEF FreeAt
  <2>2. CASE LoopNext(l)
    <3>1. RefreshAll(l)
      BY <1>4, <2>2 DEF LoopNext, Join, Tick, LoopStop
    <3>2. g[1] = l /\ g[2] = k
      OBVIOUS
    <3>3. req'[g] = Asking(k, 0)
      BY <1>0, <3>1, <3>2 DEF RefreshAll
    <3>4. req'[g].pc = "get"
      BY <1>0, <3>3, AskingType
    <3> QED
      BY <1>1, <3>4 DEF FreeAsked
  <2> QED
    BY <2>1, <2>2
<1>5. ASSUME req[g].pc = "get" PROVE FreeAsked(l, k, g)' /\ ~GetNext(g)
  <2>1. req[g].key = k
    BY <1>5 DEF LoopInv, WorkersOK
  <2>2. ASSUME GetNext(g) PROVE FALSE
    <3>1. GetFetch(g)
      BY <1>0, <1>5, <2>1, <2>2 DEF GetNext, GetFresh, GetJoin, GetRefused, WaitDone
    <3>2. inflight' = [inflight EXCEPT ![k] = Len(calls) + 1]
      BY <2>1, <3>1 DEF GetFetch
    <3>3. inflight'[k] # 0
      BY <1>0, <3>2, CallsType DEF IInv, TypeOK
    <3> QED
      BY <1>1, <3>3 DEF FreeCold
  <2>3. req'[g] = req[g]
    BY <1>5, <2>2, WorkerStep
  <2> QED
    BY <1>1, <1>5, <2>2, <2>3 DEF FreeAsked
<1> QED
  BY <1>1, <1>2, <1>3, <1>4, <1>5

(* One endpoint of a session gets cached. *)
GetsCached(l, k) == Cold(l, k) ~> Warm(k)

(* The loop comes round to it, after the fetch of an earlier session if that *)
(* is in the way, and its own fetch, or a handler's, is stored. *)
LEMMA ColdGetsCached ==
    ASSUME NEW a, NEW b, NEW c, NEW d, Producers = {a, b, c, d}, NEW l \in Loops, NEW k \in Producers
    PROVE  FairSpec /\ []RefresherEnabled => GetsCached(l, k)
<1>0. PICK g \in Getters : g = <<l, k>>
  BY DEF Getters, Workers
<1> DEFINE F == FairSpec /\ []RefresherEnabled
           AL == LoopNext(l)
           AG == GetNext(g)
           C == Cold(l, k)
           E == FreeCold(l, k)
           J == FreeAt(l, k, "join")
           S == FreeAt(l, k, "select")
           R == FreeAt(l, k, "refresh")
           G == FreeAsked(l, k, g)
           O == OwnFetch(l, k)
           L == LateFetch(l, k)
           Q == Warm(k)
           J0 == loop[l] = "join"
           S0 == loop[l] = "select"
<1>1. F => (J0 ~> S0)
  BY RoundEnds
<1>2. F => (O ~> Q) /\ (L ~> E \/ Q)
  BY FourFinite, EveryInflightEnds
<1>3. IInv /\ LoopInv => /\ C => E \/ O \/ L
                         /\ E => J \/ S \/ R
  BY DEF IInv, TypeOK, LoopInv, LoopAlive, FreeCold, OwnFetch, LateFetch, Cold, FreeAt
<1>4. (J => J0) /\ ~(J /\ S0)
  BY DEF FreeAt
<1>5. IInv /\ LoopInv /\ [Next]_vars => /\ J => J' \/ S' \/ O' \/ Q'
                                        /\ S => S' \/ R' \/ O' \/ Q'
                                        /\ R => R' \/ G' \/ O' \/ Q'
                                        /\ G => G' \/ O' \/ Q'
  <2> SUFFICES ASSUME IInv, LoopInv, [Next]_vars, E
               PROVE  /\ J => J' \/ S' \/ O' \/ Q'
                      /\ S => S' \/ R' \/ O' \/ Q'
                      /\ R => R' \/ G' \/ O' \/ Q'
                      /\ G => G' \/ O' \/ Q'
    BY DEF FreeAt, FreeAsked
  <2> QED
    BY <1>0, FreeStep DEF FreeAt, FreeAsked
<1>6. IInv /\ LoopInv /\ [Next]_vars /\ <<AL>>_vars => /\ S => R' \/ O' \/ Q'
                                                       /\ R => G' \/ O' \/ Q'
  <2> SUFFICES ASSUME IInv, LoopInv, [Next]_vars, LoopNext(l), E
               PROVE  (S => R' \/ O' \/ Q') /\ (R => G' \/ O' \/ Q')
    BY DEF FreeAt
  <2> QED
    BY <1>0, FreeStep DEF FreeAt
<1>7. IInv /\ LoopInv /\ [Next]_vars /\ <<AG>>_vars => (G => O' \/ Q')
  <2> SUFFICES ASSUME IInv, LoopInv, [Next]_vars, GetNext(g), G
               PROVE  O' \/ Q'
    OBVIOUS
  <2> QED
    BY <1>0, FreeStep DEF FreeAsked
<1>8. RefresherEnabled => /\ S \/ R => ENABLED <<AL>>_vars
                          /\ G => ENABLED <<AG>>_vars
  <2>1. RefresherEnabled => (S \/ R => CanLoop(l)) /\ (G => CanGet(g))
    BY DEF RefresherEnabled, FreeAt, FreeAsked
  <2> QED
    BY <2>1 DEF CanLoop, CanGet
<1>9. FairSpec => LoopFairness(l) /\ GetFairness(g)
  BY DEF FairSpec, Fairness
<1>10. (LoopFairness(l) => WF_vars(AL)) /\ (GetFairness(g) => WF_vars(AG))
  BY PTL DEF LoopFairness, GetFairness
<1> HIDE DEF AL, AG, C, E, J, S, R, G, O, L, Q, J0, S0
<1>11. F => []IInv /\ []LoopInv /\ [][Next]_vars
  BY Invariance, LoopInvHolds, PTL DEF FairSpec, Spec
<1>12. F => (J ~> S \/ O \/ Q)
  BY <1>1, <1>4, <1>5, <1>11, PTL
<1>13. F => (S ~> R \/ O \/ Q)
  BY <1>5, <1>6, <1>8, <1>9, <1>10, <1>11, PTL
<1>14. F => (R ~> G \/ O \/ Q)
  BY <1>5, <1>6, <1>8, <1>9, <1>10, <1>11, PTL
<1>15. F => (G ~> O \/ Q)
  BY <1>5, <1>7, <1>8, <1>9, <1>10, <1>11, PTL
<1>16. F => (E ~> Q)
  BY <1>2, <1>3, <1>11, <1>12, <1>13, <1>14, <1>15, PTL
<1>17. F => (C ~> Q)
  BY <1>2, <1>3, <1>11, <1>16, PTL
<1> QED
  BY <1>17 DEF C, Q, GetsCached

(* Whichever loop the session has. *)
SessionCaches(k) == active ~> Warm(k)

(* An endpoint is cached or the session ends. *)
LEMMA EndpointGetsCached ==
    ASSUME NEW a, NEW b, NEW c, NEW d, Producers = {a, b, c, d}, NEW k \in Producers
    PROVE  FairSpec /\ []RefresherEnabled => SessionCaches(k)
<1> DEFINE F == FairSpec /\ []RefresherEnabled
           C(l) == Cold(l, k)
           Q == Warm(k)
           Some == \E l \in Loops : C(l)
           W == \A l \in Loops : (C(l) => <>Q)
           P == active
<1>1. IInv /\ P => Some \/ Q
  BY DEF IInv, TypeOK, ActiveOpen, Cold, Warm
<1>2. ASSUME NEW l \in Loops PROVE F => [](C(l) => <>Q)
  <2>1. F => GetsCached(l, k)
    BY ColdGetsCached
  <2>2. F => (C(l) ~> Q)
    BY <2>1 DEF GetsCached
  <2> QED
    BY <2>2, PTL
<1> HIDE DEF F, C, Q
<1>3. F => \A l \in Loops : [](C(l) => <>Q)
  BY <1>2
<1>4. (\A l \in Loops : [](C(l) => <>Q)) => [](\A l \in Loops : (C(l) => <>Q))
  OBVIOUS
<1>5. F => []W
  BY <1>3, <1>4
<1>6. W => (Some => <>Q)
  OBVIOUS
<1> HIDE DEF W, Some, P
<1>7. F => (P ~> Q)
  BY <1>1, <1>5, <1>6, Invariance, PTL DEF F, FairSpec
<1> QED
  BY <1>7 DEF F, P, Q, SessionCaches

(* A response that is cached stays cached until the session ends. *)
LEMMA WarmStays ==
    ASSUME IInv, [Next]_vars, NEW k \in Producers, entries[k] # 0
    PROVE  ~active' \/ entries'[k] # 0
<1>0. k \in Keys /\ entries \in [Keys -> Nat] /\ \A i \in DOMAIN calls : i # 0 /\ calls[i].key \in Keys
  BY ProducersAreKeys, CallsType DEF IInv, TypeOK
<1>1. ASSUME NEW i \in DOMAIN calls, FetchNext(i) PROVE entries'[k] # 0
  BY <1>0, <1>1 DEF FetchNext, Store, Unlink, CloseDone, cacheVars
<1>2. CASE SetActive(TRUE) \/ SetActive(FALSE)
  BY <1>2 DEF SetActive, StartSession, EndSession, cacheVars
<1>3. \/ UNCHANGED entries
      \/ SetActive(TRUE) \/ SetActive(FALSE)
      \/ \E i \in DOMAIN calls : FetchNext(i)
  BY DEF Next, LoopNext, RefreshAll, Join, Tick, LoopStop, ClientNext, BadMethod, Receive, WaitCancelled,
     Return, GetNext, GetFresh, GetJoin, GetRefused, GetFetch, WaitDone, Expire, vars, cacheVars
<1> QED
  BY <1>1, <1>2, <1>3

(* A session that lasts gets every endpoint cached at the same time, though  *)
(* the first round may only join fetches of the session before, whose        *)
(* responses nobody stores (loop, refreshAll, get's generation guard). *)
THEOREM EverySessionGetsWarm ==
    ASSUME NEW a, NEW b, NEW c, NEW d, Producers = {a, b, c, d}
    PROVE  FairSpec /\ []RefresherEnabled => SessionGetsWarm
<1> DEFINE F == FairSpec /\ []RefresherEnabled
           P == active
           Qa == Warm(a)  Qb == Warm(b)  Qc == Warm(c)  Qd == Warm(d)
           N == ~active
           Z == ~active \/ \A k \in Producers : entries[k] # 0
<1>1. F => (P ~> Qa) /\ (P ~> Qb) /\ (P ~> Qc) /\ (P ~> Qd)
  <2>1. a \in Producers /\ b \in Producers /\ c \in Producers /\ d \in Producers
    OBVIOUS
  <2>2. F => SessionCaches(a) /\ SessionCaches(b) /\ SessionCaches(c) /\ SessionCaches(d)
    BY <2>1, EndpointGetsCached
  <2> QED
    BY <2>2 DEF SessionCaches
<1>2. IInv /\ [Next]_vars => /\ Qa => Qa' \/ N \/ N'
                             /\ Qb => Qb' \/ N \/ N'
                             /\ Qc => Qc' \/ N \/ N'
                             /\ Qd => Qd' \/ N \/ N'
  BY WarmStays DEF Warm
<1>3. /\ Qa /\ Qb /\ Qc /\ Qd => Z
      /\ N => Z
      /\ P <=> ~N
  BY DEF Warm
<1> HIDE DEF P, Qa, Qb, Qc, Qd, N, Z
<1>4. F => []IInv /\ [][Next]_vars
  BY Invariance, PTL DEF FairSpec, Spec
<1>5. F => (P ~> N \/ (Qa /\ P))
  BY <1>1, <1>3, PTL
<1>6. F => (Qa /\ P ~> N \/ (Qa /\ Qb /\ P))
  BY <1>1, <1>2, <1>3, <1>4, PTL
<1>7. F => (Qa /\ Qb /\ P ~> N \/ (Qa /\ Qb /\ Qc /\ P))
  BY <1>1, <1>2, <1>3, <1>4, PTL
<1>8. F => (Qa /\ Qb /\ Qc /\ P ~> N \/ (Qa /\ Qb /\ Qc /\ Qd))
  BY <1>1, <1>2, <1>3, <1>4, PTL
<1>9. F => (P ~> Z)
  BY <1>3, <1>5, <1>6, <1>7, <1>8, PTL
<1> QED
  BY <1>9 DEF P, Z, SessionGetsWarm
=============================================================================
