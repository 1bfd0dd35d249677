-------------------------- MODULE ComputeServerProofs --------------------------
(***************************************************************************)
(* Proofs about ComputeServer for any number of requests and ids.          *)
(*                                                                         *)
(* A request is in one place, and the worker tells the registry of every   *)
(* move it makes, so no completion is lost.  A request that is engaged     *)
(* with an id keeps the entry of it until a cleanup takes it away, so of   *)
(* the requests engaged with an id one at most was not forgotten; entries  *)
(* and replies follow that one.  Without a stop, at most one worker loop   *)
(* is alive.                                                               *)
(***************************************************************************)
EXTENDS ComputeServer, SequenceTheorems, TLAPS

NoRepeats(s) == \A j, k \in DOMAIN s : s[j] = s[k] => j = k

Occurs(s, e) == \E k \in DOMAIN s : s[k] = e

Holds(w, r) == w \in Busy /\ task[w] = r

Waiting == {"enqueue", "ensure", "start", "wait"}

(* The entry of an id is that of the one engaged request that was not      *)
(* forgotten.                                                              *)
Present == \A r \in Request \ forgotten : Engaged(r) => Status(r) # "absent"

Sole ==
  \A r, q \in Request \ forgotten : Engaged(r) /\ Engaged(q) /\ IdOf[r] = IdOf[q] => r = q

(* A request is in one place: before the queue, once in it, or with one    *)
(* worker.                                                                 *)
OnePlace ==
  /\ \A r \in Request : pc[r] \in {"idle", "create", "enqueue"} => ~Queued(r)
  /\ \A r, w \in Request :
       Holds(w, r) => ~Queued(r) /\ pc[r] \notin {"idle", "create", "enqueue"}
  /\ \A v, w, r \in Request : Holds(v, r) /\ Holds(w, r) => v = w
  /\ NoRepeats(queue)

Working ==
  /\ \A w \in Busy : task[w] \in Request
  /\ \A r \in Request : pc[r] \in {"idle", "create", "enqueue", "ensure", "start"} =>
                           loop[r] = "unborn"

(* Whose outcome an entry is.                                              *)
Mine ==
  /\ \A i \in Id : items[i].status \in {"pending", "running", "cancelled"} =>
                     items[i].by = NoRequest
  /\ \A r \in Request \ forgotten : Engaged(r) =>
       /\ items[IdOf[r]].by \in {r, NoRequest} \cup forgotten
       /\ Status(r) \in {"completed", "failed"} => items[IdOf[r]].by \in {r} \cup forgotten

PlaceInv == OnePlace /\ Working

EntryInv == Present /\ Sole /\ Mine

ServerInv == TypeOK /\ PlaceInv /\ CleanupList /\ NoTaskLost

-----------------------------------------------------------------------------
(* Sequences.                                                              *)

LEMMA AppendOccurs ==
  ASSUME NEW S, NEW s \in Seq(S), NEW e \in S
  PROVE  /\ Append(s, e) \in Seq(S)
         /\ \A x : Occurs(Append(s, e), x) <=> Occurs(s, x) \/ x = e
         /\ NoRepeats(s) /\ ~Occurs(s, e) => NoRepeats(Append(s, e))
<1> DEFINE t == Append(s, e)
           n == Len(s)
<1>1. /\ t \in Seq(S) /\ n \in Nat /\ DOMAIN s = 1 .. n /\ DOMAIN t = 1 .. n + 1
      /\ \A i \in 1 .. n : t[i] = s[i]
      /\ t[n + 1] = e
  BY AppendProperties, LenProperties
<1> HIDE DEF t, n
<1>2. 1 .. n + 1 = (1 .. n) \cup {n + 1} /\ n + 1 \notin 1 .. n
  BY <1>1
<1>3. \A x : Occurs(t, x) <=> Occurs(s, x) \/ x = e
  BY <1>1, <1>2 DEF Occurs
<1>4. NoRepeats(s) /\ ~Occurs(s, e) => NoRepeats(t)
  BY <1>1, <1>2 DEF Occurs, NoRepeats
<1> QED BY <1>1, <1>3, <1>4 DEF t

LEMMA SubSeqOccurs ==
  ASSUME NEW S, NEW s \in Seq(S), NEW k \in 0 .. Len(s), NoRepeats(s)
  PROVE  /\ SubSeq(s, k + 1, Len(s)) \in Seq(S)
         /\ NoRepeats(SubSeq(s, k + 1, Len(s)))
         /\ \A x : Occurs(SubSeq(s, k + 1, Len(s)), x) <=>
                    Occurs(s, x) /\ x \notin {s[j] : j \in 1 .. k}
<1> DEFINE n == Len(s)
           t == SubSeq(s, k + 1, n)
<1>1. /\ n \in Nat /\ DOMAIN s = 1 .. n /\ k \in Nat /\ k <= n
      /\ \A j \in 1 .. n : s[j] \in S
  BY LenProperties, ElementOfSeq
<1>2. /\ t \in Seq(S)
      /\ DOMAIN t = 1 .. n - k
      /\ \A i \in 1 .. n - k : t[i] = s[k + i]
  BY <1>1, SubSeqProperties
<1> HIDE DEF t, n
<1>3. \A i \in 1 .. n - k : k + i \in 1 .. n /\ k + i \notin 1 .. k
  BY <1>1
<1>4. \A j \in 1 .. n : j \in 1 .. k \/ (j - k \in 1 .. n - k /\ k + (j - k) = j)
  BY <1>1
<1>5. NoRepeats(t)
  <2> SUFFICES ASSUME NEW i \in 1 .. n - k, NEW j \in 1 .. n - k, t[i] = t[j]
               PROVE  i = j
    BY <1>2 DEF NoRepeats
  <2>1. k + i = k + j
    BY <1>1, <1>2, <1>3 DEF NoRepeats
  <2> QED BY <1>1, <2>1
<1>6. ASSUME NEW x, Occurs(t, x) PROVE Occurs(s, x) /\ x \notin {s[j] : j \in 1 .. k}
  <2>1. PICK i \in 1 .. n - k : t[i] = x
    BY <1>2, <1>6 DEF Occurs
  <2>2. s[k + i] = x /\ k + i \in 1 .. n /\ k + i \notin 1 .. k
    BY <1>2, <1>3, <2>1
  <2>3. \A j \in 1 .. k : j \in 1 .. n
    BY <1>1
  <2> QED BY <1>1, <2>2, <2>3 DEF Occurs, NoRepeats
<1>7. ASSUME NEW x, Occurs(s, x), x \notin {s[j] : j \in 1 .. k} PROVE Occurs(t, x)
  BY <1>1, <1>2, <1>4, <1>7 DEF Occurs
<1> QED BY <1>2, <1>5, <1>6, <1>7 DEF t, n

LEMMA TailOccurs ==
  ASSUME NEW S, NEW s \in Seq(S), s # <<>>, NoRepeats(s)
  PROVE  /\ Head(s) \in S /\ Occurs(s, Head(s))
         /\ Tail(s) \in Seq(S) /\ NoRepeats(Tail(s))
         /\ \A x : Occurs(Tail(s), x) <=> Occurs(s, x) /\ x # Head(s)
<1>1. /\ Len(s) \in Nat /\ Len(s) >= 1 /\ DOMAIN s = 1 .. Len(s)
      /\ Head(s) = s[1] /\ Head(s) \in S
  BY LenProperties, HeadTailProperties, EmptySeq
<1>2. Tail(s) = SubSeq(s, 1 + 1, Len(s))
  BY TailIsSubSeq
<1>3. {s[j] : j \in 1 .. 1} = {s[1]} /\ 1 \in 0 .. Len(s)
  BY <1>1
<1>4. /\ SubSeq(s, 1 + 1, Len(s)) \in Seq(S)
      /\ NoRepeats(SubSeq(s, 1 + 1, Len(s)))
      /\ \A x : Occurs(SubSeq(s, 1 + 1, Len(s)), x) <=>
                 Occurs(s, x) /\ x \notin {s[j] : j \in 1 .. 1}
  BY <1>3, SubSeqOccurs
<1>5. Occurs(s, Head(s))
  BY <1>1 DEF Occurs
<1> QED BY <1>1, <1>2, <1>3, <1>4, <1>5

-----------------------------------------------------------------------------
(* Types.                                                                  *)

LEMMA RecordTypes ==
  /\ NoRequest \in Source /\ Request \subseteq Source
  /\ \A s \in {"absent"} \cup Unfinished \cup Terminal, b \in Source :
       [status |-> s, by |-> b] \in Entry
  /\ \A e \in Entry : e.status \in {"absent"} \cup Unfinished \cup Terminal /\ e.by \in Source
BY DEF Source, Entry

LEMMA TypeInit == Init => TypeOK
<1>1. [status |-> "absent", by |-> NoRequest] \in Entry
  BY RecordTypes
<1>2. [to |-> NoRequest, status |-> "none", by |-> NoRequest] \in Reply
  BY DEF Reply, Source
<1>3. <<>> \in Seq(Id) /\ <<>> \in Seq(Request)
  OBVIOUS
<1> QED BY <1>1, <1>2, <1>3 DEF Init, TypeOK, Source

LEMMA PutEffect ==
  ASSUME items \in [Id -> Entry], NEW i \in Id, NEW b \in Source,
         NEW s \in {"absent"} \cup Unfinished \cup Terminal, Put(i, s, b)
  PROVE  /\ items' \in [Id -> Entry]
         /\ items'[i] = [status |-> s, by |-> b]
         /\ items'[i].status = s /\ items'[i].by = b
         /\ \A j \in Id \ {i} : items'[j] = items[j]
<1>1. [status |-> s, by |-> b] \in Entry
  BY RecordTypes
<1> QED BY <1>1 DEF Put

LEMMA PutStatus ==
  ASSUME items \in [Id -> Entry], NEW r \in Request, NEW b \in Source,
         NEW s \in {"absent"} \cup Unfinished \cup Terminal, Put(IdOf[r], s, b)
  PROVE  /\ Status(r)' = s /\ items'[IdOf[r]].by = b
         /\ \A i \in Id \ {IdOf[r]} : items'[i] = items[i]
<1>1. IdOf[r] \in Id
  BY ServerAssumption
<1>2. /\ items'[IdOf[r]] = [status |-> s, by |-> b]
      /\ \A i \in Id \ {IdOf[r]} : items'[i] = items[i]
  BY <1>1 DEF Put
<1> QED BY <1>2 DEF Status

(* What a cleanup leaves of the registry.                                  *)
LEMMA CleanupEffect ==
  ASSUME TypeOK, CleanupList, NEW k \in 0 .. Len(finished), Cleanup(k)
  PROVE  /\ items' \in [Id -> Entry] /\ finished' \in Seq(Id)
         /\ CleanupList'
         /\ \A i \in Id : \/ items'[i] = items[i]
                          \/ /\ items'[i] = [status |-> "absent", by |-> NoRequest]
                             /\ items[i].status \in Terminal
                             /\ \A r \in Request : Engaged(r) /\ IdOf[r] = i => r \in forgotten'
         /\ forgotten \subseteq forgotten' /\ forgotten' \subseteq Request
<1> DEFINE expired == {finished[j] : j \in 1 .. k}
           gone == [status |-> "absent", by |-> NoRequest]
<1>1. /\ finished \in Seq(Id) /\ NoRepeats(finished)
      /\ \A i \in Id : Occurs(finished, i) <=> items[i].status \in Terminal
  BY DEF TypeOK, CleanupList, NoRepeats, Occurs
<1>2. /\ finished' \in Seq(Id) /\ NoRepeats(finished')
      /\ \A i : Occurs(finished', i) <=> Occurs(finished, i) /\ i \notin expired
  BY <1>1, SubSeqOccurs DEF Cleanup
<1>3. \A i \in expired : Occurs(finished, i)
  BY <1>1, LenProperties DEF Occurs
<1>4. /\ items' = [i \in Id |-> IF i \in expired THEN gone ELSE items[i]]
      /\ forgotten' = forgotten \cup {r \in Request : IdOf[r] \in expired /\ Engaged(r)}
  BY DEF Cleanup
<1> HIDE DEF expired
<1>5. items' \in [Id -> Entry]
  BY <1>4 DEF TypeOK, Entry, Source
<1>6. \A i \in Id : items'[i].status \in Terminal <=>
                      items[i].status \in Terminal /\ i \notin expired
  BY <1>4 DEF Terminal
<1>7. CleanupList'
  BY <1>1, <1>2, <1>6 DEF CleanupList, Occurs, NoRepeats
<1> QED BY <1>1, <1>2, <1>3, <1>4, <1>5, <1>7 DEF TypeOK

LEMMA TypeStep ==
  ASSUME TypeOK, CleanupList, [Next]_vars, \A w \in Busy : task[w] \in Request
  PROVE  TypeOK'
<1> USE ServerAssumption DEF TypeOK
<1>1. ASSUME NEW r \in Request, Submit(r) PROVE TypeOK'
  <2>1. items' \in [Id -> Entry] /\ finished' \in Seq(Id) /\ forgotten' \subseteq Request
    BY <1>1, CleanupEffect DEF Submit
  <2> QED BY <1>1, <2>1 DEF Submit, Leave, Goto, workerVars
<1>2. ASSUME NEW r \in Request, Create(r) PROVE TypeOK'
  <2>1. CASE Status(r) = "absent" /\ Put(IdOf[r], "pending", NoRequest)
    <3>1. items' \in [Id -> Entry]
      BY <2>1, PutEffect, RecordTypes DEF Unfinished
    <3> QED BY <1>2, <2>1, <3>1 DEF Create, Goto, Leave, Put, workerVars
  <2>2. CASE Leave(r, "create") /\ UNCHANGED <<items, unreported>>
    BY <1>2, <2>2 DEF Create, Leave, Goto, workerVars
  <2> QED BY <1>2, <2>1, <2>2 DEF Create
<1>3. ASSUME NEW r \in Request, Enqueue(r) PROVE TypeOK'
  BY <1>3, AppendProperties DEF Enqueue, Goto, registryVars, workerVars
<1>4. ASSUME NEW r \in Request, Ensure(r) PROVE TypeOK'
  BY <1>4 DEF Ensure, Goto, registryVars, workerVars
<1>5. ASSUME NEW r \in Request, StartWorker(r) PROVE TypeOK'
  BY <1>5 DEF StartWorker, Goto, Source, registryVars, workerVars
<1>6. ASSUME NEW r \in Request, Report(r) PROVE TypeOK'
  <2>1. items[IdOf[r]].by \in Source
    BY RecordTypes
  <2>2. reply' \in Reply /\ pc' = [pc EXCEPT ![r] = "done"]
    BY <1>6, <2>1 DEF Report, Answer, Leave, Goto, Reply, Source
  <2> QED BY <1>6, <2>2 DEF Report, registryVars, workerVars
<1>7. ASSUME NEW r \in Request, TimeOut(r) PROVE TypeOK'
  BY <1>7 DEF TimeOut, Leave, Goto, registryVars, workerVars
<1>8. ASSUME NEW w \in Request, Poll(w) \/ Lookup(w) \/ Execute(w) PROVE TypeOK'
  BY <1>8 DEF Poll, Lookup, Execute, Step, registryVars
<1>9. ASSUME NEW w \in Request, Dequeue(w) PROVE TypeOK'
  <2>1. queue # <<>> => Head(queue) \in Request /\ Tail(queue) \in Seq(Request)
    BY HeadTailProperties
  <2>2. CASE queue = <<>>
    BY <1>9, <2>2 DEF Dequeue, Step, registryVars
  <2>3. CASE queue # <<>>
    <3>1. task' = [task EXCEPT ![w] = Head(queue)] /\ Head(queue) \in Source
      BY <1>9, <2>1, <2>3 DEF Dequeue, Source
    <3> QED BY <1>9, <2>1, <2>3, <3>1 DEF Dequeue, Step, registryVars
  <2> QED BY <2>2, <2>3
<1>10. ASSUME NEW w \in Request, StartTask(w) PROVE TypeOK'
  <2>1. IdOf[task[w]] \in Id /\ "running" \in Unfinished
    BY <1>10 DEF StartTask, Busy, Unfinished
  <2>2. Put(IdOf[task[w]], "running", NoRequest) => items' \in [Id -> Entry]
    BY <2>1, PutEffect, RecordTypes
  <2>3. items' \in [Id -> Entry]
    BY <1>10, <2>2 DEF StartTask
  <2>4. task' \in [Request -> Source] /\ loop' \in [Request ->
           {"unborn", "top", "fetch", "lookup", "start", "execute", "complete", "fail", "dead"}]
    BY <1>10 DEF StartTask, Step, Forget, Source
  <2> QED BY <1>10, <2>3, <2>4 DEF StartTask, Put
<1>11. ASSUME NEW w \in Request, NEW here \in {"complete", "fail"},
              NEW s \in {"completed", "failed"}, Record(w, here, s)
       PROVE  TypeOK'
  <2>1. task[w] \in Request /\ IdOf[task[w]] \in Id /\ s \in Terminal
    BY <1>11 DEF Record, Step, Busy, Terminal
  <2>2. items' \in [Id -> Entry]
    BY <1>11, <2>1, PutEffect, RecordTypes DEF Record, registryVars
  <2>3. finished' \in Seq(Id)
    <3>1. Append(finished, IdOf[task[w]]) \in Seq(Id)
      BY <2>1, AppendProperties
    <3> QED BY <1>11, <3>1 DEF Record, registryVars
  <2>4. unreported' \subseteq Id
    BY <1>11 DEF Record, Put, registryVars
  <2> QED BY <1>11, <2>2, <2>3, <2>4, RecordTypes DEF Record, Step, Forget
<1>15. ASSUME NEW w \in Request, FailUnreported(w) PROVE TypeOK'
  <2>1. task[w] \in Request /\ IdOf[task[w]] \in Id
    BY <1>15 DEF FailUnreported, Step, Busy
  <2> QED BY <1>15, <2>1, RecordTypes DEF FailUnreported, Step, Forget
<1>12. ASSUME NEW i \in Id, Cancel(i) PROVE TypeOK'
  <2>1. items' \in [Id -> Entry]
    BY <1>12, PutEffect, RecordTypes DEF Cancel, Terminal
  <2> QED BY <1>12, <2>1, AppendProperties DEF Cancel, Put, workerVars
<1>13. ASSUME Stop PROVE TypeOK'
  BY <1>13 DEF Stop, registryVars
<1>14. ASSUME UNCHANGED vars PROVE TypeOK'
  BY <1>14 DEF vars, registryVars, workerVars
<1> QED BY <1>1, <1>2, <1>3, <1>4, <1>5, <1>6, <1>7, <1>8, <1>9, <1>10, <1>11, <1>12,
           <1>13, <1>14, <1>15 DEF Next, Serve, Work, Complete, Fail

-----------------------------------------------------------------------------
(* Places.                                                                 *)

LEMMA QueuedOccurs == \A r : (Queued(r) <=> Occurs(queue, r)) /\ (Queued(r)' <=> Occurs(queue', r))
BY DEF Queued, Occurs

(* What the steps of a connection thread leave alone.                      *)
LEMMA SameQueue ==
  ASSUME UNCHANGED queue
  PROVE  /\ \A r : Queued(r)' <=> Queued(r)
         /\ NoRepeats(queue)' <=> NoRepeats(queue)
BY DEF Queued, NoRepeats

LEMMA SameHands ==
  ASSUME UNCHANGED <<loop, task>>
  PROVE  Busy' = Busy /\ \A w, r : Holds(w, r)' <=> Holds(w, r)
BY DEF Busy, Holds

LEMMA PlaceInit == Init => PlaceInv
<1> SUFFICES ASSUME Init PROVE PlaceInv
  OBVIOUS
<1>1. Busy = {} /\ DOMAIN queue = {}
  BY DEF Init, Busy
<1> QED BY <1>1 DEF Init, PlaceInv, OnePlace, Working, Holds, Queued, Occurs, NoRepeats

LEMMA PlaceStep ==
  ASSUME TypeOK, TypeOK', PlaceInv, [Next]_vars
  PROVE  PlaceInv'
<1> USE DEF PlaceInv, OnePlace, Working
<1>1. ASSUME NEW r \in Request, Submit(r) \/ Create(r) \/ Ensure(r) \/ Report(r) \/ TimeOut(r)
      PROVE  PlaceInv'
  <2>1. UNCHANGED <<queue, loop, task>>
    BY <1>1 DEF Submit, Create, Ensure, Report, TimeOut, registryVars, workerVars
  <2>2. /\ \A q \in Request \ {r} : pc'[q] = pc[q]
        /\ \/ pc[r] = "idle" /\ pc'[r] \in {"create", "done"}
           \/ pc[r] = "create" /\ pc'[r] \in {"enqueue", "done"}
           \/ pc[r] = "ensure" /\ pc'[r] \in {"wait", "start"}
           \/ pc[r] = "wait" /\ pc'[r] = "done"
    BY <1>1 DEF Submit, Create, Ensure, Report, TimeOut, Goto, Answer, Leave, TypeOK
  <2> QED BY <2>1, <2>2, SameQueue, SameHands
<1>2. ASSUME NEW r \in Request, Enqueue(r) PROVE PlaceInv'
  <2>1. /\ UNCHANGED <<loop, task>> /\ ~Queued(r)
        /\ \A q \in Request \ {r} : pc'[q] = pc[q]
        /\ pc[r] = "enqueue" /\ pc'[r] = "ensure"
    BY <1>2 DEF Enqueue, Goto, TypeOK, workerVars
  <2>2. /\ \A x : Queued(x)' <=> Queued(x) \/ x = r
        /\ NoRepeats(queue)'
    BY <1>2, <2>1, AppendOccurs, QueuedOccurs DEF Enqueue, TypeOK
  <2> QED BY <2>1, <2>2, SameHands
<1>3. ASSUME NEW r \in Request, StartWorker(r) PROVE PlaceInv'
  <2>1. /\ UNCHANGED <<queue, task>>
        /\ \A q \in Request \ {r} : pc'[q] = pc[q] /\ loop'[q] = loop[q]
        /\ pc[r] = "start" /\ pc'[r] = "wait" /\ loop[r] = "unborn"
        /\ loop'[r] \in {"unborn", "top"}
    BY <1>3 DEF StartWorker, Goto, TypeOK, workerVars
  <2>2. Busy' = Busy
    BY <2>1 DEF Busy, TypeOK
  <2>3. \A w, q : Holds(w, q)' <=> Holds(w, q)
    BY <2>1, <2>2 DEF Holds
  <2> QED BY <2>1, <2>2, <2>3, SameQueue
<1>4. ASSUME NEW w \in Request, Dequeue(w), queue # <<>> PROVE PlaceInv'
  <2>1. /\ UNCHANGED pc
        /\ \A v \in Request \ {w} : loop'[v] = loop[v] /\ task'[v] = task[v]
        /\ loop[w] = "fetch" /\ loop'[w] = "lookup" /\ task'[w] = Head(queue)
        /\ queue' = Tail(queue)
    BY <1>4 DEF Dequeue, Step, TypeOK
  <2>2. /\ Queued(Head(queue)) /\ Head(queue) \in Request
        /\ \A x : Queued(x)' <=> Queued(x) /\ x # Head(queue)
        /\ NoRepeats(queue)'
    BY <1>4, <2>1, TailOccurs, QueuedOccurs DEF TypeOK
  <2>3. Busy' = Busy \cup {w} /\ w \notin Busy
    BY <2>1 DEF Busy, TypeOK
  <2>4. /\ \A v \in Request \ {w} : \A q : Holds(v, q)' <=> Holds(v, q)
        /\ \A q : Holds(w, q)' <=> q = Head(queue)
    BY <2>1, <2>3 DEF Holds
  <2>5. OnePlace'
    <3>1. \A v, q \in Request : Holds(v, q) => q # Head(queue)
      BY <2>2
    <3>2. \A v, u, q \in Request : (Holds(v, q) /\ Holds(u, q))' => v = u
      BY <2>4, <3>1
    <3>3. \A q, v \in Request :
            Holds(v, q)' => ~Queued(q)' /\ pc'[q] \notin {"idle", "create", "enqueue"}
      BY <2>1, <2>2, <2>4
    <3> QED BY <2>1, <2>2, <3>2, <3>3
  <2>6. Working'
    <3>1. \A v \in Busy' : task'[v] \in Request
      BY <2>1, <2>2, <2>3 DEF Busy
    <3>2. \A q \in Request :
            pc'[q] \in {"idle", "create", "enqueue", "ensure", "start"} => loop'[q] = "unborn"
      BY <2>1
    <3> QED BY <3>1, <3>2
  <2> QED BY <2>5, <2>6
<1>5. ASSUME NEW w \in Request,
             (Dequeue(w) /\ queue = <<>>) \/ Poll(w) \/ Lookup(w) \/ StartTask(w)
               \/ Execute(w) \/ Complete(w) \/ Fail(w)
      PROVE  PlaceInv'
  <2>1. /\ UNCHANGED <<queue, pc>>
        /\ \A v \in Request \ {w} : loop'[v] = loop[v] /\ task'[v] = task[v]
        /\ loop[w] # "unborn"
        /\ \/ loop[w] \in {"top", "fetch"} /\ loop'[w] \in {"top", "fetch", "dead"}
           \/ loop[w] \in {"lookup", "start", "execute", "complete", "fail"} /\ loop'[w] = "top"
           \/ /\ loop[w] \in {"lookup", "start", "execute", "complete", "fail"}
              /\ loop'[w] \in {"lookup", "start", "execute", "complete", "fail"}
              /\ task'[w] = task[w]
    BY <1>5 DEF Dequeue, Poll, Lookup, StartTask, Execute, Complete, Fail, FailUnreported, Record,
            Step, Forget, TypeOK
  <2>2. Busy' \subseteq Busy /\ \A v, q : Holds(v, q)' => Holds(v, q)
    BY <2>1 DEF Busy, Holds, TypeOK
  <2>3. \A v \in Busy' : task'[v] \in Request
    BY <2>1, <2>2 DEF Busy
  <2> QED BY <2>1, <2>2, <2>3, SameQueue
<1>6. ASSUME UNCHANGED <<queue, loop, task, pc>> PROVE PlaceInv'
  BY <1>6, SameQueue, SameHands
<1>7. (\E i \in Id : Cancel(i)) \/ Stop \/ UNCHANGED vars => UNCHANGED <<queue, loop, task, pc>>
  BY DEF Cancel, Stop, vars, workerVars
<1> QED BY <1>1, <1>2, <1>3, <1>4, <1>5, <1>6, <1>7 DEF Next, Serve, Work

-----------------------------------------------------------------------------
(* The list that the cleanup reads.                                        *)

LEMMA CleanupStep ==
  ASSUME TypeOK, PlaceInv, CleanupList, [Next]_vars
  PROVE  CleanupList'
<1> items \in [Id -> Entry] /\ NoRequest \in Source /\ Request \subseteq Source
  BY RecordTypes DEF TypeOK
<1>0. /\ finished \in Seq(Id) /\ NoRepeats(finished)
      /\ \A i \in Id : Occurs(finished, i) <=> items[i].status \in Terminal
  BY DEF TypeOK, CleanupList, NoRepeats, Occurs
<1>1. ASSUME NEW i \in Id, items[i].status \in Unfinished, NEW b \in Source, NEW s \in Terminal,
             Put(i, s, b), finished' = Append(finished, i)
      PROVE  CleanupList'
  <2>1. /\ items'[i].status = s
        /\ \A j \in Id \ {i} : items'[j] = items[j]
    BY <1>1, PutEffect
  <2>2. ~Occurs(finished, i)
    BY <1>0, <1>1 DEF Unfinished, Terminal
  <2>3. /\ \A x : Occurs(finished', x) <=> Occurs(finished, x) \/ x = i
        /\ NoRepeats(finished')
    BY <1>0, <1>1, <2>2, AppendOccurs
  <2>4. \A j \in Id : Occurs(finished', j) <=> items'[j].status \in Terminal
    BY <1>0, <1>1, <2>1, <2>3
  <2> QED BY <2>3, <2>4 DEF CleanupList, NoRepeats, Occurs
<1>2. ASSUME NEW i \in Id, items[i].status \notin Terminal, NEW s \in Unfinished,
             Put(i, s, NoRequest), UNCHANGED finished
      PROVE  CleanupList'
  <2>1. /\ items'[i].status = s
        /\ \A j \in Id \ {i} : items'[j] = items[j]
    BY <1>2, PutEffect
  <2>2. \A j \in Id : Occurs(finished, j) <=> items'[j].status \in Terminal
    BY <1>0, <1>2, <2>1 DEF Unfinished, Terminal
  <2> QED BY <1>0, <1>2, <2>2 DEF CleanupList, NoRepeats, Occurs
<1>3. ASSUME UNCHANGED <<items, finished>> PROVE CleanupList'
  BY <1>3 DEF CleanupList
<1>4. ASSUME NEW r \in Request, Submit(r) PROVE CleanupList'
  BY <1>4, CleanupEffect DEF Submit
<1>5. ASSUME NEW r \in Request, Create(r) PROVE CleanupList'
  BY <1>2, <1>3, <1>5, ServerAssumption DEF Create, Leave, Status, Unfinished, Terminal
<1>6. ASSUME NEW w \in Request, StartTask(w) PROVE CleanupList'
  <2>1. IdOf[task[w]] \in Id
    BY <1>6, ServerAssumption DEF StartTask, PlaceInv, Working, Busy
  <2> QED BY <1>2, <1>3, <1>6, <2>1 DEF StartTask, Status, Unfinished, Terminal
<1>7. ASSUME NEW w \in Request, NEW here \in {"complete", "fail"},
              NEW s \in {"completed", "failed"}, Record(w, here, s)
      PROVE  CleanupList'
  <2>1. task[w] \in Request /\ IdOf[task[w]] \in Id /\ s \in Terminal
    BY <1>7, ServerAssumption DEF Record, Step, PlaceInv, Working, Busy, Terminal
  <2> QED BY <1>1, <1>3, <1>7, <2>1 DEF Record, registryVars
<1>8. ASSUME NEW i \in Id, Cancel(i) PROVE CleanupList'
  BY <1>1, <1>8 DEF Cancel, Terminal
<1>11. ASSUME NEW w \in Request, FailUnreported(w) PROVE CleanupList'
  BY <1>3, <1>11 DEF FailUnreported
<1>9. ASSUME NEW r \in Request,
             \/ Enqueue(r) \/ Ensure(r) \/ StartWorker(r) \/ Report(r) \/ TimeOut(r)
             \/ Poll(r) \/ Dequeue(r) \/ Lookup(r) \/ Execute(r)
      PROVE  UNCHANGED <<items, finished>>
  BY <1>9 DEF Enqueue, Ensure, StartWorker, Report, TimeOut, Poll, Dequeue, Lookup, Execute,
              registryVars
<1>10. Stop \/ UNCHANGED vars => UNCHANGED <<items, finished>>
  BY DEF Stop, vars, registryVars
<1> QED BY <1>3, <1>4, <1>5, <1>6, <1>7, <1>8, <1>9, <1>10, <1>11
        DEF Next, Serve, Work, Complete, Fail

-----------------------------------------------------------------------------
(* No completion is lost.                                                  *)

LEMMA KeptStep ==
  ASSUME ServerInv, [Next]_vars
  PROVE  NoTaskLost'
<1> USE DEF ServerInv
<1> items \in [Id -> Entry] /\ NoRequest \in Source /\ Request \subseteq Source
  BY RecordTypes DEF TypeOK
<1>0. \A q \in Request : IdOf[q] \in Id
  BY ServerAssumption
<1> SUFFICES ASSUME NEW i \in Id
             PROVE  /\ items'[i].status = "pending" =>
                         \E r \in Request : IdOf[r] = i /\ OnItsWay(r)'
                    /\ items'[i].status = "running" =>
                         \/ \E w \in Request : InExecution(w)' /\ IdOf[task'[w]] = i
                         \/ i \in unreported'
  BY DEF NoTaskLost
<1> DEFINE Goal == /\ items'[i].status = "pending" =>
                        \E r \in Request : IdOf[r] = i /\ OnItsWay(r)'
                   /\ items'[i].status = "running" =>
                        \/ \E w \in Request : InExecution(w)' /\ IdOf[task'[w]] = i
                        \/ i \in unreported'
<1>1. /\ items[i].status = "pending" => \E r \in Request : IdOf[r] = i /\ OnItsWay(r)
      /\ items[i].status = "running" =>
           \/ \E w \in Request : InExecution(w) /\ IdOf[task[w]] = i
           \/ i \in unreported
  BY DEF NoTaskLost
<1>2. ASSUME items'[i].status \notin Unfinished PROVE Goal
  BY <1>2 DEF Unfinished
<1>3. ASSUME items'[i] = items[i], i \in unreported => i \in unreported',
             \A r \in Request : items[i].status = "pending" /\ IdOf[r] = i /\ OnItsWay(r) =>
                                 OnItsWay(r)',
             \A w \in Request :
               items[i].status = "running" /\ InExecution(w) /\ IdOf[task[w]] = i =>
               (InExecution(w)' /\ task'[w] = task[w]) \/ i \in unreported'
      PROVE  Goal
  BY <1>1, <1>3
<1> HIDE DEF Goal
<1>4. ASSUME items'[i] = items[i], i \in unreported => i \in unreported',
             UNCHANGED <<queue, loop, task>>,
             \A r \in Request : pc[r] = "enqueue" => pc'[r] = "enqueue"
      PROVE  Goal
  BY <1>3, <1>4, SameQueue DEF OnItsWay, InHand, InExecution
<1>5. ASSUME NEW r \in Request, Submit(r) PROVE Goal
  <2>1. /\ UNCHANGED <<queue, loop, task, unreported>>
        /\ \A q \in Request : pc[q] = "enqueue" => pc'[q] = "enqueue"
    BY <1>5 DEF Submit, Leave, Goto, workerVars, TypeOK
  <2>2. items'[i] = items[i] \/ items'[i].status = "absent"
    BY <1>5, CleanupEffect DEF Submit
  <2> QED BY <1>2, <1>4, <2>1, <2>2 DEF Unfinished
<1>6. ASSUME NEW r \in Request, Create(r) PROVE Goal
  <2>1. /\ UNCHANGED <<queue, loop, task>>
        /\ \A q \in Request : pc[q] = "enqueue" => pc'[q] = "enqueue"
    BY <1>6 DEF Create, Leave, Goto, workerVars, TypeOK
  <2>2. CASE Status(r) = "absent"
    <3>1. Put(IdOf[r], "pending", NoRequest) /\ pc'[r] = "enqueue"
      BY <1>6, <2>2 DEF Create, Goto, Leave, TypeOK
    <3>2. /\ items'[IdOf[r]].status = "pending"
          /\ \A j \in Id \ {IdOf[r]} : items'[j] = items[j]
      BY <3>1, PutStatus DEF Unfinished, Status
    <3>3. CASE i = IdOf[r]
      BY <3>1, <3>2, <3>3 DEF Goal, OnItsWay
    <3>4. CASE i # IdOf[r]
      BY <1>4, <2>1, <3>1, <3>2, <3>4 DEF Put
    <3> QED BY <3>3, <3>4
  <2>3. CASE Status(r) # "absent"
    BY <1>4, <1>6, <2>1, <2>3 DEF Create
  <2> QED BY <2>2, <2>3
<1>7. ASSUME NEW r \in Request, Enqueue(r) PROVE Goal
  <2>1. /\ UNCHANGED <<items, unreported, loop, task>>
        /\ \A q \in Request \ {r} : pc'[q] = pc[q]
    BY <1>7 DEF Enqueue, Goto, workerVars, registryVars, TypeOK
  <2>2. \A x \in Request : Queued(x)' <=> Queued(x) \/ x = r
    BY <1>7, AppendOccurs, QueuedOccurs DEF Enqueue, TypeOK
  <2> QED BY <1>3, <2>1, <2>2 DEF OnItsWay, InHand, InExecution
<1>8. ASSUME NEW r \in Request, Ensure(r) \/ StartWorker(r) \/ Report(r) \/ TimeOut(r)
      PROVE  Goal
  <2>1. /\ UNCHANGED <<queue, items, unreported, task>>
        /\ \A q \in Request : pc[q] = "enqueue" => pc'[q] = "enqueue"
    BY <1>8 DEF Ensure, StartWorker, Report, TimeOut, Goto, Answer, Leave, workerVars, registryVars,
                TypeOK
  <2>2. \A v \in Request : (InHand(v)' <=> InHand(v)) /\ (InExecution(v)' <=> InExecution(v))
    <3>1. CASE UNCHANGED loop
      BY <3>1 DEF InHand, InExecution
    <3>2. CASE StartWorker(r) /\ loop' = [loop EXCEPT ![r] = "top"]
      <4>1. loop[r] = "unborn"
        BY <3>2 DEF StartWorker, Goto, PlaceInv, Working
      <4> QED BY <3>2, <4>1 DEF InHand, InExecution, TypeOK
    <3> QED BY <1>8, <3>1, <3>2 DEF Ensure, StartWorker, Report, TimeOut, workerVars
  <2> QED BY <1>3, <2>1, <2>2, SameQueue DEF OnItsWay
<1>9. ASSUME NEW w \in Request, Dequeue(w) PROVE Goal
  <2>1. CASE queue = <<>>
    <3>1. /\ UNCHANGED <<pc, items, unreported, queue, task>>
          /\ \A v \in Request : (InHand(v)' <=> InHand(v)) /\ (InExecution(v)' <=> InExecution(v))
      BY <1>9, <2>1 DEF Dequeue, Step, registryVars, InHand, InExecution, TypeOK
    <3> QED BY <1>3, <3>1, SameQueue DEF OnItsWay
  <2>2. CASE queue # <<>>
    <3>1. /\ UNCHANGED <<pc, items, unreported>>
          /\ \A v \in Request \ {w} : loop'[v] = loop[v] /\ task'[v] = task[v]
          /\ loop[w] = "fetch" /\ loop'[w] = "lookup" /\ task'[w] = Head(queue)
          /\ queue' = Tail(queue)
      BY <1>9, <2>2 DEF Dequeue, Step, registryVars, TypeOK
    <3>2. \A x : Queued(x)' <=> Queued(x) /\ x # Head(queue)
      BY <2>2, <3>1, TailOccurs, QueuedOccurs DEF TypeOK, PlaceInv, OnePlace
    <3>3. \A v \in Request : InHand(v) => InHand(v)' /\ task'[v] = task[v]
      BY <3>1 DEF InHand
    <3>4. \A v \in Request : InExecution(v) => InExecution(v)' /\ task'[v] = task[v]
      BY <3>1 DEF InExecution
    <3>5. InHand(w)'
      BY <3>1 DEF InHand
    <3> QED BY <1>3, <3>1, <3>2, <3>3, <3>4, <3>5 DEF OnItsWay
  <2> QED BY <2>1, <2>2
<1>10. ASSUME NEW w \in Request, Poll(w) \/ Execute(w) PROVE Goal
  <2>1. /\ UNCHANGED <<pc, items, unreported, queue, task>>
        /\ \A v \in Request : (InHand(v)' <=> InHand(v)) /\ (InExecution(v)' <=> InExecution(v))
    BY <1>10 DEF Poll, Execute, Step, registryVars, InHand, InExecution, TypeOK
  <2> QED BY <1>3, <2>1, SameQueue DEF OnItsWay
<1>11. ASSUME NEW w \in Request, Lookup(w) PROVE Goal
  <2>1. /\ UNCHANGED <<pc, items, unreported, queue, task>>
        /\ \A v \in Request \ {w} : loop'[v] = loop[v]
        /\ loop[w] = "lookup"
        /\ loop'[w] = IF Status(task[w]) = "absent" THEN "execute" ELSE "start"
    BY <1>11 DEF Lookup, Step, registryVars, TypeOK
  <2>2. \A v \in Request : InExecution(v) => InExecution(v)'
    BY <2>1 DEF InExecution
  <2>3. \A v \in Request : InHand(v) /\ Status(task[v]) # "absent" => InHand(v)'
    BY <2>1 DEF InHand
  <2>4. ASSUME NEW r \in Request, items[i].status = "pending", IdOf[r] = i, OnItsWay(r)
        PROVE  OnItsWay(r)'
    BY <2>1, <2>3, <2>4, SameQueue DEF OnItsWay, Status
  <2> QED BY <1>3, <2>1, <2>2, <2>4
<1>12. ASSUME NEW w \in Request, StartTask(w) PROVE Goal
  <2>0. loop[w] = "start" /\ task[w] \in Request /\ IdOf[task[w]] \in Id
    BY <1>0, <1>12 DEF StartTask, PlaceInv, Working, Busy
  <2>1. /\ UNCHANGED <<pc, queue>>
        /\ \A v \in Request \ {w} : loop'[v] = loop[v] /\ task'[v] = task[v]
    BY <1>12 DEF StartTask, Step, Forget, TypeOK
  <2>2. /\ \A v \in Request \ {w} : (InHand(v)' <=> InHand(v))
                                      /\ (InExecution(v)' <=> InExecution(v))
        /\ InHand(w) /\ ~InExecution(w)
    BY <2>0, <2>1 DEF InHand, InExecution
  <2>3. CASE Status(task[w]) = "pending"
    <3>1. /\ Put(IdOf[task[w]], "running", NoRequest)
          /\ loop'[w] = "execute" /\ task'[w] = task[w]
      BY <1>12, <2>3 DEF StartTask, Step, TypeOK
    <3>2. /\ items'[IdOf[task[w]]].status = "running"
          /\ \A j \in Id \ {IdOf[task[w]]} : items'[j] = items[j]
      BY <2>0, <3>1, PutStatus DEF Unfinished, Status
    <3>3. InExecution(w)'
      BY <3>1 DEF InExecution
    <3>4. CASE i = IdOf[task[w]]
      BY <3>1, <3>2, <3>3, <3>4 DEF Goal
    <3>5. CASE i # IdOf[task[w]]
      <4>1. i \in unreported => i \in unreported'
        BY <3>1, <3>5 DEF Put
      <4>2. \A r \in Request : IdOf[r] = i /\ OnItsWay(r) => OnItsWay(r)'
        BY <2>1, <2>2, <3>5, SameQueue DEF OnItsWay
      <4> QED BY <1>3, <2>1, <2>2, <3>2, <3>5, <4>1, <4>2
    <3> QED BY <3>4, <3>5
  <2>4. CASE Status(task[w]) # "pending"
    <3>1. UNCHANGED <<items, unreported>>
      BY <1>12, <2>4 DEF StartTask
    <3>2. \A r \in Request :
            items[i].status = "pending" /\ IdOf[r] = i /\ OnItsWay(r) => OnItsWay(r)'
      BY <2>1, <2>2, <2>4, SameQueue DEF OnItsWay, Status
    <3> QED BY <1>3, <2>1, <2>2, <3>1, <3>2
  <2> QED BY <2>3, <2>4
<1>13. ASSUME NEW w \in Request, NEW here \in {"complete", "fail"},
              NEW s \in {"completed", "failed"}, Record(w, here, s) \/ FailUnreported(w)
       PROVE  Goal
  <2>1. task[w] \in Request /\ IdOf[task[w]] \in Id /\ s \in Terminal
        /\ loop[w] \in {"complete", "fail"}
    BY <1>0, <1>13 DEF Record, FailUnreported, Step, PlaceInv, Working, Busy, Terminal
  <2>2. /\ UNCHANGED <<pc, queue>>
        /\ \A v \in Request \ {w} : loop'[v] = loop[v] /\ task'[v] = task[v]
    BY <1>13 DEF Record, FailUnreported, Step, Forget, TypeOK
  <2>3. /\ \A v \in Request \ {w} : (InHand(v)' <=> InHand(v))
                                      /\ (InExecution(v)' <=> InExecution(v))
        /\ ~InHand(w)
    BY <2>1, <2>2 DEF InHand, InExecution
  <2>4. \A r \in Request : OnItsWay(r) => OnItsWay(r)'
    BY <2>2, <2>3, SameQueue DEF OnItsWay
  <2>5. CASE i # IdOf[task[w]]
    <3>1. items'[i] = items[i] /\ (i \in unreported => i \in unreported')
      BY <1>13, <2>1, <2>5, PutEffect DEF Record, FailUnreported, Put, registryVars
    <3> QED BY <1>3, <2>2, <2>3, <2>4, <2>5, <3>1
  <2>6. CASE i = IdOf[task[w]] /\ Record(w, here, s) /\ items[i].status \in Unfinished
    <3>1. items'[i].status = s
      BY <2>1, <2>6, PutStatus DEF Record, Status
    <3> QED BY <1>2, <2>1, <3>1 DEF Unfinished, Terminal
  <2>7. CASE i = IdOf[task[w]] /\ Record(w, here, s) /\ items[i].status \notin Unfinished
    <3>1. items' = items
      BY <2>7 DEF Record, registryVars
    <3> QED BY <1>2, <2>7, <3>1
  <2>8. CASE i = IdOf[task[w]] /\ FailUnreported(w)
    <3>1. /\ items' = items
          /\ i \in unreported => i \in unreported'
          /\ items[i].status = "running" => i \in unreported'
      BY <2>8 DEF FailUnreported
    <3> QED BY <1>3, <2>2, <2>4, <3>1
  <2> QED BY <1>13, <2>5, <2>6, <2>7, <2>8
<1>14. ASSUME NEW j \in Id, Cancel(j) PROVE Goal
  <2>1. UNCHANGED <<queue, loop, task, pc>> /\ Put(j, "cancelled", NoRequest)
    BY <1>14 DEF Cancel, workerVars
  <2>2. /\ items'[j].status = "cancelled"
        /\ \A k \in Id \ {j} : items'[k] = items[k]
    BY <2>1, PutEffect DEF Terminal
  <2>3. CASE i = j
    BY <1>2, <2>2, <2>3 DEF Unfinished
  <2>4. CASE i # j
    BY <1>4, <2>1, <2>2, <2>4 DEF Put
  <2> QED BY <2>3, <2>4
<1>15. ASSUME Stop \/ UNCHANGED vars PROVE Goal
  <2>1. UNCHANGED <<queue, loop, task, pc, items, unreported>>
    BY <1>15 DEF Stop, vars, registryVars, workerVars
  <2> QED BY <1>4, <2>1
<1> QED BY <1>5, <1>6, <1>7, <1>8, <1>9, <1>10, <1>11, <1>12, <1>13, <1>14, <1>15
        DEF Next, Serve, Work, Complete, Fail, Goal

-----------------------------------------------------------------------------
(* Entries                                                                 *)

LEMMA OnItsWayEngaged == \A r \in Request : OnItsWay(r) => Engaged(r)
BY DEF OnItsWay, Engaged, InHand, Busy

(* A request becomes engaged by creating its entry and in no other way.    *)
LEMMA EngagedStep ==
  ASSUME TypeOK, PlaceInv, [Next]_vars, NEW q \in Request, Engaged(q)'
  PROVE  Engaged(q) \/ (Create(q) /\ Status(q) = "absent")
<1>1. /\ Engaged(q) <=> pc[q] \in Waiting \/ Queued(q) \/ \E w \in Request : Holds(w, q)
      /\ Engaged(q)' <=> pc'[q] \in Waiting \/ Queued(q)' \/ \E w \in Request : Holds(w, q)'
  BY DEF Engaged, Waiting, Holds, Busy
<1>2. ASSUME NEW r \in Request, Submit(r) \/ Create(r) \/ Ensure(r) \/ Report(r) \/ TimeOut(r)
      PROVE  Engaged(q) \/ (Create(q) /\ Status(q) = "absent")
  <2>1. UNCHANGED <<queue, loop, task>>
    BY <1>2 DEF Submit, Create, Ensure, Report, TimeOut, registryVars, workerVars
  <2>2. pc'[q] \in Waiting => pc[q] \in Waiting \/ (Create(q) /\ Status(q) = "absent")
    <3>1. CASE q # r
      BY <1>2, <3>1 DEF Submit, Create, Ensure, Report, TimeOut, Goto, Answer, Leave, TypeOK
    <3>2. CASE q = r
      BY <1>2, <3>2 DEF Submit, Create, Ensure, Report, TimeOut, Goto, Answer, Leave, TypeOK,
                      Waiting
    <3> QED BY <3>1, <3>2
  <2> QED BY <1>1, <2>1, <2>2, SameQueue, SameHands
<1>3. ASSUME NEW r \in Request, Enqueue(r) PROVE Engaged(q)
  <2>1. /\ UNCHANGED <<loop, task>>
        /\ pc[r] = "enqueue" /\ \A x \in Request \ {r} : pc'[x] = pc[x]
    BY <1>3 DEF Enqueue, Goto, workerVars, TypeOK
  <2>2. \A x : Queued(x)' <=> Queued(x) \/ x = r
    BY <1>3, AppendOccurs, QueuedOccurs DEF Enqueue, TypeOK
  <2> QED BY <1>1, <2>1, <2>2, SameHands DEF Waiting
<1>4. ASSUME NEW r \in Request, StartWorker(r) PROVE Engaged(q)
  <2>1. /\ UNCHANGED <<queue, task>>
        /\ \A x \in Request \ {r} : pc'[x] = pc[x] /\ loop'[x] = loop[x]
        /\ pc[r] = "start" /\ loop[r] = "unborn"
        /\ loop'[r] \in {"unborn", "top"}
    BY <1>4 DEF StartWorker, Goto, TypeOK, workerVars, PlaceInv, Working
  <2>2. Busy' = Busy
    BY <2>1 DEF Busy
  <2>3. \A w : Holds(w, q)' <=> Holds(w, q)
    BY <2>1, <2>2 DEF Holds
  <2> QED BY <1>1, <2>1, <2>3, SameQueue DEF Waiting
<1>5. ASSUME NEW w \in Request, Dequeue(w), queue # <<>> PROVE Engaged(q)
  <2>1. /\ UNCHANGED pc
        /\ \A v \in Request \ {w} : loop'[v] = loop[v] /\ task'[v] = task[v]
        /\ task'[w] = Head(queue) /\ queue' = Tail(queue)
    BY <1>5 DEF Dequeue, Step, TypeOK
  <2>2. Queued(Head(queue)) /\ \A x : Queued(x)' => Queued(x)
    BY <1>5, <2>1, TailOccurs, QueuedOccurs DEF TypeOK, PlaceInv, OnePlace
  <2>3. \A v \in Request : Holds(v, q)' => Holds(v, q) \/ q = Head(queue)
    BY <2>1 DEF Holds, Busy
  <2> QED BY <1>1, <2>1, <2>2, <2>3
<1>6. ASSUME NEW w \in Request,
             (Dequeue(w) /\ queue = <<>>) \/ Poll(w) \/ Lookup(w) \/ StartTask(w)
               \/ Execute(w) \/ Complete(w) \/ Fail(w)
      PROVE  Engaged(q)
  <2>1. /\ UNCHANGED <<queue, pc>>
        /\ \A v \in Request \ {w} : loop'[v] = loop[v] /\ task'[v] = task[v]
        /\ \/ loop'[w] \in {"top", "fetch", "dead"}
           \/ loop[w] \in {"lookup", "start", "execute", "complete", "fail"} /\ task'[w] = task[w]
    BY <1>6 DEF Dequeue, Poll, Lookup, StartTask, Execute, Complete, Fail, FailUnreported, Record,
                Step, Forget, TypeOK
  <2>2. \A v \in Request : Holds(v, q)' => Holds(v, q)
    BY <2>1 DEF Busy, Holds
  <2> QED BY <1>1, <2>1, <2>2, SameQueue
<1>7. ASSUME UNCHANGED <<queue, loop, task, pc>> PROVE Engaged(q)
  BY <1>1, <1>7, SameQueue, SameHands
<1>8. (\E i \in Id : Cancel(i)) \/ Stop \/ UNCHANGED vars => UNCHANGED <<queue, loop, task, pc>>
  BY DEF Cancel, Stop, vars, workerVars
<1> QED BY <1>2, <1>3, <1>4, <1>5, <1>6, <1>7, <1>8 DEF Next, Serve, Work

(* What a step may do to an entry.                                         *)
Gone(i) ==
  /\ items[i].status \in Terminal
  /\ items'[i].status = "absent" /\ items'[i].by = NoRequest
  /\ \A r \in Request : Engaged(r) /\ IdOf[r] = i => r \in forgotten'

Made(i) ==
  /\ items[i].status = "absent"
  /\ items'[i].status = "pending" /\ items'[i].by = NoRequest

Moved(i) ==
  /\ items[i].status \in Unfinished
  /\ items'[i].status \in {"running", "cancelled"} /\ items'[i].by = NoRequest

Ended(i) ==
  /\ items[i].status \in Unfinished
  /\ items'[i].status \in {"completed", "failed"}
  /\ \E r \in Request : Engaged(r) /\ IdOf[r] = i /\ items'[i].by = r

LEMMA EntryEffect ==
  ASSUME ServerInv, [Next]_vars
  PROVE  /\ forgotten \subseteq forgotten'
         /\ \A i \in Id : items'[i] = items[i] \/ Gone(i) \/ Made(i) \/ Moved(i) \/ Ended(i)
<1> USE DEF ServerInv
<1> items \in [Id -> Entry] /\ NoRequest \in Source /\ Request \subseteq Source
  BY RecordTypes DEF TypeOK
<1>0. \A q \in Request : IdOf[q] \in Id
  BY ServerAssumption
<1> DEFINE Effect == /\ forgotten \subseteq forgotten'
                     /\ \A i \in Id : \/ items'[i] = items[i]
                                      \/ Gone(i) \/ Made(i) \/ Moved(i) \/ Ended(i)
<1>1. ASSUME NEW r \in Request, Submit(r) PROVE Effect
  BY <1>1, CleanupEffect DEF Submit, Gone
<1>2. ASSUME NEW r \in Request, Create(r) PROVE Effect
  <2>1. CASE Status(r) = "absent"
    <3>1. Put(IdOf[r], "pending", NoRequest) /\ UNCHANGED forgotten
      BY <1>2, <2>1 DEF Create
    <3>2. /\ items'[IdOf[r]].status = "pending" /\ items'[IdOf[r]].by = NoRequest
          /\ \A j \in Id \ {IdOf[r]} : items'[j] = items[j]
      BY <3>1, PutStatus DEF Unfinished, Status
    <3> QED BY <1>0, <2>1, <3>1, <3>2 DEF Made, Status
  <2>2. CASE Status(r) # "absent"
    BY <1>2, <2>2 DEF Create
  <2> QED BY <2>1, <2>2
<1>3. ASSUME NEW w \in Request, StartTask(w) PROVE Effect
  <2>1. task[w] \in Request
    BY <1>3 DEF StartTask, PlaceInv, Working, Busy
  <2>2. CASE Status(task[w]) = "pending"
    <3>1. Put(IdOf[task[w]], "running", NoRequest) /\ UNCHANGED forgotten
      BY <1>3, <2>2 DEF StartTask
    <3>2. /\ items'[IdOf[task[w]]].status = "running" /\ items'[IdOf[task[w]]].by = NoRequest
          /\ \A j \in Id \ {IdOf[task[w]]} : items'[j] = items[j]
      BY <2>1, <3>1, PutStatus DEF Unfinished, Status
    <3> QED BY <1>0, <2>1, <2>2, <3>1, <3>2 DEF Moved, Status, Unfinished
  <2>3. CASE Status(task[w]) # "pending"
    BY <1>3, <2>3 DEF StartTask
  <2> QED BY <2>2, <2>3
<1>4. ASSUME NEW w \in Request, NEW here \in {"complete", "fail"},
             NEW s \in {"completed", "failed"}, Record(w, here, s)
      PROVE  Effect
  <2>1. task[w] \in Request /\ IdOf[task[w]] \in Id /\ s \in Terminal /\ Engaged(task[w])
    BY <1>0, <1>4 DEF Record, Step, PlaceInv, Working, Busy, Terminal, Engaged
  <2>2. CASE items[IdOf[task[w]]].status \in Unfinished
    <3>1. Put(IdOf[task[w]], s, task[w]) /\ UNCHANGED forgotten
      BY <1>4, <2>2 DEF Record
    <3>2. /\ items'[IdOf[task[w]]].status = s /\ items'[IdOf[task[w]]].by = task[w]
          /\ \A j \in Id \ {IdOf[task[w]]} : items'[j] = items[j]
      BY <2>1, <3>1, PutStatus DEF Status
    <3> QED BY <2>1, <2>2, <3>1, <3>2 DEF Ended
  <2>3. CASE items[IdOf[task[w]]].status \notin Unfinished
    BY <1>4, <2>3 DEF Record, registryVars
  <2> QED BY <2>2, <2>3
<1>5. ASSUME NEW j \in Id, Cancel(j) PROVE Effect
  <2>1. Put(j, "cancelled", NoRequest) /\ items[j].status \in Unfinished /\ UNCHANGED forgotten
    BY <1>5 DEF Cancel
  <2>2. /\ items'[j].status = "cancelled" /\ items'[j].by = NoRequest
        /\ \A k \in Id \ {j} : items'[k] = items[k]
    BY <2>1, PutEffect DEF Terminal
  <2> QED BY <2>1, <2>2 DEF Moved
<1>6. ASSUME UNCHANGED <<items, forgotten>> PROVE Effect
  BY <1>6
<1>7. ASSUME NEW r \in Request,
             \/ Enqueue(r) \/ Ensure(r) \/ StartWorker(r) \/ Report(r) \/ TimeOut(r)
             \/ Poll(r) \/ Dequeue(r) \/ Lookup(r) \/ Execute(r) \/ FailUnreported(r)
      PROVE  UNCHANGED <<items, forgotten>>
  BY <1>7 DEF Enqueue, Ensure, StartWorker, Report, TimeOut, Poll, Dequeue, Lookup, Execute,
              FailUnreported, registryVars
<1>8. Stop \/ UNCHANGED vars => UNCHANGED <<items, forgotten>>
  BY DEF Stop, vars, registryVars
<1> HIDE DEF Effect
<1>9. Effect
  BY <1>1, <1>2, <1>3, <1>4, <1>5, <1>6, <1>7, <1>8 DEF Next, Serve, Work, Complete, Fail
<1> QED BY <1>9 DEF Effect

LEMMA EntryInit == Init => EntryInv
<1> SUFFICES ASSUME Init PROVE EntryInv
  OBVIOUS
<1>1. \A r \in Request : ~Engaged(r)
  BY DEF Init, Engaged, Queued, Busy
<1>2. \A i \in Id : items[i] = [status |-> "absent", by |-> NoRequest]
  BY DEF Init
<1> QED BY <1>1, <1>2 DEF EntryInv, Present, Sole, Mine

LEMMA EntryStep ==
  ASSUME ServerInv, EntryInv, [Next]_vars
  PROVE  EntryInv'
<1>0. \A q \in Request : IdOf[q] \in Id
  BY ServerAssumption
<1>1. /\ forgotten \subseteq forgotten'
      /\ \A i \in Id : items'[i] = items[i] \/ Gone(i) \/ Made(i) \/ Moved(i) \/ Ended(i)
  BY EntryEffect
<1>2. \A i \in Id : items'[i].status \in {"pending", "running", "cancelled"} =>
                       items'[i].by = NoRequest
  BY <1>1 DEF EntryInv, Mine, Gone, Made, Moved, Ended
<1>3. \A r \in Request \ forgotten' : Engaged(r) =>
        /\ r \in Request \ forgotten /\ Status(r)' # "absent"
        /\ items'[IdOf[r]].by \in {r, NoRequest} \cup forgotten'
        /\ Status(r)' \in {"completed", "failed"} => items'[IdOf[r]].by \in {r} \cup forgotten'
  <2> SUFFICES ASSUME NEW r \in Request \ forgotten', Engaged(r)
               PROVE  /\ r \in Request \ forgotten /\ Status(r)' # "absent"
                      /\ items'[IdOf[r]].by \in {r, NoRequest} \cup forgotten'
                      /\ Status(r)' \in {"completed", "failed"} =>
                           items'[IdOf[r]].by \in {r} \cup forgotten'
    OBVIOUS
  <2>1. r \in Request \ forgotten /\ Status(r) # "absent"
    BY <1>1 DEF EntryInv, Present
  <2>2. CASE items'[IdOf[r]] = items[IdOf[r]]
    BY <1>1, <2>1, <2>2 DEF EntryInv, Mine, Status
  <2>3. ~Gone(IdOf[r]) /\ ~Made(IdOf[r])
    BY <2>1 DEF Gone, Made, Status
  <2>4. CASE Moved(IdOf[r])
    BY <2>1, <2>4 DEF Moved, Status
  <2>5. CASE Ended(IdOf[r])
    <3>1. PICK q \in Request : Engaged(q) /\ IdOf[q] = IdOf[r] /\ items'[IdOf[r]].by = q
      BY <2>5 DEF Ended
    <3>2. q = r \/ q \in forgotten
      BY <2>1, <3>1 DEF EntryInv, Sole
    <3> QED BY <1>1, <2>1, <2>5, <3>1, <3>2 DEF Ended, Status
  <2> QED BY <1>0, <1>1, <2>2, <2>3, <2>4, <2>5
<1>4. CASE \E c \in Request : Create(c) /\ Status(c) = "absent"
  <2>1. PICK c \in Request : Create(c) /\ Status(c) = "absent"
    BY <1>4
  <2>2. /\ UNCHANGED forgotten /\ Status(c)' = "pending" /\ items'[IdOf[c]].by = NoRequest
        /\ pc[c] = "create" /\ \A q \in Request \ {c} : pc'[q] = pc[q]
    BY <2>1, PutStatus, RecordTypes DEF Create, Goto, Leave, Unfinished, ServerInv, TypeOK
  <2>3. \A q \in Request \ {c} : Engaged(q)' => Engaged(q)
    <3>1. \A q \in Request \ {c} : ~Create(q)
      BY <2>1, <2>2 DEF Create, Goto, Leave, ServerInv, TypeOK
    <3> QED BY <3>1, EngagedStep DEF ServerInv
  <2>4. \A q \in Request \ forgotten : Engaged(q) => IdOf[q] # IdOf[c]
    BY <2>1 DEF EntryInv, Present, Status
  <2>5. Present'
    BY <1>3, <2>2, <2>3 DEF Present
  <2>6. Sole'
    BY <1>3, <2>2, <2>3, <2>4 DEF EntryInv, Sole
  <2>7. Mine'
    BY <1>2, <1>3, <2>2, <2>3 DEF Mine
  <2> QED BY <2>5, <2>6, <2>7 DEF EntryInv
<1>5. CASE ~\E c \in Request : Create(c) /\ Status(c) = "absent"
  <2>1. \A q \in Request : Engaged(q)' => Engaged(q)
    BY <1>5, EngagedStep DEF ServerInv
  <2>2. Present'
    BY <1>3, <2>1 DEF Present
  <2>3. Sole'
    BY <1>3, <2>1 DEF EntryInv, Sole
  <2>4. Mine'
    BY <1>2, <1>3, <2>1 DEF Mine
  <2> QED BY <2>2, <2>3, <2>4 DEF EntryInv
<1> QED BY <1>4, <1>5

LEMMA OutcomeStep ==
  ASSUME ServerInv, EntryInv, OwnOutcome, [Next]_vars
  PROVE  OwnOutcome'
<1>0. forgotten \subseteq forgotten'
  BY EntryEffect
<1>1. ASSUME NEW r \in Request, Report(r), Status(r) \in Terminal PROVE OwnOutcome'
  <2>1. /\ pc[r] = "wait" /\ UNCHANGED forgotten
        /\ reply' = [to |-> r, by |-> items[IdOf[r]].by,
                     status |-> IF Status(r) = "failed" THEN "failed" ELSE "completed"]
    BY <1>1 DEF Report, Answer, Goto, Terminal
  <2>2. Engaged(r)
    BY <2>1 DEF Engaged
  <2>3. r \notin forgotten =>
          /\ items[IdOf[r]].by \in {r, NoRequest} \cup forgotten
          /\ Status(r) \in {"completed", "failed"} => items[IdOf[r]].by \in {r} \cup forgotten
    BY <2>2 DEF EntryInv, Mine
  <2>4. /\ reply'.to = r /\ reply'.by = items[IdOf[r]].by
        /\ reply'.status = "failed" <=> Status(r) = "failed"
    BY <2>1
  <2> QED BY <2>1, <2>3, <2>4 DEF OwnOutcome
<1>2. ASSUME UNCHANGED reply PROVE OwnOutcome'
  BY <1>0, <1>2 DEF OwnOutcome
<1>3. ASSUME NEW r \in Request, Serve(r), ~(Report(r) /\ Status(r) \in Terminal)
      PROVE  UNCHANGED reply
  BY <1>3 DEF Serve, Submit, Create, Enqueue, Ensure, StartWorker, Report, TimeOut, Leave, Terminal
<1>4. ASSUME NEW w \in Request, Work(w) PROVE UNCHANGED reply
  BY <1>4 DEF Work, Poll, Dequeue, Lookup, StartTask, Execute, Complete, Fail,
              FailUnreported, Record
<1>5. (\E i \in Id : Cancel(i)) \/ Stop \/ UNCHANGED vars => UNCHANGED reply
  BY DEF Cancel, Stop, vars
<1> QED BY <1>1, <1>2, <1>3, <1>4, <1>5 DEF Next

-----------------------------------------------------------------------------
(* Results                                                                 *)

(* A request is in one place, the cleanup reads the finished entries and   *)
(* no others, and every completion that is not finished has somebody who   *)
(* will end it, the blank errors apart                                     *)
(* (task_worker.py:40, task_completion.py:615).                            *)
THEOREM PlacesSound == Spec => []ServerInv
<1>1. Init => ServerInv
  <2> SUFFICES ASSUME Init PROVE ServerInv
    OBVIOUS
  <2>1. DOMAIN finished = {} /\ \A i \in Id : items[i].status = "absent"
    BY DEF Init
  <2>2. CleanupList /\ NoTaskLost
    BY <2>1 DEF CleanupList, NoTaskLost, Terminal
  <2> QED BY <2>2, TypeInit, PlaceInit DEF ServerInv
<1>2. ServerInv /\ [Next]_vars => ServerInv'
  <2> SUFFICES ASSUME ServerInv, [Next]_vars PROVE ServerInv'
    OBVIOUS
  <2>1. TypeOK'
    BY TypeStep DEF ServerInv, PlaceInv, Working
  <2>2. PlaceInv'
    BY <2>1, PlaceStep DEF ServerInv
  <2>3. CleanupList'
    BY CleanupStep DEF ServerInv
  <2> QED BY <2>1, <2>2, <2>3, KeptStep DEF ServerInv
<1> QED BY <1>1, <1>2, PTL DEF Spec

(* Of the requests that are engaged with an id one at most was not         *)
(* forgotten by a cleanup, and its entry and its reply are its own.        *)
THEOREM ServerSafe == Spec => [](EntryInv /\ OwnOutcome)
<1>1. Init => EntryInv /\ OwnOutcome
  <2>1. Init => OwnOutcome
    BY DEF Init, OwnOutcome
  <2> QED BY <2>1, EntryInit
<1>2. ServerInv /\ EntryInv /\ OwnOutcome /\ [Next]_vars => (EntryInv /\ OwnOutcome)'
  BY EntryStep, OutcomeStep
<1> QED BY <1>1, <1>2, PlacesSound, PTL DEF Spec

(* No completion is left that nobody will end but that of a blank error,   *)
(* whatever the interleaving of submissions, retries, cancellations,       *)
(* cleanups at any moment, stops and restarts of the worker                *)
(* (task_worker.py:40, task_completion.py:615).                            *)
THEOREM NothingIsLost == Spec => []RegistrySound
<1>1. ServerInv => RegistrySound
  BY DEF ServerInv, RegistrySound
<1> QED BY <1>1, PlacesSound, PTL

(* Two executions of one task id never overlap, with any number of loops   *)
(* alive after a stop and a start, unless the entry of one was cleaned up  *)
(* under it (task_worker.py:40).                                           *)
THEOREM ExecutionsApart == Spec => []NoOverlap
<1>1. ServerInv /\ EntryInv => NoOverlap
  <2> SUFFICES ASSUME ServerInv, EntryInv, NEW v \in Request, NEW w \in Request,
                      InExecution(v), InExecution(w), IdOf[task[v]] = IdOf[task[w]],
                      task[v] \notin forgotten, task[w] \notin forgotten
               PROVE  v = w
    BY DEF NoOverlap
  <2>1. v \in Busy /\ w \in Busy /\ task[v] \in Request /\ task[w] \in Request
    BY DEF ServerInv, PlaceInv, Working, Busy, InExecution
  <2>2. Engaged(task[v]) /\ Engaged(task[w])
    BY <2>1 DEF Engaged
  <2>3. task[v] = task[w]
    BY <2>1, <2>2 DEF EntryInv, Sole
  <2> QED BY <2>1, <2>3 DEF ServerInv, PlaceInv, OnePlace, Holds
<1> QED BY <1>1, PlacesSound, ServerSafe, PTL

(* A client is told the outcome of its own request and of no other, unless *)
(* the entry of one of the two was cleaned up under it                     *)
(* (nexus_distributed_core.py:925).                                        *)
THEOREM OutcomeIsOwn == Spec => []OwnOutcome
BY ServerSafe, PTL

(* A step that makes a worker execute finds the entry pending or gone.     *)
LEMMA ExecutionStarts ==
  ASSUME ServerInv, [Next]_vars, NEW w \in Request, InExecution(w)'
  PROVE  task'[w] = task[w] /\ (InExecution(w) \/ Status(task[w]) \in {"absent", "pending"})
<1> loop \in [Request -> {"unborn", "top", "fetch", "lookup", "start",
                          "execute", "complete", "fail", "dead"}] /\ task \in [Request -> Source]
  BY DEF ServerInv, TypeOK
<1>1. ASSUME NEW v \in Request, Work(v)
      PROVE  task'[w] = task[w] /\ (InExecution(w) \/ Status(task[w]) \in {"absent", "pending"})
  BY <1>1 DEF Work, Poll, Dequeue, Lookup, StartTask, Execute, Complete, Fail,
              FailUnreported, Record, Step, Forget, InExecution
<1>2. ASSUME NEW r \in Request, Serve(r) PROVE UNCHANGED task /\ InExecution(w)
  BY <1>2 DEF Serve, Submit, Create, Enqueue, Ensure, StartWorker, Report, TimeOut, workerVars,
              InExecution
<1>3. (\E j \in Id : Cancel(j)) \/ Stop \/ UNCHANGED vars => UNCHANGED <<loop, task>>
  BY DEF Cancel, Stop, vars, workerVars
<1> QED BY <1>1, <1>2, <1>3 DEF Next, InExecution

(* A cancellation is never undone, and what was cancelled before its       *)
(* execution began is not executed as long as it was not forgotten         *)
(* (task_completion.py:334, task_worker.py:46).                            *)
THEOREM CancellationHolds == Spec => CancelledForGood
<1>1. ASSUME ServerInv, [Next]_vars PROVE NeverUndone
  BY <1>1, EntryEffect DEF NeverUndone, Gone, Made, Moved, Ended, Unfinished
<1>2. ASSUME ServerInv, [Next]_vars PROVE StaysWithdrawn
  <2> SUFFICES ASSUME NEW r \in Request, OnItsWay(r), Status(r) = "cancelled"
               PROVE  /\ OnItsWay(r)' => Withdrawn(r)' \/ r \in forgotten'
                      /\ \A w \in Request : InExecution(w)' => task'[w] # r
    BY DEF StaysWithdrawn, Withdrawn
  <2>1. IdOf[r] \in Id /\ Engaged(r)
    BY OnItsWayEngaged, ServerAssumption
  <2>2. items'[IdOf[r]] = items[IdOf[r]] \/ r \in forgotten'
    BY <1>2, <2>1, EntryEffect DEF Gone, Made, Moved, Ended, Unfinished, Status
  <2>3. ASSUME NEW w \in Request, InExecution(w)', task'[w] = r PROVE FALSE
    <3>1. InExecution(w) /\ task[w] = r
      BY <1>2, <2>3, ExecutionStarts
    <3>2. Holds(w, r) /\ ~InHand(w)
      BY <3>1 DEF Holds, InExecution, InHand, Busy
    <3>3. \A v \in Request : InHand(v) /\ task[v] = r => Holds(v, r)
      BY DEF Holds, InHand, Busy
    <3> QED BY <1>2, <3>2, <3>3 DEF OnItsWay, ServerInv, PlaceInv, OnePlace
  <2> QED BY <2>2, <2>3 DEF Withdrawn, Status
<1>3. ServerInv /\ [Next]_vars => [NeverUndone /\ StaysWithdrawn]_vars
  BY <1>1, <1>2
<1> QED BY <1>3, PlacesSound, PTL DEF Spec, CancelledForGood

(* Until stop is called there is one worker loop at most, although start   *)
(* is asked for by any number of threads that found the worker stopped     *)
(* (task_worker.py:126).                                                   *)
THEOREM OneWorkerLoop == ~Stopping => (Spec => []OneLoop)
<1> DEFINE LoopInv == ~stopEvent /\ \A w \in Request : Alive(w) => thread = w
<1> SUFFICES ASSUME ~Stopping PROVE Spec => []OneLoop
  OBVIOUS
<1>1. Init => LoopInv
  BY DEF Init, Alive
<1>2. TypeOK /\ LoopInv /\ [Next]_vars => LoopInv'
  <2> SUFFICES ASSUME TypeOK, LoopInv, [Next]_vars PROVE LoopInv'
    OBVIOUS
  <2>1. ASSUME NEW w \in Request, Work(w) PROVE LoopInv'
    BY <2>1 DEF TypeOK, Alive, Work, Poll, Dequeue, Lookup, StartTask, Execute, Complete, Fail,
                FailUnreported, Record, Step
  <2>2. ASSUME NEW r \in Request, StartWorker(r) PROVE LoopInv'
    BY <2>2, ServerAssumption DEF TypeOK, Source, Alive, Running, StartWorker, workerVars
  <2>3. ASSUME UNCHANGED <<stopEvent, thread, loop>> PROVE LoopInv'
    BY <2>3 DEF Alive
  <2>4. ASSUME NEW r \in Request,
               Submit(r) \/ Create(r) \/ Enqueue(r) \/ Ensure(r) \/ Report(r) \/ TimeOut(r)
        PROVE  UNCHANGED <<stopEvent, thread, loop>>
    BY <2>4 DEF Submit, Create, Enqueue, Ensure, Report, TimeOut, workerVars
  <2>5. (\E i \in Id : Cancel(i)) \/ UNCHANGED vars => UNCHANGED <<stopEvent, thread, loop>>
    BY DEF Cancel, vars, workerVars
  <2>6. ~Stop
    BY DEF Stop
  <2> QED BY <2>1, <2>2, <2>3, <2>4, <2>5, <2>6 DEF Next, Serve
<1>3. Spec => []TypeOK
  BY PlacesSound, PTL DEF ServerInv
<1>4. LoopInv => OneLoop
  BY DEF OneLoop
<1> QED BY <1>1, <1>2, <1>3, <1>4, PTL DEF Spec
=============================================================================
