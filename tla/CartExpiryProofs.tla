-------------------------- MODULE CartExpiryProofs --------------------------
(***************************************************************************)
(* What holds of carts for any number of buyers, streams and requests.     *)
(***************************************************************************)
EXTENDS CartExpiry, TLAPS

\* What enforceCartExpiry decides before it looks at the stream.
LEMMA JudgeSteps ==
    ASSUME NEW c
    PROVE  /\ Judge(c) \in {"enforced", "clear", "readStream"}
           /\ Judge(c) = "enforced" => c.items = {}
           /\ Judge(c) = "readStream" => c.items # {} /\ c.stream # NoStream
BY DEF Judge

\* A request begins with locals of the right type.
LEMMA BeginTyped ==
    ASSUME TypeOK, NEW w \in Workers, NEW op \in Ops, NEW b \in Buyers,
           NEW s \in Streams \cup {NoStream}, NEW p \in Products, NEW at \in Steps,
           Begin(w, op, b, s, p, at)
    PROVE  /\ pc' = [pc EXCEPT ![w] = at] /\ job'[w] \in Job
           /\ \A v \in Workers \ {w} : job'[v] = job[v]
           /\ job' \in [Workers -> Job \cup {Free}]
           /\ job'[w] = [op |-> op, buyer |-> b, stream |-> s, item |-> p,
                         began |-> IF w = Sweeper THEN 0 ELSE now, judged |-> 0, stage |-> "enforce", cart |-> NoCart, ttl |-> 0, todo |-> {}]
<1> DEFINE new == [op |-> op, buyer |-> b, stream |-> s, item |-> p,
                   began |-> IF w = Sweeper THEN 0 ELSE now, judged |-> 0, stage |-> "enforce", cart |-> NoCart, ttl |-> 0, todo |-> {}]
<1>1. NoCart \in Cart
  BY DEF NoCart, Cart
<1>2. now \in Nat
  BY CartAssumption DEF TypeOK
<1>3. new \in Job
  BY <1>1, <1>2 DEF Job, Stages
<1>4. job' = [job EXCEPT ![w] = new] /\ pc' = [pc EXCEPT ![w] = at]
  BY DEF Begin
<1> HIDE DEF new
<1>5. job' \in [Workers -> Job \cup {Free}] /\ job'[w] = new
  BY <1>3, <1>4 DEF TypeOK
<1>6. QED
  BY <1>3, <1>4, <1>5 DEF TypeOK, new

\* What a step of request w gives its locals.
LEMMA StepLocals ==
    ASSUME TypeOK, JobsOK, NEW w \in Workers, Step(w)
    PROVE  /\ pc[w] # "idle"
           /\ \/ Close(w)
              \/ \E at \in Steps, new \in Job : With(w, at, new)
<1>1. pc[w] # "idle"
  BY DEF Step, LoadCart, ReadStream, SaveCartState, IndexCart, ClearCart, UnindexCart, ResumeGet,
     ResumeSweep, ResumeCheckout, ResumeAdd, ResumeUpdate, ResumeRemove, Persisted, Reply,
     PlaceOrder, ReadHolders, RefreshHolder, Enforced
<1>2. job[w] \in Job /\ JobOK(w)
  BY <1>1 DEF TypeOK, JobsOK
<1>3. ASSUME NEW at \in Steps, Goto(w, at)
      PROVE  \E new \in Job : With(w, at, new)
  <2>1. job' = [job EXCEPT ![w] = job[w]]
    BY <1>3 DEF Goto, TypeOK
  <2>2. QED
    BY <1>2, <1>3, <2>1 DEF Goto, With
<1>4. NoCart \in Cart /\ now \in Nat
  BY CartAssumption DEF NoCart, Cart, TypeOK
<1>5. CASE LoadCart(w)
  <2>1. cart[job[w].buyer] \in Cart
    BY <1>2 DEF TypeOK, Job
  <2>2. PICK c \in Cart : With(w, Judge(c), [job[w] EXCEPT !.cart = c, !.judged = now])
    BY <1>5, <2>1 DEF LoadCart
  <2>3. [job[w] EXCEPT !.cart = c, !.judged = now] \in Job
    BY <1>2, <1>4, <2>2 DEF Job
  <2>4. QED
    BY <1>1, <2>2, <2>3, JudgeSteps DEF Steps
<1>6. CASE ReadStream(w)
  <2>1. CASE Goto(w, "clear")
    BY <1>1, <1>3, <2>1 DEF Steps
  <2>2. CASE With(w, "save", [job[w] EXCEPT !.ttl = 0, !.judged = 0])
    <3>1. [job[w] EXCEPT !.ttl = 0, !.judged = 0] \in Job
      BY <1>2 DEF Job
    <3>2. QED
      BY <1>1, <2>2, <3>1 DEF Steps
  <2>3. CASE pc[w] = "readStream" /\ stream[job[w].cart.stream].phase = "off"
             /\ WindowEnd(stream[job[w].cart.stream]) > job[w].judged
             /\ With(w, "save", [job[w] EXCEPT
                    !.cart.expires = WindowEnd(stream[job[w].cart.stream]),
                    !.ttl = WindowEnd(stream[job[w].cart.stream]) - job[w].judged,
                    !.judged = 0])
    <3>1. stream[job[w].cart.stream] \in Row
      BY <1>2, <2>3 DEF TypeOK, JobOK
    <3>2. PICK end \in Nat : /\ end = WindowEnd(stream[job[w].cart.stream])
                             /\ end > job[w].judged
                             /\ With(w, "save", [job[w] EXCEPT !.cart.expires = end,
                                      !.ttl = end - job[w].judged, !.judged = 0])
      <4>1. WindowEnd(stream[job[w].cart.stream]) \in Nat
        BY <3>1, CartAssumption DEF WindowEnd, Row
      <4>2. QED
        BY <2>3, <4>1
    <3>3. PICK left \in Nat : left = end - job[w].judged
      <4>1. job[w].judged \in Nat
        BY <1>2 DEF Job
      <4>2. QED
        BY <3>2, <4>1
    <3>4. [job[w] EXCEPT !.cart.expires = end, !.ttl = left, !.judged = 0] \in Job
      BY <1>2, <3>2, <3>3 DEF Job, Cart
    <3>5. QED
      BY <1>1, <3>2, <3>3, <3>4 DEF Steps
  <2>4. QED
    BY <1>6, <2>1, <2>2, <2>3 DEF ReadStream
<1>7. CASE UnindexCart(w)
  <2>1. [job[w] EXCEPT !.cart = NoCart] \in Job
    BY <1>2, <1>4 DEF Job
  <2>2. QED
    BY <1>3, <1>7, <2>1 DEF UnindexCart, Steps
<1>8. [job[w] EXCEPT !.stage = "enforce", !.cart = NoCart, !.ttl = 0] \in Job
  BY <1>2, <1>4 DEF Job, Stages
<1>9. CASE IndexCart(w)
  BY <1>3, <1>8, <1>9 DEF IndexCart, AnswerWithGet, Steps
<1>10. ASSUME NEW c \in Cart, Persist(w, c)
       PROVE  \E at \in Steps, new \in Job : With(w, at, new)
  <2>1. [job[w] EXCEPT !.op = "get", !.stage = "persist", !.cart = c, !.stream = NoStream,
                       !.judged = now] \in Job
    BY <1>2, <1>4 DEF Job, Ops, Stages
  <2>2. QED
    BY <1>10, <2>1, JudgeSteps DEF Persist, Steps
<1>11. job[w].cart \in Cart /\ job[w].item \in Products
  BY <1>2 DEF Job
<1>12. CASE ResumeAdd(w)
  <2>1. CASE Close(w)
    BY <1>1, <2>1
  <2>2. CASE ~ Close(w)
    <3>1. PICK s \in Streams \cup {NoStream} :
             Persist(w, [items |-> job[w].cart.items \cup {job[w].item}, stream |-> s, expires |-> 0])
      BY <1>2, <1>11, <1>12, <2>2 DEF ResumeAdd, Job, Cart
    <3>2. [items |-> job[w].cart.items \cup {job[w].item}, stream |-> s, expires |-> 0] \in Cart
      BY <1>11 DEF Cart
    <3>3. QED
      BY <1>1, <1>10, <3>1, <3>2
  <2>3. QED
    BY <2>1, <2>2
<1>13. CASE ResumeUpdate(w)
  BY <1>1, <1>10, <1>11, <1>13 DEF ResumeUpdate
<1>14. CASE ResumeRemove(w)
  <2>1. [job[w] EXCEPT !.op = "get", !.stage = "persist", !.cart = NoCart] \in Job
    BY <1>2, <1>4 DEF Job, Ops, Stages
  <2>2. [job[w].cart EXCEPT !.items = job[w].cart.items \ {job[w].item}] \in Cart
    BY <1>11 DEF Cart
  <2>3. QED
    BY <1>1, <1>10, <1>14, <2>1, <2>2 DEF ResumeRemove, Steps
<1>15. CASE Persisted(w)
  <2>1. CASE AnswerWithGet(w)
    BY <1>1, <1>8, <2>1 DEF AnswerWithGet, Steps
  <2>2. CASE ~ AnswerWithGet(w)
    <3>1. PICK left \in Nat : With(w, "save", [job[w] EXCEPT !.stage = "again", !.ttl = left])
      <4>1. job[w].cart.expires \in Nat
        BY <1>11 DEF Cart
      <4>2. PICK left \in Nat :
               left = IF job[w].cart.expires = 0 THEN 0
                      ELSE IF job[w].cart.expires > now THEN job[w].cart.expires - now ELSE 1
        BY <1>4, <4>1
      <4>3. QED
        BY <1>15, <2>2, <4>2 DEF Persisted
    <3>2. [job[w] EXCEPT !.stage = "again", !.ttl = left] \in Job
      BY <1>2 DEF Job, Stages
    <3>3. QED
      BY <1>1, <3>1, <3>2 DEF Steps
  <2>3. QED
    BY <2>1, <2>2
<1>16. CASE PlaceOrder(w)
  <2>1. [job[w] EXCEPT !.stage = "done"] \in Job
    BY <1>2 DEF Job, Stages
  <2>2. QED
    BY <1>1, <1>16, <2>1 DEF PlaceOrder, Steps
<1>17. CASE ReadHolders(w)
  <2>1. PICK todo \in SUBSET Buyers, left \in Nat :
           With(w, "next", [job[w] EXCEPT !.todo = todo, !.ttl = left])
    <3>1. holders[job[w].stream] \in SUBSET Buyers
      BY <1>2, <1>17 DEF TypeOK, ReadHolders, JobOK
    <3>2. PICK end \in Nat : end = job[w].began + Window
      <4>1. job[w].began \in Nat
        BY <1>2 DEF Job
      <4>2. QED
        BY <4>1, CartAssumption
    <3>3. PICK left \in Nat : left = IF end > now THEN end - now ELSE 1
      BY <1>4, <3>2
    <3>4. QED
      BY <1>17, <3>1, <3>2, <3>3 DEF ReadHolders
  <2>2. [job[w] EXCEPT !.todo = todo, !.ttl = left] \in Job
    BY <1>2, <2>1 DEF Job
  <2>3. QED
    BY <1>1, <2>1, <2>2 DEF Steps
<1>18. CASE RefreshHolder(w)
  <2>1. CASE Close(w)
    BY <1>1, <2>1
  <2>2. CASE ~ Close(w)
    <3>1. PICK b \in job[w].todo :
             LET c == cart[b]
                 visit == [job[w] EXCEPT !.buyer = b, !.todo = @ \ {b}]
             IN  IF c.items = {} \/ c.stream # job[w].stream
                 THEN With(w, "unindex", [visit EXCEPT !.cart = [NoCart EXCEPT !.stream = job[w].stream]])
                 ELSE With(w, "save", [visit EXCEPT !.cart = [c EXCEPT !.expires = job[w].began + Window]])
      BY <1>18, <2>2 DEF RefreshHolder
    <3>2. PICK visit \in Job : visit = [job[w] EXCEPT !.buyer = b, !.todo = @ \ {b}]
      BY <1>2 DEF Job
    <3>3. PICK c \in Cart : c = cart[b]
      BY <1>2 DEF Job, TypeOK
    <3>4. [NoCart EXCEPT !.stream = job[w].stream] \in Cart
      BY <1>2 DEF NoCart, Cart, Job
    <3>5. [c EXCEPT !.expires = job[w].began + Window] \in Cart
      BY <1>2, <3>3, CartAssumption DEF Cart, Job
    <3>6. \A d \in Cart : [visit EXCEPT !.cart = d] \in Job
      BY <3>2 DEF Job
    <3>7. QED
      BY <1>1, <3>1, <3>2, <3>3, <3>4, <3>5, <3>6 DEF Steps
  <2>3. QED
    BY <2>1, <2>2
<1>a. ASSUME NEW stage \in Stages, NextLook(w, stage)
      PROVE  \E at \in Steps, new \in Job : With(w, at, new)
  <2>1. [job[w] EXCEPT !.stage = stage, !.cart = NoCart, !.ttl = 0] \in Job
    BY <1>2, <1>4 DEF Job
  <2>2. QED
    BY <1>a, <2>1 DEF NextLook, Steps
<1>b. CASE SaveCartState(w)
  <2>1. PICK left \in Nat : With(w, "index", [job[w] EXCEPT !.ttl = left])
    BY <1>2, <1>b DEF SaveCartState, Job
  <2>2. [job[w] EXCEPT !.ttl = left] \in Job
    BY <1>2 DEF Job
  <2>3. QED
    BY <1>1, <2>1, <2>2 DEF Steps
<1>19. CASE ClearCart(w) \/ ResumeGet(w) \/ ResumeSweep(w) \/ ResumeCheckout(w) \/ Reply(w)
  BY <1>1, <1>3, <1>a, <1>19 DEF Stages, ClearCart, ResumeGet, ResumeSweep, ResumeCheckout, Reply, Steps
<1>20. QED
  BY <1>1, <1>5, <1>6, <1>7, <1>9, <1>12, <1>13, <1>14, <1>15, <1>16, <1>17, <1>18, <1>b, <1>19 DEF Step

\* Time goes on and what stood for the end of a stream is not forgotten.
Later ==
    /\ now <= now'
    /\ \A s \in Streams : grounds[s] \subseteq grounds'[s]

\* A time on a ground, or after one, stays so.
LEMMA GroundKept ==
    ASSUME Later, NEW t, NEW s
    PROVE  /\ OnGround(t, s) => OnGround(t, s)'
           /\ Covered(t, s) => Covered(t, s)'
BY DEF OnGround, Covered, Later

\* A request keeps what it knows while others step.
LEMMA JobKept ==
    ASSUME TypeOK, TypeOK', Later, NEW w \in Workers, pc[w] # "idle", JobOK(w),
           pc'[w] = pc[w], job'[w] = job[w]
    PROVE  JobOK(w)'
<1>1. job[w] \in Job /\ now \in Nat /\ now' \in Nat /\ now <= now' /\ Window \in Nat
  BY CartAssumption DEF TypeOK, Later
<1>2. PICK j \in Job : j = job[w]
  BY <1>1
<1>3. j.began \in Nat /\ j.ttl \in Nat /\ j.judged \in Nat /\ j.cart.expires \in Nat
  BY <1>2 DEF Job, Cart
<1>4. j.cart.expires # 0 => OnGround(j.cart.expires, j.cart.stream)'
  BY <1>2, GroundKept DEF JobOK
<1>5. (pc[w] = "save" /\ j.ttl # 0) => Covered(now + j.ttl, j.cart.stream)'
  <2>1. CASE pc[w] = "save" /\ j.ttl # 0
    <3>1. PICK e \in grounds[j.cart.stream] : j.cart.stream \in Streams /\ e + Window <= now + j.ttl
      BY <1>2, <2>1 DEF JobOK, Covered
    <3>2. e \in Nat /\ e \in grounds'[j.cart.stream]
      BY <3>1 DEF TypeOK, Later
    <3>3. e + Window <= now' + j.ttl
      BY <1>1, <1>3, <3>1, <3>2
    <3>4. QED
      BY <3>1, <3>2, <3>3 DEF Covered
  <2>2. QED
    BY <2>1
<1>6. /\ j.began <= now'
      /\ pc[w] = "readStream" => j.began <= j.judged /\ j.judged <= now'
      /\ (j.op = "stop" /\ pc[w] # "members")
            => j.ttl # 0 /\ j.began + Window <= now' + j.ttl
  BY <1>1, <1>2, <1>3 DEF JobOK
<1>7. j.op = "stop" =>
        /\ pc[w] \in {"members", "next", "save", "index", "unindex"}
        /\ j.stream \in Streams
        /\ j.began \in grounds'[j.stream]
  BY <1>2 DEF JobOK, Later
<1>8. /\ job'[w].cart.expires # 0 => OnGround(job[w].cart.expires, job[w].cart.stream)'
      /\ (pc'[w] = "save" /\ job'[w].ttl # 0)
            => Covered(now + job[w].ttl, job[w].cart.stream)'
  BY <1>2, <1>4, <1>5 DEF OnGround, Covered
<1>9. QED
  BY <1>2, <1>6, <1>7, <1>8 DEF JobOK, OnGround, Covered

\* A step of request w leaves it with what JobOK says.
LEMMA StepKeepsJob ==
    ASSUME TypeOK, TypeOK', RowsOK, KeysOK, NEW w \in Workers, JobOK(w), pc[w] # "idle", Step(w),
           Later, UNCHANGED <<now, stream, grounds, since>>, pc'[w] # "idle"
    PROVE  JobOK(w)'
<1>1. now \in Nat /\ \A s \in Streams : grounds[s] \subseteq Nat /\ stream[s] \in Row
  BY CartAssumption DEF TypeOK
<1>2. PICK j \in Job : j = job[w]
  BY DEF TypeOK
<1>3. PICK k \in Job : k = job'[w]
  BY DEF TypeOK
<1>4. j.cart \in Cart /\ k.cart \in Cart /\ j.began \in Nat
  BY DEF Job
<1> DEFINE
  Carries(c) == c.expires # 0 => OnGround(c.expires, c.stream)
  Stopping(at, l) == l.op = "stop" => /\ at \in {"members", "next", "save", "index", "unindex"}
                                      /\ l.stream \in Streams
                                      /\ l.began \in grounds[l.stream]
                                      /\ at # "members" => /\ l.ttl # 0
                                                           /\ l.began + Window <= now + l.ttl
  Placed(at, c) == /\ at \in {"readStream", "save", "index"} => c.stream \in Streams
                   /\ (at \in {"enforced", "reply", "place"} /\ c.items # {}) => c.stream \in Streams
  Saving(at, l) == (at = "save" /\ l.ttl # 0) => Covered(now + l.ttl, l.cart.stream)
  Judged(at, l) == at = "readStream" => l.began <= l.judged /\ l.judged <= now
  Good(at, l) == /\ l.began <= now
                 /\ at \in {"members", "next"} => l.op = "stop"
                 /\ Placed(at, l.cart) /\ Carries(l.cart) /\ Saving(at, l) /\ Stopping(at, l)
                 /\ Judged(at, l)
<1>5. Good(pc[w], j)
  BY <1>2 DEF JobOK
<1>6. PICK at : at = pc'[w]
  OBVIOUS
<1>7. SUFFICES Good(at, k)
  BY <1>3, <1>6 DEF JobOK, OnGround, Covered
<1>9. ASSUME NEW l \in Job, NEW to, With(w, to, l)
      PROVE  at = to /\ k = l
  BY <1>3, <1>6, <1>9 DEF With, TypeOK
<1>10. ASSUME NEW to, Goto(w, to)
       PROVE  at = to /\ k = j
  BY <1>2, <1>3, <1>6, <1>10 DEF Goto, TypeOK
<1>11. ~ Close(w)
  BY DEF Close, TypeOK
<1> HIDE DEF Good
<1>12. CASE LoadCart(w)
  <2>1. PICK c \in Cart : c = cart[j.buyer] /\ Carries(c)
    BY <1>2 DEF Job, TypeOK, KeysOK
  <2>2. [j EXCEPT !.cart = c, !.judged = now] \in Job
    BY <1>1 DEF Job
  <2>3. at = Judge(c) /\ k = [j EXCEPT !.cart = c, !.judged = now]
    BY <1>2, <1>9, <1>12, <2>1, <2>2 DEF LoadCart
  <2>4. /\ k.op = j.op /\ k.began = j.began /\ k.cart = c /\ k.stream = j.stream /\ k.ttl = j.ttl
        /\ k.judged = now /\ now <= now
    BY <1>1, <2>3 DEF Job
  <2>5. pc[w] = "load"
    BY <1>12 DEF LoadCart
  <2>6. QED
    BY <1>5, <2>1, <2>3, <2>4, <2>5, JudgeSteps DEF Cart, Good
<1>13. CASE ReadStream(w)
  <2>1. pc[w] = "readStream" /\ j.cart.stream \in Streams /\ j.op # "stop"
    BY <1>5, <1>13 DEF ReadStream, Good
  <2>2. PICK row \in Row : row = stream[j.cart.stream]
    BY <1>1, <2>1
  <2>3. CASE row.phase = "gone" /\ Goto(w, "clear")
    BY <1>5, <1>10, <2>1, <2>3 DEF Good
  <2>4. CASE row.phase = "live" /\ With(w, "save", [j EXCEPT !.ttl = 0, !.judged = 0])
    <3>1. [j EXCEPT !.ttl = 0, !.judged = 0] \in Job
      BY DEF Job
    <3>2. at = "save" /\ k = [j EXCEPT !.ttl = 0, !.judged = 0]
      BY <1>9, <2>4, <3>1
    <3>3. k.op = j.op /\ k.began = j.began /\ k.cart = j.cart /\ k.ttl = 0
      BY <3>2 DEF Job
    <3>4. QED
      BY <1>5, <2>1, <3>2, <3>3 DEF Good
  <2>5. CASE row.phase = "off" /\ WindowEnd(row) <= j.judged /\ Goto(w, "clear")
    BY <1>5, <1>10, <2>1, <2>5 DEF Good
  <2>6. CASE /\ row.phase = "off" /\ WindowEnd(row) > j.judged
             /\ With(w, "save", [j EXCEPT !.cart.expires = WindowEnd(row),
                                         !.ttl = WindowEnd(row) - j.judged, !.judged = 0])
    <3>1. PICK end \in Nat : end = row.end + Window
      BY CartAssumption DEF Row
    <3>2. PICK left \in Nat : left = end - j.judged /\ end <= now + left
      <4>1. j.judged \in Nat /\ j.judged <= now
        BY <1>5, <2>1 DEF Good, Job
      <4>2. end > j.judged
        BY <2>6, <3>1 DEF WindowEnd
      <4>3. QED
        BY <1>1, <3>1, <4>1, <4>2
    <3>3. [j EXCEPT !.cart.expires = end, !.ttl = left, !.judged = 0] \in Job
      BY <3>1, <3>2 DEF Job, Cart
    <3>4. at = "save" /\ k = [j EXCEPT !.cart.expires = end, !.ttl = left, !.judged = 0]
      BY <1>9, <2>6, <3>1, <3>2, <3>3 DEF WindowEnd
    <3>5. /\ k.op = j.op /\ k.began = j.began /\ k.ttl = left
          /\ k.cart.stream = j.cart.stream /\ k.cart.expires = end
      BY <3>4 DEF Job, Cart
    <3>6. row.end \in grounds[j.cart.stream]
      BY <2>1, <2>2, <2>6 DEF RowsOK
    <3>7. OnGround(end, j.cart.stream) /\ Covered(now + left, j.cart.stream)
      BY <2>1, <3>1, <3>2, <3>6 DEF OnGround, Covered
    <3>8. QED
      BY <1>5, <2>1, <3>4, <3>5, <3>7 DEF Good
  <2>7. QED
    BY <1>2, <1>13, <2>2, <2>3, <2>4, <2>5, <2>6 DEF ReadStream
<1>b. CASE SaveCartState(w)
  <2>1. PICK left \in Nat :
           /\ With(w, "index", [j EXCEPT !.ttl = left]) /\ pc[w] = "save"
           /\ j.op = "stop" => left = j.ttl
    BY <1>2, <1>b DEF SaveCartState, Job
  <2>2. [j EXCEPT !.ttl = left] \in Job
    BY DEF Job
  <2>3. at = "index" /\ k = [j EXCEPT !.ttl = left]
    BY <1>9, <2>1, <2>2
  <2>4. /\ k.op = j.op /\ k.began = j.began /\ k.cart = j.cart /\ k.stream = j.stream
        /\ k.op = "stop" => k.ttl = j.ttl
    BY <2>1, <2>3 DEF Job
  <2>5. QED
    BY <1>5, <2>1, <2>3, <2>4 DEF Good
<1>15. NoCart \in Cart /\ NoCart.expires = 0 /\ NoCart.items = {}
  BY DEF NoCart, Cart
<1>a. ASSUME NEW stage \in Stages, NextLook(w, stage), j.op # "stop"
      PROVE  Good(at, k)
  <2>1. [j EXCEPT !.stage = stage, !.cart = NoCart, !.ttl = 0] \in Job
    BY <1>15 DEF Job
  <2>2. at = "load" /\ k = [j EXCEPT !.stage = stage, !.cart = NoCart, !.ttl = 0]
    BY <1>2, <1>9, <1>a, <2>1 DEF NextLook
  <2>3. k.op = j.op /\ k.began = j.began /\ k.cart = NoCart
    BY <2>2 DEF Job
  <2>4. QED
    BY <1>5, <1>15, <1>a, <2>2, <2>3 DEF Good
<1>14. CASE ClearCart(w) \/ ResumeGet(w) \/ ResumeSweep(w) \/ ResumeCheckout(w) \/ Reply(w)
  <2>1. CASE ClearCart(w) \/ ResumeGet(w) \/ ResumeSweep(w)
    BY <1>2, <1>5, <1>10, <1>11, <2>1
       DEF ClearCart, ResumeGet, ResumeSweep, Enforced, Good
  <2>2. CASE ResumeCheckout(w)
    BY <1>2, <1>5, <1>10, <1>11, <1>a, <2>2 DEF ResumeCheckout, Good, Stages
  <2>3. CASE Reply(w)
    <3>1. pc[w] = "reply" /\ j.op # "stop"
      BY <1>5, <2>3 DEF Reply, Good
    <3>2. CASE Goto(w, "clear") \/ Goto(w, "place")
      BY <1>5, <1>10, <3>1, <3>2 DEF Good
    <3>3. QED
      BY <1>11, <1>a, <2>3, <3>1, <3>2 DEF Reply, Stages
  <2>4. QED
    BY <1>14, <2>1, <2>2, <2>3
<1>16. CASE AnswerWithGet(w) /\ j.op # "stop"
  <2>1. [j EXCEPT !.stage = "enforce", !.cart = NoCart, !.ttl = 0] \in Job
    BY <1>15 DEF Job, Stages
  <2>2. at = "load" /\ k = [j EXCEPT !.stage = "enforce", !.cart = NoCart, !.ttl = 0]
    BY <1>2, <1>9, <1>16, <2>1 DEF AnswerWithGet
  <2>3. k.op = j.op /\ k.began = j.began /\ k.cart = NoCart
    BY <2>2 DEF Job
  <2>4. QED
    BY <1>5, <1>15, <1>16, <2>2, <2>3 DEF Good
<1>17. CASE IndexCart(w)
  BY <1>2, <1>5, <1>10, <1>16, <1>17 DEF IndexCart, Good
<1>18. CASE UnindexCart(w)
  <2>1. CASE j.op = "stop" /\ Goto(w, "next")
    BY <1>5, <1>10, <1>18, <2>1 DEF UnindexCart, Good
  <2>2. CASE j.op # "stop" /\ With(w, "enforced", [j EXCEPT !.cart = NoCart])
    <3>1. [j EXCEPT !.cart = NoCart] \in Job
      BY <1>15 DEF Job
    <3>2. at = "enforced" /\ k = [j EXCEPT !.cart = NoCart]
      BY <1>9, <2>2, <3>1
    <3>3. k.op = j.op /\ k.began = j.began /\ k.cart = NoCart
      BY <3>2 DEF Job
    <3>4. QED
      BY <1>5, <1>15, <2>2, <3>2, <3>3 DEF Good
  <2>3. QED
    BY <1>2, <1>11, <1>18, <2>1, <2>2 DEF UnindexCart
<1>19. ASSUME NEW c \in Cart, Carries(c), Persist(w, c), j.op # "stop"
       PROVE  Good(at, k)
  <2>1. [j EXCEPT !.op = "get", !.stage = "persist", !.cart = c, !.stream = NoStream,
                  !.judged = now] \in Job
    BY <1>1 DEF Job, Ops, Stages
  <2>2. at = Judge(c)
        /\ k = [j EXCEPT !.op = "get", !.stage = "persist", !.cart = c, !.stream = NoStream,
                         !.judged = now]
    BY <1>2, <1>9, <1>19, <2>1 DEF Persist
  <2>3. k.op = "get" /\ k.began = j.began /\ k.cart = c /\ k.judged = now /\ now <= now
    BY <1>1, <2>2 DEF Job
  <2>4. at \in {"enforced", "clear", "readStream"} /\ (at = "enforced" => c.items = {})
        /\ (at = "readStream" => c.stream \in Streams)
    BY <2>2, JudgeSteps DEF Cart
  <2>5. QED
    BY <1>5, <1>19, <2>3, <2>4 DEF Good
<1>20. CASE ResumeAdd(w)
  <2>1. PICK s \in Streams \cup {NoStream} :
           Persist(w, [items |-> j.cart.items \cup {j.item}, stream |-> s, expires |-> 0])
    BY <1>2, <1>4, <1>11, <1>20 DEF ResumeAdd, Job, Cart
  <2>2. PICK c \in Cart : c = [items |-> j.cart.items \cup {j.item}, stream |-> s, expires |-> 0]
    BY <1>4 DEF Cart, Job
  <2>3. j.op # "stop" /\ c.expires = 0
    BY <1>2, <1>20, <2>2 DEF ResumeAdd, Enforced
  <2>4. QED
    BY <1>15, <1>19, <2>1, <2>2, <2>3
<1>21. CASE ResumeUpdate(w)
  BY <1>2, <1>4, <1>5, <1>11, <1>19, <1>21 DEF ResumeUpdate, Enforced, Good
<1>22. CASE ResumeRemove(w)
  <2>0. j.op # "stop"
    BY <1>2, <1>22 DEF ResumeRemove, Enforced
  <2>1. CASE With(w, "clear", [j EXCEPT !.op = "get", !.stage = "persist", !.cart = NoCart])
    <3>1. [j EXCEPT !.op = "get", !.stage = "persist", !.cart = NoCart] \in Job
      BY <1>15 DEF Job, Ops, Stages
    <3>2. at = "clear" /\ k = [j EXCEPT !.op = "get", !.stage = "persist", !.cart = NoCart]
      BY <1>9, <2>1, <3>1
    <3>3. k.op = "get" /\ k.began = j.began /\ k.cart = NoCart
      BY <3>2 DEF Job
    <3>4. QED
      BY <1>5, <1>15, <3>2, <3>3 DEF Good
  <2>2. CASE Persist(w, [j.cart EXCEPT !.items = j.cart.items \ {j.item}])
    <3>1. PICK c \in Cart : c = [j.cart EXCEPT !.items = j.cart.items \ {j.item}]
      BY <1>4 DEF Cart
    <3>2. c.expires = j.cart.expires /\ c.stream = j.cart.stream
      BY <1>4, <3>1 DEF Cart
    <3>3. QED
      BY <1>5, <1>19, <2>0, <2>2, <3>1, <3>2 DEF Good
  <2>3. QED
    BY <1>2, <1>22, <2>1, <2>2 DEF ResumeRemove
<1>23. CASE Persisted(w)
  <2>1. pc[w] = "enforced" /\ j.op # "stop"
    BY <1>5, <1>23 DEF Persisted, Good
  <2>2. CASE j.cart.items = {}
    BY <1>2, <1>16, <1>23, <2>1, <2>2 DEF Persisted
  <2>3. CASE j.cart.items # {}
    <3>1. PICK left \in Nat :
             left = IF j.cart.expires = 0 THEN 0
                    ELSE IF j.cart.expires > now THEN j.cart.expires - now ELSE 1
      BY <1>1, <1>4 DEF Cart
    <3>2. [j EXCEPT !.stage = "again", !.ttl = left] \in Job
      BY DEF Job, Stages
    <3>3. With(w, "save", [j EXCEPT !.stage = "again", !.ttl = left])
      BY <1>2, <1>23, <2>3, <3>1 DEF Persisted
    <3>4. at = "save" /\ k = [j EXCEPT !.stage = "again", !.ttl = left]
      BY <1>9, <3>2, <3>3
    <3>5. k.op = j.op /\ k.began = j.began /\ k.cart = j.cart /\ k.ttl = left
      BY <3>4 DEF Job
    <3>6. j.cart.stream \in Streams
      BY <1>5, <2>1, <2>3 DEF Good
    <3>7. left # 0 => Covered(now + left, j.cart.stream)
      <4>1. CASE left # 0
        <5>1. PICK e \in grounds[j.cart.stream] : j.cart.expires = e + Window
          BY <1>5, <3>1, <4>1 DEF Good, OnGround
        <5>2. j.cart.expires \in Nat
          BY <1>4 DEF Cart
        <5>3. j.cart.expires <= now + left
          BY <1>1, <3>1, <4>1, <5>2
        <5>4. QED
          BY <3>6, <5>1, <5>3 DEF Covered
      <4>2. QED
        BY <4>1
    <3>8. QED
      BY <1>5, <2>1, <3>4, <3>5, <3>6, <3>7 DEF Good
  <2>4. QED
    BY <2>2, <2>3
<1>24. CASE PlaceOrder(w)
  <2>1. [j EXCEPT !.stage = "done"] \in Job
    BY DEF Job, Stages
  <2>2. at = "clear" /\ k = [j EXCEPT !.stage = "done"] /\ pc[w] = "place"
    BY <1>2, <1>9, <1>24, <2>1 DEF PlaceOrder
  <2>3. k.op = j.op /\ k.began = j.began /\ k.cart = j.cart
    BY <2>2 DEF Job
  <2>4. QED
    BY <1>5, <2>2, <2>3 DEF Good
<1>25. CASE ReadHolders(w)
  <2>1. pc[w] = "members" /\ j.op = "stop" /\ j.stream \in Streams
    BY <1>5, <1>25 DEF ReadHolders, Good
  <2>2. PICK todo \in SUBSET Buyers : todo = holders[j.stream]
    BY <2>1 DEF TypeOK
  <2>3. PICK end \in Nat, left \in Nat :
           /\ end = j.began + Window /\ left = IF end > now THEN end - now ELSE 1
           /\ left # 0 /\ end <= now + left
    BY <1>1, <1>4, CartAssumption
  <2>4. [j EXCEPT !.todo = todo, !.ttl = left] \in Job
    BY <2>3 DEF Job
  <2>5. at = "next" /\ k = [j EXCEPT !.todo = todo, !.ttl = left]
    BY <1>2, <1>9, <1>25, <2>2, <2>3, <2>4 DEF ReadHolders
  <2>6. k.op = j.op /\ k.began = j.began /\ k.cart = j.cart /\ k.stream = j.stream /\ k.ttl = left
    BY <2>5 DEF Job
  <2>7. QED
    BY <1>5, <2>1, <2>3, <2>5, <2>6 DEF Good
<1>26. CASE RefreshHolder(w)
  <2>1. /\ pc[w] = "next" /\ j.op = "stop" /\ j.stream \in Streams
        /\ j.ttl # 0 /\ j.began + Window <= now + j.ttl
        /\ j.began \in grounds[j.stream] /\ j.began <= now
    BY <1>5, <1>26 DEF RefreshHolder, Good
  <2>2. PICK b \in j.todo :
           LET c == cart[b]
               visit == [j EXCEPT !.buyer = b, !.todo = @ \ {b}]
           IN  IF c.items = {} \/ c.stream # j.stream
               THEN With(w, "unindex", [visit EXCEPT !.cart = [NoCart EXCEPT !.stream = j.stream]])
               ELSE With(w, "save", [visit EXCEPT !.cart = [c EXCEPT !.expires = j.began + Window]])
    BY <1>2, <1>11, <1>26 DEF RefreshHolder
  <2>3. PICK visit \in Job : visit = [j EXCEPT !.buyer = b, !.todo = @ \ {b}]
    BY DEF Job
  <2>4. PICK c \in Cart : c = cart[b]
    BY DEF Job, TypeOK
  <2>5. visit.op = "stop" /\ visit.began = j.began /\ visit.ttl = j.ttl /\ visit.stream = j.stream
    BY <2>1, <2>3 DEF Job
  <2>6. \A d \in Cart : [visit EXCEPT !.cart = d] \in Job
    BY <2>3 DEF Job
  <2>7. ASSUME NEW d \in Cart, NEW to \in {"unindex", "save"},
               With(w, to, [visit EXCEPT !.cart = d])
        PROVE  /\ at = to /\ k.cart = d /\ k.op = "stop" /\ k.began = j.began
               /\ k.ttl = j.ttl /\ k.stream = j.stream
    <3>1. at = to /\ k = [visit EXCEPT !.cart = d]
      BY <1>9, <2>6, <2>7
    <3>2. QED
      BY <2>5, <3>1 DEF Job
  <2>8. CASE c.items = {} \/ c.stream # j.stream
    <3>1. PICK d \in Cart : d = [NoCart EXCEPT !.stream = j.stream]
      BY <2>1 DEF NoCart, Cart
    <3>2. d.expires = 0
      BY <3>1 DEF NoCart
    <3>3. QED
      BY <1>5, <1>15, <2>1, <2>2, <2>3, <2>4, <2>7, <2>8, <3>1, <3>2 DEF Good
  <2>9. CASE c.items # {} /\ c.stream = j.stream
    <3>1. PICK d \in Cart : d = [c EXCEPT !.expires = j.began + Window]
      <4>1. j.began + Window \in Nat
        BY <1>4, CartAssumption
      <4>2. QED
        BY <4>1 DEF Cart
    <3>2. d.expires = j.began + Window /\ d.stream = j.stream
      BY <2>9, <3>1 DEF Cart
    <3>3. at = "save" /\ k.cart = d /\ k.op = "stop" /\ k.began = j.began
          /\ k.ttl = j.ttl /\ k.stream = j.stream
      BY <2>2, <2>3, <2>4, <2>7, <2>9, <3>1
    <3>4. OnGround(d.expires, d.stream) /\ Covered(now + j.ttl, d.stream)
      BY <2>1, <3>2 DEF OnGround, Covered
    <3>5. QED
      BY <2>1, <3>2, <3>3, <3>4 DEF Good
  <2>10. QED
    BY <2>8, <2>9
<1>27. QED
  BY <1>12, <1>13, <1>b, <1>14, <1>17, <1>18, <1>20, <1>21, <1>22, <1>23, <1>24, <1>25, <1>26 DEF Step

\* What a step of request w does to the keys.
LEMMA StepKeys ==
    ASSUME TypeOK, JobsOK, KeysOK, NEW w \in Workers, Step(w)
    PROVE  /\ UNCHANGED <<now, stream, grounds, since>>
           /\ holders' \in [Streams -> SUBSET Buyers]
           /\ cart' \in [Buyers -> Cart] /\ ttl' \in [Buyers -> Nat]
           /\ KeysOK'
<1>1. pc[w] # "idle" /\ job[w] \in Job /\ JobOK(w)
  BY StepLocals DEF TypeOK, JobsOK
<1>2. PICK j \in Job : j = job[w]
  BY <1>1
<1>3. j.cart \in Cart /\ j.buyer \in Buyers /\ j.ttl \in Nat /\ now \in Nat
  BY CartAssumption DEF Job, TypeOK
<1>4. UNCHANGED <<now, stream, grounds, since>>
  BY DEF Step, LoadCart, ReadStream, SaveCartState, IndexCart, ClearCart, UnindexCart, ResumeGet,
     ResumeSweep, ResumeCheckout, ResumeAdd, ResumeUpdate, ResumeRemove, Persisted, Reply,
     PlaceOrder, ReadHolders, RefreshHolder, Local, db
<1>5. CASE UNCHANGED redis
  BY <1>4, <1>5 DEF redis, KeysOK, OnGround, Covered, TypeOK
<1>6. CASE IndexCart(w) \/ UnindexCart(w)
  <2>1. UNCHANGED <<cart, ttl>>
    BY <1>6 DEF IndexCart, UnindexCart
  <2>2. holders' \in [Streams -> SUBSET Buyers]
    BY <1>2, <1>3, <1>6 DEF IndexCart, UnindexCart, TypeOK
  <2>3. QED
    BY <1>4, <2>1, <2>2 DEF KeysOK, OnGround, Covered, TypeOK
<1>7. CASE ClearCart(w)
  <2>1. NoCart \in Cart /\ NoCart.expires = 0
    BY DEF NoCart, Cart
  <2>2. cart' = [cart EXCEPT ![j.buyer] = NoCart] /\ ttl' = [ttl EXCEPT ![j.buyer] = 0]
        /\ UNCHANGED holders
    BY <1>2, <1>7 DEF ClearCart
  <2>3. cart' \in [Buyers -> Cart] /\ ttl' \in [Buyers -> Nat]
    BY <2>1, <2>2 DEF TypeOK
  <2>4. KeysOK'
    BY <1>3, <1>4, <2>1, <2>2, CartAssumption DEF KeysOK, OnGround, Covered, TypeOK
  <2>5. QED
    BY <1>4, <2>2, <2>3, <2>4 DEF TypeOK
<1>8. CASE SaveCartState(w)
  <2>1. PICK t \in Nat : t = IF j.ttl = 0 THEN 0 ELSE now + j.ttl
    BY <1>3
  <2>2. cart' = [cart EXCEPT ![j.buyer] = j.cart] /\ ttl' = [ttl EXCEPT ![j.buyer] = t]
        /\ UNCHANGED holders /\ pc[w] = "save"
    BY <1>2, <1>8, <2>1 DEF SaveCartState
  <2>3. cart' \in [Buyers -> Cart] /\ ttl' \in [Buyers -> Nat]
    BY <1>3, <2>2 DEF TypeOK
  <2>4. /\ j.cart.expires # 0 => OnGround(j.cart.expires, j.cart.stream)
        /\ t # 0 => Covered(t, j.cart.stream)
    BY <1>1, <1>2, <2>1, <2>2 DEF JobOK
  <2>5. KeysOK'
    BY <1>3, <1>4, <2>2, <2>4 DEF KeysOK, OnGround, Covered, TypeOK
  <2>6. QED
    BY <1>4, <2>2, <2>3, <2>5 DEF TypeOK
<1>9. QED
  BY <1>5, <1>6, <1>7, <1>8
     DEF Step, LoadCart, ReadStream, ResumeGet, ResumeSweep, ResumeCheckout, ResumeAdd,
         ResumeUpdate, ResumeRemove, Persisted, Reply, PlaceOrder, ReadHolders, RefreshHolder, Local

CartInv == TypeOK /\ RowsOK /\ KeysOK /\ JobsOK

\* The clock and the rows keep their types, the rows what is said of them.
LEMMA InvInit == Init => CartInv
<1> SUFFICES ASSUME Init PROVE CartInv
  OBVIOUS
<1>1. /\ cart \in [Buyers -> Cart]
      /\ \A b \in Buyers : cart[b].expires = 0
  <2>1. NoCart \in Cart /\ Legacy \in Cart /\ NoCart.expires = 0 /\ Legacy.expires = 0
    BY DEF NoCart, Legacy, Cart
  <2>2. QED
    BY <2>1 DEF Init
<1>2. now \in 0..MaxTime
  BY CartAssumption DEF Init
<1>3. /\ \A w \in Workers : pc[w] = "idle" /\ job[w] = Free
      /\ \A b \in Buyers : ttl[b] = 0
  BY DEF Init
<1>4. stream \in [Streams -> Row]
  <2>1. Created(1) \in Row /\ \A t \in Dates : Scheduled(t) \in Row
    BY CartAssumption DEF Created, Scheduled, Row
  <2>2. QED
    BY <2>1 DEF Init
<1>a. /\ grounds \in [Streams -> SUBSET Nat] /\ since \in [Streams -> Nat]
      /\ \A s \in Streams : stream[s].phase = "off" => stream[s].end \in grounds[s]
  <2>1. \A s \in Streams : stream[s].end \in Nat
    BY <1>4 DEF Row
  <2>2. QED
    BY <2>1 DEF Init
<1>5. TypeOK
  BY <1>1, <1>2, <1>3, <1>4, <1>a, CartAssumption DEF Init, TypeOK
<1>6. RowsOK /\ KeysOK /\ JobsOK
  BY <1>1, <1>3, <1>a DEF RowsOK, KeysOK, JobsOK
<1>7. QED
  BY <1>5, <1>6 DEF CartInv

\* Only request w moved.
LEMMA OthersKept ==
    ASSUME TypeOK, TypeOK', JobsOK, Later, NEW w \in Workers,
           \A v \in Workers \ {w} : pc'[v] = pc[v] /\ job'[v] = job[v],
           pc'[w] # "idle" => JobOK(w)'
    PROVE  JobsOK'
<1>1. ASSUME NEW v \in Workers, pc'[v] # "idle" PROVE JobOK(v)'
  <2>1. CASE v = w
    BY <1>1, <2>1
  <2>2. CASE v # w
    BY <1>1, <2>2, JobKept DEF JobsOK
  <2>3. QED
    BY <2>1, <2>2
<1>2. QED
  BY <1>1 DEF JobsOK

\* A request that begins and touches nothing else.
LEMMA BeginKeeps ==
    ASSUME CartInv, NEW w \in Workers, NEW op \in Ops \ {"stop"}, NEW b \in Buyers,
           NEW s \in Streams \cup {NoStream}, NEW p \in Products,
           Begin(w, op, b, s, p, "load"), Local
    PROVE  CartInv'
<1>1. /\ pc' = [pc EXCEPT ![w] = "load"] /\ job'[w] \in Job
      /\ \A v \in Workers \ {w} : job'[v] = job[v]
      /\ job' \in [Workers -> Job \cup {Free}]
      /\ job'[w] = [op |-> op, buyer |-> b, stream |-> s, item |-> p,
                    began |-> IF w = Sweeper THEN 0 ELSE now, judged |-> 0, stage |-> "enforce", cart |-> NoCart, ttl |-> 0, todo |-> {}]
  BY BeginTyped DEF CartInv, Steps
<1>2. UNCHANGED <<now, stream, grounds, since, cart, ttl, holders>>
  BY DEF Local, db, redis
<1>3. TypeOK'
  BY <1>1, <1>2 DEF CartInv, TypeOK, Steps
<1>4. RowsOK' /\ KeysOK'
  BY <1>2 DEF CartInv, RowsOK, KeysOK, OnGround, Covered
<1>5. Later
  BY <1>2, CartAssumption DEF Later, CartInv, TypeOK
<1>6. JobOK(w)'
  <2>1. pc'[w] = "load"
    BY <1>1 DEF CartInv, TypeOK
  <2>2. now \in Nat /\ now' = now
    BY <1>2, CartAssumption DEF CartInv, TypeOK
  <2>3. job'[w].began <= now' /\ job'[w].op # "stop" /\ job'[w].cart.expires = 0
    BY <1>1, <2>2 DEF NoCart
  <2>4. QED
    BY <2>1, <2>3 DEF JobOK
<1>7. JobsOK'
  BY <1>1, <1>3, <1>5, <1>6, OthersKept DEF CartInv, TypeOK
<1>8. QED
  BY <1>3, <1>4, <1>7 DEF CartInv

\* The row of a stream is written: the histories keep what they had, and the rows
\* and keys stay as RowsOK and KeysOK say.
LEMMA PutKeeps ==
    ASSUME CartInv, NEW s \in Streams, NEW new \in Row, Put(s, new), UNCHANGED <<now, cart, ttl>>
    PROVE  /\ stream' \in [Streams -> Row] /\ grounds' \in [Streams -> SUBSET Nat]
           /\ since' \in [Streams -> Nat]
           /\ Later /\ RowsOK' /\ KeysOK'
           /\ new.phase = "off" => new.end \in grounds'[s]
<1>1. now \in Nat /\ new.end \in Nat
  BY CartAssumption DEF CartInv, TypeOK, Row
<1>2. PICK more \in SUBSET Nat :
         /\ more = IF new.phase = "off" THEN grounds[s] \cup {new.end} ELSE grounds[s]
         /\ grounds' = [grounds EXCEPT ![s] = more]
  BY <1>1 DEF Put, CartInv, TypeOK
<1>3. stream' = [stream EXCEPT ![s] = new]
      /\ since' = [since EXCEPT ![s] = IF new.phase = "off" THEN now ELSE 0]
  BY DEF Put
<1>4. /\ stream' \in [Streams -> Row] /\ grounds' \in [Streams -> SUBSET Nat]
      /\ since' \in [Streams -> Nat]
  BY <1>1, <1>2, <1>3 DEF CartInv, TypeOK
<1>5. Later
  BY <1>1, <1>2 DEF Later, CartInv, TypeOK
<1>6. RowsOK'
  <2>1. ASSUME NEW q \in Streams, q # s
        PROVE  stream'[q] = stream[q] /\ grounds'[q] = grounds[q]
    BY <1>2, <1>3, <2>1 DEF CartInv, TypeOK
  <2>2. stream'[s] = new /\ grounds'[s] = more
    BY <1>2, <1>3 DEF CartInv, TypeOK
  <2>3. QED
    BY <1>2, <2>1, <2>2 DEF CartInv, RowsOK
<1>7. KeysOK'
  <2>1. ASSUME NEW c \in Buyers
        PROVE  /\ cart[c].expires # 0 => OnGround(cart[c].expires, cart[c].stream)'
               /\ ttl[c] # 0 => Covered(ttl[c], cart[c].stream)'
    BY <1>5, GroundKept DEF CartInv, KeysOK, OnGround, Covered
  <2>2. QED
    BY <2>1 DEF KeysOK, OnGround, Covered
<1>8. new.phase = "off" => new.end \in grounds'[s]
  BY <1>2 DEF CartInv, TypeOK
<1>9. QED
  BY <1>4, <1>5, <1>6, <1>7, <1>8

\* stopStream writes an end, and tells the carts of that very end.
LEMMA StopKeeps ==
    ASSUME CartInv, NEW w \in Requests, NEW s \in Streams, StopStream(w, s)
    PROVE  CartInv'
<1>0. w \in Workers
  BY DEF Workers
<1>1. PICK b \in Buyers, p \in Products : Begin(w, "stop", b, s, p, "members")
  BY DEF StopStream
<1>2. /\ pc' = [pc EXCEPT ![w] = "members"] /\ job'[w] \in Job
      /\ \A v \in Workers \ {w} : job'[v] = job[v]
      /\ job' \in [Workers -> Job \cup {Free}]
      /\ job'[w] = [op |-> "stop", buyer |-> b, stream |-> s, item |-> p, began |-> now,
                    judged |-> 0, stage |-> "enforce", cart |-> NoCart, ttl |-> 0, todo |-> {}]
  BY <1>0, <1>1, BeginTyped, CartAssumption DEF CartInv, Steps, Ops
<1>3. now \in Nat /\ UNCHANGED <<now, cart, ttl, holders>>
  BY CartAssumption DEF StopStream, redis, CartInv, TypeOK
<1>4. PICK new \in Row : Put(s, new) /\ new.phase = "off" /\ new.end = now
  <2>1. PICK new : new = [stream[s] EXCEPT !.phase = "off", !.ended = TRUE, !.end = now]
    OBVIOUS
  <2>2. stream[s] \in Row
    BY DEF CartInv, TypeOK
  <2>3. new \in Row /\ new.phase = "off" /\ new.end = now
    BY <1>3, <2>1, <2>2 DEF Row
  <2>4. QED
    BY <2>1, <2>3 DEF StopStream
<1>5. /\ stream' \in [Streams -> Row] /\ grounds' \in [Streams -> SUBSET Nat]
      /\ since' \in [Streams -> Nat]
      /\ Later /\ RowsOK' /\ KeysOK' /\ now \in grounds'[s]
  BY <1>3, <1>4, PutKeeps
<1>6. TypeOK'
  BY <1>2, <1>3, <1>5 DEF CartInv, TypeOK, Steps
<1>7. JobOK(w)'
  <2>1. pc'[w] = "members"
    BY <1>0, <1>2 DEF CartInv, TypeOK
  <2>2. /\ job'[w].began = now /\ job'[w].op = "stop" /\ job'[w].stream = s
        /\ job'[w].cart.expires = 0
    BY <1>2 DEF NoCart
  <2>3. now' = now /\ now <= now
    BY <1>3
  <2>4. QED
    BY <1>5, <2>1, <2>2, <2>3 DEF JobOK
<1>8. JobsOK'
  BY <1>0, <1>2, <1>5, <1>6, <1>7, OthersKept DEF CartInv, TypeOK
<1>9. QED
  BY <1>5, <1>6, <1>8 DEF CartInv

\* What a change of the row alone writes.
LEMMA MoveWrites ==
    ASSUME CartInv, NEW s \in Streams, StreamMoves(s)
    PROVE  \E new \in Row : RowOnly(s, new)
<1>1. stream[s] \in Row /\ now \in Nat
  BY CartAssumption DEF CartInv, TypeOK
<1>2. Created(now) \in Row /\ Deleted \in Row
  BY <1>1 DEF Created, Deleted, Row
<1>3. /\ [stream[s] EXCEPT !.phase = "live"] \in Row
      /\ [stream[s] EXCEPT !.phase = "off"] \in Row
      /\ \A t \in Dates : [stream[s] EXCEPT !.end = t] \in Row
  BY <1>1, CartAssumption DEF Row
<1>4. QED
  BY <1>2, <1>3 DEF StreamMoves, StartScheduled, PatchLive, PatchOff, DeleteStream, Reschedule

\* The rows change, no request moves.
LEMMA RowKeeps ==
    ASSUME CartInv, NEW s \in Streams, StreamMoves(s)
    PROVE  CartInv'
<1>1. PICK new \in Row : RowOnly(s, new)
  BY MoveWrites
<1>2. Put(s, new) /\ UNCHANGED <<now, cart, ttl, holders, pc, job>>
  BY <1>1 DEF RowOnly, redis
<1>3. /\ stream' \in [Streams -> Row] /\ grounds' \in [Streams -> SUBSET Nat]
      /\ since' \in [Streams -> Nat]
      /\ Later /\ RowsOK' /\ KeysOK'
  BY <1>2, PutKeeps
<1>4. TypeOK'
  BY <1>2, <1>3 DEF CartInv, TypeOK
<1>5. JobsOK'
  BY <1>2, <1>3, <1>4, JobKept DEF CartInv, JobsOK
<1>6. QED
  BY <1>3, <1>4, <1>5 DEF CartInv

\* Time passes; the keys that are left keep their expiry.
LEMMA TickKeeps ==
    ASSUME CartInv, Tick
    PROVE  CartInv'
<1>1. now' = now + 1 /\ now < MaxTime /\ UNCHANGED <<holders, pc, job, stream, grounds, since>>
  BY DEF Tick, db
<1>2. now \in Nat /\ now' \in 1..MaxTime /\ now <= now'
  BY <1>1, CartAssumption DEF CartInv, TypeOK
<1>3. PICK dropped \in SUBSET Buyers :
        /\ cart' = [b \in Buyers |-> IF b \in dropped THEN NoCart ELSE cart[b]]
        /\ ttl' = [b \in Buyers |-> IF b \in dropped THEN 0 ELSE ttl[b]]
  BY DEF Tick
<1>4. NoCart \in Cart /\ NoCart.expires = 0
  BY DEF NoCart, Cart
<1>5. cart' \in [Buyers -> Cart] /\ ttl' \in [Buyers -> Nat]
  BY <1>3, <1>4 DEF CartInv, TypeOK
<1>6. TypeOK'
  BY <1>1, <1>2, <1>5 DEF CartInv, TypeOK
<1>7. Later
  BY <1>1, <1>2 DEF Later
<1>8. RowsOK'
  BY <1>1 DEF CartInv, RowsOK
<1>9. KeysOK'
  <2>1. ASSUME NEW c \in Buyers, c \notin dropped
        PROVE  /\ cart'[c] = cart[c] /\ ttl'[c] = ttl[c]
               /\ cart[c].expires # 0 => OnGround(cart[c].expires, cart[c].stream)'
               /\ ttl[c] # 0 => Covered(ttl[c], cart[c].stream)'
    BY <1>1, <1>3, <2>1 DEF CartInv, KeysOK, OnGround, Covered
  <2>2. \A c \in dropped : cart'[c].expires = 0 /\ ttl'[c] = 0
    BY <1>3, <1>4
  <2>3. QED
    BY <2>1, <2>2 DEF KeysOK, OnGround, Covered
<1>10. JobsOK'
  BY <1>1, <1>6, <1>7, JobKept DEF CartInv, JobsOK
<1>11. QED
  BY <1>6, <1>8, <1>9, <1>10 DEF CartInv

\* A request gives up.
LEMMA CloseKeeps ==
    ASSUME CartInv, NEW w \in Workers, Close(w), Local
    PROVE  CartInv'
<1>1. UNCHANGED <<now, stream, grounds, since, cart, ttl, holders>>
  BY DEF Local, db, redis
<1>2. /\ pc' = [pc EXCEPT ![w] = "idle"] /\ pc'[w] = "idle"
      /\ job' = [job EXCEPT ![w] = Free]
  BY DEF Close, CartInv, TypeOK
<1>3. TypeOK'
  BY <1>1, <1>2 DEF CartInv, TypeOK
<1>4. RowsOK' /\ KeysOK'
  BY <1>1 DEF CartInv, RowsOK, KeysOK, OnGround, Covered
<1>5. Later
  BY <1>1, CartAssumption DEF Later, CartInv, TypeOK
<1>6. JobsOK'
  BY <1>2, <1>3, <1>5, OthersKept DEF CartInv, TypeOK
<1>7. QED
  BY <1>3, <1>4, <1>6 DEF CartInv

\* A step of a request, whichever it is.
LEMMA StepKeeps ==
    ASSUME CartInv, NEW w \in Workers, Step(w)
    PROVE  CartInv'
<1>1. /\ UNCHANGED <<now, stream, grounds, since>> /\ KeysOK'
      /\ holders' \in [Streams -> SUBSET Buyers]
      /\ cart' \in [Buyers -> Cart] /\ ttl' \in [Buyers -> Nat]
  BY StepKeys DEF CartInv
<1>2. /\ pc[w] # "idle"
      /\ Close(w) \/ \E at \in Steps, new \in Job : With(w, at, new)
  BY StepLocals DEF CartInv
<1>3. \A v \in Workers \ {w} : pc'[v] = pc[v] /\ job'[v] = job[v]
  BY <1>2 DEF Close, With, CartInv, TypeOK
<1>4. TypeOK'
  <2>1. pc' \in [Workers -> {"idle"} \cup Steps] /\ job' \in [Workers -> Job \cup {Free}]
    BY <1>2 DEF Close, With, CartInv, TypeOK
  <2>2. pc'[w] # "idle" => job'[w] \in Job
    BY <1>2 DEF Close, With, CartInv, TypeOK
  <2>3. QED
    BY <1>1, <1>3, <2>1, <2>2 DEF CartInv, TypeOK
<1>5. Later
  BY <1>1, CartAssumption DEF Later, CartInv, TypeOK
<1>6. RowsOK'
  BY <1>1 DEF CartInv, RowsOK
<1>7. pc'[w] # "idle" => JobOK(w)'
  BY <1>1, <1>2, <1>4, <1>5, StepKeepsJob DEF CartInv, JobsOK
<1>8. JobsOK'
  BY <1>3, <1>4, <1>5, <1>7, OthersKept DEF CartInv
<1>9. QED
  BY <1>1, <1>4, <1>6, <1>8 DEF CartInv

\* Every step keeps the invariant.
LEMMA InvNext == CartInv /\ [Next]_vars => CartInv'
<1> SUFFICES ASSUME CartInv, [Next]_vars PROVE CartInv'
  OBVIOUS
<1>0. Requests \subseteq Workers /\ Sweeper \in Workers
  BY DEF Workers
<1>1. CASE Tick
  BY <1>1, TickKeeps
<1>2. ASSUME NEW s \in Streams, StreamMoves(s) PROVE CartInv'
  BY <1>2, RowKeeps
<1>3. ASSUME NEW b \in Buyers, SweepCart(b) PROVE CartInv'
  <2>1. PICK p \in Products : Begin(Sweeper, "sweep", b, NoStream, p, "load") /\ Local
    BY <1>3 DEF SweepCart
  <2>2. QED
    BY <1>0, <2>1, BeginKeeps DEF Ops
<1>4. ASSUME NEW w \in Requests, Request(w) PROVE CartInv'
  <2>1. CASE \E s \in Streams : StopStream(w, s)
    BY <2>1, StopKeeps
  <2>2. CASE \E b \in Buyers, s \in Streams \cup {NoStream}, p \in Products, op \in Ops \ {"stop"} :
                Begin(w, op, b, s, p, "load") /\ Local
    BY <1>0, <2>2, BeginKeeps
  <2>3. QED
    BY <1>4, <2>1, <2>2 DEF Request, GetCart, CheckoutFromCart, AddCartItem, UpdateCartItem,
       RemoveCartItem, Ops
<1>5. ASSUME NEW w \in Requests, Fail(w) PROVE CartInv'
  BY <1>0, <1>5, CloseKeeps DEF Fail
<1>6. ASSUME NEW w \in Workers, Step(w) PROVE CartInv'
  BY <1>6, StepKeeps
<1>7. CASE UNCHANGED vars
  <2>1. UNCHANGED <<now, stream, grounds, since, cart, ttl, holders, pc, job>>
    BY <1>7 DEF vars
  <2>2. TypeOK' /\ RowsOK' /\ KeysOK'
    BY <2>1 DEF CartInv, TypeOK, RowsOK, KeysOK, OnGround, Covered
  <2>3. Later
    BY <2>1, CartAssumption DEF Later, CartInv, TypeOK
  <2>4. JobsOK'
    BY <2>1, <2>2, <2>3, JobKept DEF CartInv, JobsOK
  <2>5. QED
    BY <2>2, <2>4 DEF CartInv
<1>8. QED
  BY <1>1, <1>2, <1>3, <1>4, <1>5, <1>6, <1>7 DEF Next

\* Every variable keeps its type, and CartInv holds, for any number of buyers,
\* streams and requests.
THEOREM CartsTyped == Spec => [](TypeOK /\ CartInv)
BY InvInit, InvNext, PTL DEF Spec, CartInv

\* However requests, the sweep and changes of streams overlap, the expiry on a cart
\* is a window after an instant that stood for the end of its stream while that was
\* off, and no TTL drops the key before such an expiry.
THEOREM CartsKeepTheirWindow == Spec => []WindowCovered
<1>1. CartInv => WindowCovered
  BY DEF CartInv, KeysOK, WindowCovered
<1>2. QED
  BY <1>1, CartsTyped, PTL

\* A row that turns off does so now: a request that stands still does not become
\* late.
LEMMA LateKept ==
    ASSUME CartInv, [Next]_vars, NEW w \in Workers, pc'[w] = pc[w], job'[w] = job[w],
           Passes(w), ~Late(w)
    PROVE  ~Late(w)'
<1>1. job[w] \in Job /\ JobOK(w) /\ pc[w] # "idle"
  BY DEF Passes, CartInv, TypeOK, JobsOK
<1>2. PICK s \in Streams, n \in Nat : s = job[w].cart.stream /\ n = job[w].began /\ n <= now
  BY <1>1 DEF JobOK, Passes, Job
<1>3. ~(stream[s].phase = "off" /\ since[s] < n /\ stream[s].end + Window <= n)
  BY <1>2 DEF Late
<1>4. CASE stream' = stream /\ since' = since
  BY <1>2, <1>3, <1>4 DEF Late
<1>5. ASSUME NEW q \in Streams, NEW new, Put(q, new)
      PROVE  ~Late(w)'
  <2>1. \/ stream'[s] = stream[s] /\ since'[s] = since[s]
        \/ stream'[s].phase # "off"
        \/ since'[s] = now
    BY <1>5 DEF Put, CartInv, TypeOK
  <2>2. ~(now < n)
    BY <1>2, CartAssumption DEF CartInv, TypeOK
  <2>3. QED
    BY <1>2, <1>3, <2>1, <2>2 DEF Late
<1>6. \/ stream' = stream /\ since' = since
      \/ \E q \in Streams : \E new : Put(q, new)
  <2>1. ASSUME NEW v \in Workers, Step(v) PROVE stream' = stream /\ since' = since
    BY <2>1, StepKeys DEF CartInv
  <2>2. ASSUME NEW v \in Requests, Request(v)
        PROVE  \/ stream' = stream /\ since' = since
               \/ \E q \in Streams : \E new : Put(q, new)
    BY <2>2 DEF Request, GetCart, CheckoutFromCart, AddCartItem, UpdateCartItem, RemoveCartItem,
       StopStream, Local, db
  <2>3. ASSUME NEW q \in Streams, StreamMoves(q) PROVE \E new : Put(q, new)
    BY <2>3, MoveWrites DEF RowOnly
  <2>4. QED
    BY <2>1, <2>2, <2>3 DEF Next, vars, Tick, SweepCart, Fail, Local, db
<1>7. QED
  BY <1>4, <1>5, <1>6

\* What request w carries past enforceCartExpiry, its own step has looked at.
LEMMA StepServes ==
    ASSUME CartInv, NoneLate, NEW w \in Workers, Step(w), Passes(w)'
    PROVE  ~Late(w)'
<1>1. job[w] \in Job /\ JobOK(w) /\ UNCHANGED <<now, stream, since>>
  BY StepLocals, StepKeys DEF CartInv, TypeOK, JobsOK
<1>2. PICK j \in Job : j = job[w]
  BY <1>1
<1>3. PICK at \in Steps, k \in Job : at = pc'[w] /\ k = job'[w]
  BY StepLocals DEF With, Close, Passes, CartInv, TypeOK
<1>4. /\ at \in {"save", "index", "enforced", "reply", "place"}
      /\ k.op # "stop" /\ k.cart.items # {}
  BY <1>3 DEF Passes
<1>5. ASSUME NEW l \in Job, NEW to, With(w, to, l)
      PROVE  at = to /\ k = l
  BY <1>3, <1>5 DEF With, CartInv, TypeOK
<1>6. ASSUME NEW to, Goto(w, to)
      PROVE  at = to /\ k = j
  BY <1>2, <1>3, <1>6 DEF Goto, CartInv, TypeOK
<1>7. ~ Close(w)
  BY <1>3 DEF Close, CartInv, TypeOK, Steps
<1>8. NoCart \in Cart /\ NoCart.items = {}
  BY DEF NoCart, Cart
<1>9. j.cart \in Cart /\ j.began \in Nat /\ j.began <= now /\ now \in Nat
  BY <1>1, <1>2, CartAssumption DEF JobOK, Job, CartInv, TypeOK
<1>10. CASE Passes(w) /\ k.cart.stream = j.cart.stream /\ k.began = j.began
  BY <1>1, <1>2, <1>3, <1>10 DEF NoneLate, Late
<1>11. CASE ReadStream(w)
  <2>1. PICK row : row = stream[j.cart.stream]
    OBVIOUS
  <2>2. CASE row.phase = "live" /\ With(w, "save", [j EXCEPT !.ttl = 0, !.judged = 0])
    <3>1. [j EXCEPT !.ttl = 0, !.judged = 0] \in Job
      BY DEF Job
    <3>2. k = [j EXCEPT !.ttl = 0, !.judged = 0]
      BY <1>5, <2>2, <3>1
    <3>3. k.cart = j.cart
      BY <3>2 DEF Job
    <3>4. QED
      BY <1>1, <1>3, <2>1, <2>2, <3>3 DEF Late
  <2>3. CASE /\ row.phase = "off" /\ WindowEnd(row) > j.judged
             /\ With(w, "save", [j EXCEPT !.cart.expires = WindowEnd(row),
                                         !.ttl = WindowEnd(row) - j.judged, !.judged = 0])
    <3>1. row \in Row
      BY <1>1, <1>2, <1>11, <2>1 DEF ReadStream, JobOK, CartInv, TypeOK
    <3>2. PICK end \in Nat : end = WindowEnd(row)
      BY <3>1, CartAssumption DEF WindowEnd, Row
    <3>3. j.judged \in Nat /\ j.began <= j.judged
      BY <1>1, <1>2, <1>11 DEF ReadStream, JobOK, Job
    <3>a. PICK left \in Nat : left = end - j.judged
      BY <2>3, <3>2, <3>3
    <3>4. [j EXCEPT !.cart.expires = end, !.ttl = left, !.judged = 0] \in Job
      BY <3>2, <3>a DEF Job, Cart
    <3>5. k = [j EXCEPT !.cart.expires = end, !.ttl = left, !.judged = 0]
      BY <1>5, <2>3, <3>2, <3>a, <3>4
    <3>6. k.cart.stream = j.cart.stream /\ k.began = j.began
      BY <3>5 DEF Job, Cart
    <3>7. ~(row.end + Window <= k.began)
      BY <1>9, <2>3, <3>1, <3>3, <3>6, CartAssumption DEF WindowEnd, Row
    <3>8. QED
      BY <1>1, <1>3, <2>1, <3>6, <3>7 DEF Late
  <2>4. QED
    BY <1>2, <1>4, <1>6, <1>11, <2>1, <2>2, <2>3 DEF ReadStream
<1>a. ASSUME NEW stage \in Stages PROVE ~ NextLook(w, stage)
  <2>1. [j EXCEPT !.stage = stage, !.cart = NoCart, !.ttl = 0] \in Job
    BY <1>8 DEF Job
  <2>2. QED
    BY <1>2, <1>4, <1>5, <2>1 DEF NextLook
<1>b. CASE SaveCartState(w)
  <2>1. PICK left \in Nat : With(w, "index", [j EXCEPT !.ttl = left]) /\ pc[w] = "save"
    BY <1>2, <1>b DEF SaveCartState, Job
  <2>2. [j EXCEPT !.ttl = left] \in Job
    BY DEF Job
  <2>3. k = [j EXCEPT !.ttl = left]
    BY <1>5, <2>1, <2>2
  <2>4. k.cart = j.cart /\ k.began = j.began /\ k.op = j.op
    BY <2>3 DEF Job
  <2>5. QED
    BY <1>2, <1>4, <1>10, <2>1, <2>4 DEF Passes
<1>12. CASE ClearCart(w) \/ ResumeGet(w) \/ ResumeSweep(w) \/ ResumeCheckout(w) \/ Reply(w)
  BY <1>2, <1>4, <1>6, <1>7, <1>10, <1>a, <1>12
     DEF Stages, ClearCart, ResumeGet, ResumeSweep, ResumeCheckout, Reply, Enforced, Passes
<1>13. ~ AnswerWithGet(w)
  <2>1. [j EXCEPT !.stage = "enforce", !.cart = NoCart, !.ttl = 0] \in Job
    BY <1>8 DEF Job, Stages
  <2>2. QED
    BY <1>2, <1>4, <1>5, <2>1 DEF AnswerWithGet
<1>14. CASE IndexCart(w)
  BY <1>2, <1>4, <1>6, <1>10, <1>13, <1>14 DEF IndexCart, Passes
<1>15. ASSUME NEW c \in Cart, Persist(w, c) PROVE FALSE
  <2>1. [j EXCEPT !.op = "get", !.stage = "persist", !.cart = c, !.stream = NoStream,
                  !.judged = now] \in Job
    BY <1>9 DEF Job, Ops, Stages
  <2>2. at = Judge(c)
        /\ k = [j EXCEPT !.op = "get", !.stage = "persist", !.cart = c, !.stream = NoStream,
                         !.judged = now]
    BY <1>2, <1>5, <1>15, <2>1 DEF Persist
  <2>3. k.cart = c
    BY <2>2 DEF Job
  <2>4. QED
    BY <1>4, <2>2, <2>3, JudgeSteps
<1>16. CASE LoadCart(w)
  <2>1. PICK c \in Cart : c = cart[j.buyer]
    BY DEF Job, CartInv, TypeOK
  <2>2. [j EXCEPT !.cart = c, !.judged = now] \in Job
    BY <1>9 DEF Job
  <2>3. at = Judge(c) /\ k = [j EXCEPT !.cart = c, !.judged = now]
    BY <1>2, <1>5, <1>16, <2>1, <2>2 DEF LoadCart
  <2>4. k.cart = c
    BY <2>3 DEF Job
  <2>5. QED
    BY <1>4, <2>3, <2>4, JudgeSteps
<1>17. CASE UnindexCart(w)
  <2>1. [j EXCEPT !.cart = NoCart] \in Job
    BY <1>8 DEF Job
  <2>2. ~ With(w, "enforced", [j EXCEPT !.cart = NoCart])
    BY <1>4, <1>5, <1>8, <2>1 DEF Job
  <2>3. QED
    BY <1>2, <1>4, <1>6, <1>7, <1>17, <2>2 DEF UnindexCart
<1>18. CASE ResumeAdd(w)
  <2>1. PICK s \in Streams \cup {NoStream} :
           Persist(w, [items |-> j.cart.items \cup {j.item}, stream |-> s, expires |-> 0])
    BY <1>2, <1>7, <1>9, <1>18 DEF ResumeAdd, Job, Cart
  <2>2. [items |-> j.cart.items \cup {j.item}, stream |-> s, expires |-> 0] \in Cart
    BY <1>9 DEF Cart, Job
  <2>3. QED
    BY <1>15, <2>1, <2>2
<1>19. CASE ResumeUpdate(w)
  BY <1>2, <1>7, <1>9, <1>15, <1>19 DEF ResumeUpdate
<1>20. CASE ResumeRemove(w)
  <2>1. [j EXCEPT !.op = "get", !.stage = "persist", !.cart = NoCart] \in Job
    BY <1>8 DEF Job, Ops, Stages
  <2>2. ~ With(w, "clear", [j EXCEPT !.op = "get", !.stage = "persist", !.cart = NoCart])
    BY <1>4, <1>5, <2>1
  <2>3. [j.cart EXCEPT !.items = j.cart.items \ {j.item}] \in Cart
    BY <1>9 DEF Cart
  <2>4. QED
    BY <1>2, <1>15, <1>20, <2>2, <2>3 DEF ResumeRemove
<1>21. CASE Persisted(w)
  <2>1. PICK left : With(w, "save", [j EXCEPT !.stage = "again", !.ttl = left])
                    /\ left = IF j.cart.expires = 0 THEN 0
                              ELSE IF j.cart.expires > now THEN j.cart.expires - now ELSE 1
    BY <1>2, <1>13, <1>21 DEF Persisted
  <2>2. left \in Nat
    BY <1>9, <2>1 DEF Cart
  <2>3. [j EXCEPT !.stage = "again", !.ttl = left] \in Job
    BY <2>2 DEF Job, Stages
  <2>4. k = [j EXCEPT !.stage = "again", !.ttl = left]
    BY <1>5, <2>1, <2>3
  <2>5. k.cart = j.cart /\ k.began = j.began /\ k.op = j.op
    BY <2>4 DEF Job
  <2>6. QED
    BY <1>2, <1>4, <1>10, <1>21, <2>5 DEF Persisted, Passes
<1>22. CASE PlaceOrder(w)
  <2>1. [j EXCEPT !.stage = "done"] \in Job
    BY DEF Job, Stages
  <2>2. QED
    BY <1>2, <1>4, <1>5, <1>22, <2>1 DEF PlaceOrder
<1>23. CASE ReadHolders(w)
  <2>1. PICK todo \in SUBSET Buyers : todo = holders[j.stream]
    BY <1>1, <1>2, <1>23 DEF ReadHolders, JobOK, CartInv, TypeOK
  <2>2. PICK end \in Nat : end = j.began + Window
    BY <1>9, CartAssumption
  <2>3. PICK left \in Nat : left = IF end > now THEN end - now ELSE 1
    BY <1>9, <2>2
  <2>4. [j EXCEPT !.todo = todo, !.ttl = left] \in Job
    BY <2>3 DEF Job
  <2>5. QED
    BY <1>2, <1>4, <1>5, <1>23, <2>1, <2>2, <2>3, <2>4 DEF ReadHolders
<1>24. CASE RefreshHolder(w)
  <2>1. pc[w] = "next" /\ j.op = "stop" /\ j.stream \in Streams
    BY <1>1, <1>2, <1>24 DEF RefreshHolder, JobOK
  <2>2. PICK b \in j.todo :
           LET c == cart[b]
               visit == [j EXCEPT !.buyer = b, !.todo = @ \ {b}]
           IN  IF c.items = {} \/ c.stream # j.stream
               THEN With(w, "unindex", [visit EXCEPT !.cart = [NoCart EXCEPT !.stream = j.stream]])
               ELSE With(w, "save", [visit EXCEPT !.cart = [c EXCEPT !.expires = j.began + Window]])
    BY <1>2, <1>7, <1>24 DEF RefreshHolder
  <2>3. PICK visit \in Job : visit = [j EXCEPT !.buyer = b, !.todo = @ \ {b}]
    BY DEF Job
  <2>4. PICK c \in Cart : c = cart[b]
    BY DEF Job, CartInv, TypeOK
  <2>5. [NoCart EXCEPT !.stream = j.stream] \in Cart
    BY <1>8, <2>1 DEF Cart
  <2>6. [c EXCEPT !.expires = j.began + Window] \in Cart
    <3>1. j.began + Window \in Nat
      BY <1>9, CartAssumption
    <3>2. QED
      BY <2>4, <3>1 DEF Cart
  <2>7. ASSUME NEW d \in Cart, NEW to, With(w, to, [visit EXCEPT !.cart = d]) PROVE FALSE
    <3>1. [visit EXCEPT !.cart = d] \in Job /\ [visit EXCEPT !.cart = d].op = "stop"
      BY <2>1, <2>3 DEF Job
    <3>2. QED
      BY <1>4, <1>5, <2>7, <3>1
  <2>8. QED
    BY <2>2, <2>3, <2>4, <2>5, <2>6, <2>7
<1>25. QED
  BY <1>11, <1>b, <1>12, <1>14, <1>16, <1>17, <1>18, <1>19, <1>20, <1>21, <1>22, <1>23, <1>24 DEF Step

\* Every step keeps what ServedInWindow rests on.
LEMMA NoneLateNext == CartInv /\ NoneLate /\ [Next]_vars => NoneLate'
<1> SUFFICES ASSUME CartInv, NoneLate, [Next]_vars, NEW w \in Workers, Passes(w)'
             PROVE  ~Late(w)'
  BY DEF NoneLate
<1>1. CASE Step(w)
  BY <1>1, StepServes
<1>2. CASE pc'[w] = pc[w] /\ job'[w] = job[w]
  <2>1. Passes(w)
    BY <1>2 DEF Passes
  <2>2. QED
    BY <1>2, <2>1, LateKept DEF NoneLate
<1>3. ASSUME NEW v \in Workers, Close(v) \/ (\E at, l : With(v, at, l))
      PROVE  v = w \/ (pc'[w] = pc[w] /\ job'[w] = job[w])
  BY <1>3 DEF Close, With, CartInv, TypeOK
<1>4. ASSUME NEW v \in Workers, Step(v) PROVE v = w \/ (pc'[w] = pc[w] /\ job'[w] = job[w])
  BY <1>3, <1>4, StepLocals DEF CartInv
<1>5. ASSUME NEW v \in Workers, NEW op, NEW b, NEW s, NEW p, NEW at \in {"load", "members"},
             Begin(v, op, b, s, p, at)
      PROVE  pc'[w] = pc[w] /\ job'[w] = job[w]
  BY <1>5 DEF Begin, CartInv, TypeOK, Passes
<1>6. ASSUME NEW v \in Requests, Fail(v) PROVE pc'[w] = pc[w] /\ job'[w] = job[w]
  BY <1>6 DEF Fail, Close, CartInv, TypeOK, Passes, Workers
<1>7. ASSUME NEW v \in Requests, Request(v) PROVE pc'[w] = pc[w] /\ job'[w] = job[w]
  BY <1>5, <1>7 DEF Request, GetCart, CheckoutFromCart, AddCartItem, UpdateCartItem,
     RemoveCartItem, StopStream, Workers
<1>8. ASSUME NEW b \in Buyers, SweepCart(b) PROVE pc'[w] = pc[w] /\ job'[w] = job[w]
  BY <1>5, <1>8 DEF SweepCart, Workers
<1>9. QED
  BY <1>1, <1>2, <1>4, <1>6, <1>7, <1>8 DEF Next, vars, Tick, StreamMoves, StartScheduled, PatchLive, PatchOff,
     DeleteStream, Reschedule, RowOnly

\* Whatever else steps between the awaits of a request, it is not served a cart
\* whose window was over when it started.
THEOREM LateCartsAreNotServed == Spec => []ServedInWindow
<1>1. Init => NoneLate
  BY DEF Init, NoneLate, Passes
<1>2. CartInv /\ NoneLate => ServedInWindow
  BY DEF CartInv, JobsOK, JobOK, NoneLate, ServedInWindow, Passes
<1>3. QED
  BY <1>1, <1>2, InvInit, InvNext, NoneLateNext, PTL DEF Spec
=============================================================================
