------------------------- MODULE SspSessionProofs -------------------------
(***************************************************************************)
(* Machine-checked proofs about SspSession, for any set of requests of any *)
(* kinds, any lengths of their answers, any channel and writer capacities  *)
(* and any number of pushes below the client's sids.                       *)
(***************************************************************************)
EXTENDS SspSession, SequenceTheorems, TLAPS

\* A call fails: its channel, its frames and its sends are gone, and its entry
\* with it, unless a cleanup is on its way or the phone refused the request.
FailStep(r) ==
    /\ stage[r] \notin {"idle", "ended"}
    /\ \E how \in {"Error", "Timeout", "Cancelled"} : Fails(r, how)
    /\ cleanup' \in {cleanup, cleanup \cup {r}}
    /\ closed' \in BOOLEAN /\ events' \in BOOLEAN
    /\ \/ closed' = TRUE /\ pending' = {}
       \/ (closed => closed') /\ pending' \in {pending, pending \ {r}}
    /\ r \in pending' => r \in cleanup' \/ r \in refused
    /\ UNCHANGED <<out, in, phone, quitting>>

\* The two outcomes of Receive.
ReceiveLast(r) ==
    /\ ready(r) /\ Head(chan[r]).what \in {"reply", "push"}
    /\ got' = [got EXCEPT ![r] = Append(@, Head(chan[r]))]
    /\ 1 \in IF need[r] = 0 THEN declared(r, Head(chan[r])) ELSE {need[r]}
    /\ after(r) = "ended"
    /\ Ends(r, "ok") /\ finish(r)
    /\ UNCHANGED <<cleanup, out, in, phone, quitting>>

ReceiveMore(r, n) ==
    /\ ready(r) /\ Head(chan[r]).what \in {"reply", "push"}
    /\ got' = [got EXCEPT ![r] = Append(@, Head(chan[r]))]
    /\ n \in IF need[r] = 0 THEN declared(r, Head(chan[r])) ELSE {need[r]}
    /\ n > 1 \/ after(r) # "ended"
    /\ chan' = [chan EXCEPT ![r] = Tail(@)]
    /\ need' = [need EXCEPT ![r] = IF n > 1 THEN n - 1
                                   ELSE IF after(r) = "raw" THEN Rest[r] ELSE 0]
    /\ stage' = [stage EXCEPT ![r] = IF n > 1 THEN @ ELSE after(r)]
    /\ sending' = IF n = 1 /\ after(r) = "uploading"
                  THEN [sending EXCEPT ![<<r, "data">>] = "queueing"] ELSE sending
    /\ UNCHANGED <<conn, result, token, cleanup, out, in, phone, quitting>>

WithdrawOpen(r) ==
    /\ r \in token /\ stage[r] \in {"waiting", "reply", "uploading"} /\ ~closed
    /\ pending' = pending \ {r}
    /\ stage' = [stage EXCEPT ![r] = IF @ = "uploading" THEN "stopping" ELSE "withdrawing"]
    /\ sending' = [sending EXCEPT ![<<r, "data">>] = "no", ![<<r, "cancel">>] = "queueing"]
    /\ UNCHANGED <<result, token, chan, got, need, closed, events, cleanup, out, in, phone, quitting>>

\* The errors of sends nobody waits for.
LooseEnd(c) ==
    /\ fail_connection
    /\ sending' = [sending EXCEPT ![c] = "no"]
    /\ UNCHANGED <<stage, result, token, chan, got, need, cleanup, out, in, phone, quitting>>

\* Steps in which a call that goes on changes.
CallStep(r) ==
    \/ Open(r) \/ Insert(r) \/ Sent(r) \/ CancelToken(r) \/ WithdrawOpen(r) \/ Cleanup(r)

ReadStep(r) == ReadReply(r) \/ ReadRefusal(r) \/ ReadCancel(r)

WireStep ==
    \/ \E c \in Commands : Enqueue(c) \/ LooseEnd(c)
    \/ Write \/ WriteFails

-----------------------------------------------------------------------------
(***************************************************************************)
(* Sequences.                                                              *)
(***************************************************************************)

\* The items a request's owner has, and then those in its channel.
LEMMA StreamItems ==
    ASSUME TypeOK, NEW r \in Requests
    PROVE  /\ Stream(r) \in Seq(Items) /\ got[r] \in Seq(Items) /\ chan[r] \in Seq(Items)
           /\ Len(Stream(r)) = Len(got[r]) + Len(chan[r])
           /\ Len(got[r]) \in Nat /\ Len(chan[r]) \in Nat /\ Len(Stream(r)) \in Nat
           /\ \A i \in 1..Len(got[r]) : i \in 1..Len(Stream(r)) /\ Stream(r)[i] = got[r][i]
           /\ \A i \in 1..Len(chan[r]) : /\ Len(got[r]) + i \in 1..Len(Stream(r))
                                        /\ Stream(r)[Len(got[r]) + i] = chan[r][i]
  <1> DEFINE p == got[r]
             q == chan[r]
             s == Stream(r)
  <1>1. p \in Seq(Items) /\ q \in Seq(Items) /\ s = p \o q
    BY DEF TypeOK, Stream
  <1> HIDE DEF p, q, s
  <1>2. /\ s \in Seq(Items) /\ Len(s) = Len(p) + Len(q)
        /\ Len(p) \in Nat /\ Len(q) \in Nat /\ Len(s) \in Nat
        /\ \A i \in 1..Len(p) : i \in 1..Len(s) /\ s[i] = p[i]
        /\ \A i \in 1..Len(q) : Len(p) + i \in 1..Len(s) /\ s[Len(p) + i] = q[i]
    BY <1>1
  <1> QED
    BY <1>1, <1>2 DEF p, q, s

-----------------------------------------------------------------------------
(***************************************************************************)
(* The kinds of steps.                                                     *)
(***************************************************************************)

\* The first item of a channel is the item of the stream that follows those received.
LEMMA HeadOwn ==
    ASSUME IndInv, NEW r \in Requests, chan[r] # <<>>
    PROVE  /\ Len(got[r]) + 1 \in 1..Len(Stream(r))
           /\ Head(chan[r]) = Stream(r)[Len(got[r]) + 1]
           /\ Head(chan[r]) = chan[r][1]
           /\ Own(r, Head(chan[r]))
           /\ Head(chan[r]) \in Items
  <1>1. got[r] \in Seq(Items) /\ chan[r] \in Seq(Items)
    BY DEF IndInv, TypeOK
  <1>2. Head(chan[r]) = chan[r][1] /\ Head(chan[r]) \in Items /\ Len(chan[r]) \in Nat \ {0}
    BY <1>1, HeadTailProperties, EmptySeq, LenProperties
  <1>3. /\ Len(got[r]) + 1 \in 1..Len(Stream(r))
        /\ Stream(r)[Len(got[r]) + 1] = chan[r][1]
    <2>1. 1 \in 1..Len(chan[r])
      BY <1>2
    <2> QED
      BY <2>1, StreamItems, Zenon DEF IndInv
  <1>4. Own(r, Stream(r)[Len(got[r]) + 1])
    BY <1>3 DEF IndInv, StreamInv, StreamOK
  <1> QED
    BY <1>2, <1>3, <1>4

\* Failing one way or another.
LEMMA FailKinds ==
    ASSUME IndInv, NEW r \in Requests,
           \/ InsertCancelled(r) \/ OpenFails(r) \/ UploadFails(r) \/ WithdrawFails(r)
           \/ ReceiveCancelled(r) \/ ReceiveBad(r) \/ ReceiveClosed(r) \/ ReceiveTimeout(r)
           \/ Reject(r) \/ CancelRaw(r) \/ Withdrawn(r) \/ Abandon(r)
           \/ Withdraw(r) /\ closed
    PROVE  FailStep(r)
  <1>0. /\ closed \in BOOLEAN /\ events \in BOOLEAN
        /\ r \in pending => stage[r] \in Serving \cup {"ended"}
    BY DEF IndInv, TypeOK, PendingInv
  <1>1. CASE InsertCancelled(r)
    BY <1>0, <1>1 DEF InsertCancelled, FailStep, conn, Serving
  <1>2. CASE OpenFails(r) \/ UploadFails(r) \/ WithdrawFails(r)
    BY <1>2 DEF OpenFails, UploadFails, WithdrawFails, FailStep, send_error, fail_connection, drop
  <1>3. CASE ReceiveCancelled(r)
    <2>1. stage[r] \in {"waiting", "raw", "reply"}
      BY <1>3 DEF ReceiveCancelled, ready, awaiting
    <2>2. Fails(r, "Cancelled") /\ UNCHANGED <<cleanup, out, in, phone, quitting>>
      BY <1>3 DEF ReceiveCancelled
    <2>3. r \in pending => r \in refused
      BY <1>3, HeadOwn DEF ReceiveCancelled, Own, ready
    <2>4. CASE finish(r)
      BY <1>0, <2>1, <2>2, <2>4 DEF FailStep, finish
    <2>5. CASE UNCHANGED conn
      BY <1>0, <2>1, <2>2, <2>3, <2>5 DEF FailStep, conn
    <2> QED
      BY <1>3, <2>4, <2>5 DEF ReceiveCancelled
  <1>4. CASE ReceiveBad(r) \/ ReceiveClosed(r) \/ ReceiveTimeout(r)
    BY <1>4 DEF ReceiveBad, ReceiveClosed, ReceiveTimeout, GivesUp, fail_connection, drop, FailStep,
       ready, awaiting
  <1>5. CASE Reject(r)
    <2>1. Fails(r, "Error") /\ UNCHANGED <<out, in, phone, quitting>> /\ stage[r] \in {"raw", "uploading"}
      BY <1>5 DEF Reject
    <2>2. CASE finish(r) /\ UNCHANGED cleanup
      BY <1>0, <2>1, <2>2 DEF FailStep, finish
    <2>3. CASE drop(r) /\ pending' \in {pending, pending \ {r}} /\ UNCHANGED <<closed, events>>
      BY <1>0, <2>1, <2>3 DEF FailStep, drop
    <2> QED
      BY <1>5, <2>2, <2>3 DEF Reject
  <1>6. CASE CancelRaw(r)
    BY <1>6 DEF CancelRaw, FailStep, fail_connection
  <1>7. CASE Withdrawn(r)
    BY <1>0, <1>7 DEF Withdrawn, FailStep, conn, Serving
  <1>8. CASE Abandon(r)
    BY <1>0, <1>8 DEF Abandon, FailStep, drop, receiving, Serving
  <1>9. CASE Withdraw(r) /\ closed
    BY <1>0, <1>9 DEF Withdraw, FailStep
  <1> QED
    BY <1>1, <1>2, <1>3, <1>4, <1>5, <1>6, <1>7, <1>8, <1>9

\* Every step is of one of the kinds the proofs below go through.
LEMMA Kinds ==
    ASSUME IndInv, [Next]_vars
    PROVE  \/ UNCHANGED vars
           \/ \E r \in Requests : \/ FailStep(r) \/ CallStep(r) \/ ReadStep(r)
                                  \/ ReceiveLast(r) \/ \E n : ReceiveMore(r, n)
           \/ WireStep \/ ReadPush \/ ReadFails \/ Deliver \/ DropChunk \/ ReceiverGone
           \/ Close \/ Closed
  <1>1. ASSUME NEW r \in Requests, Receive(r)
        PROVE  ReceiveLast(r) \/ \E n : ReceiveMore(r, n)
    BY <1>1 DEF Receive, ReceiveLast, ReceiveMore
  <1>2. ASSUME NEW r \in Requests, Withdraw(r), ~closed
        PROVE  WithdrawOpen(r)
    BY <1>2 DEF Withdraw, WithdrawOpen
  <1>3. ASSUME NEW r \in Requests, CleanupFails(r)
        PROVE  WireStep
    BY <1>3 DEF CleanupFails, send_error, LooseEnd, WireStep, Commands
  <1>4. ASSUME QuitFails
        PROVE  WireStep
    BY <1>4 DEF QuitFails, send_error, LooseEnd, WireStep, Commands
  <1> QED
    BY <1>1, <1>2, <1>3, <1>4, FailKinds DEF Next, Owner, CallStep, ReadStep, WireStep

-----------------------------------------------------------------------------
(***************************************************************************)
(* The inductive invariant, one conjunct at a time.                        *)
(***************************************************************************)

\* The channels and the writer's queue hold what they may hold and no more.
LEMMA TypeStep ==
    ASSUME IndInv, [Next]_vars
    PROVE  TypeOK'
  <1>0. TypeOK
    BY DEF IndInv
  <1> USE SspSessionAssumption
  <1>1. CASE UNCHANGED vars
    BY <1>0, <1>1 DEF TypeOK, vars, conn, owner, out, in, phone
  <1>2. ASSUME NEW r \in Requests, FailStep(r)
        PROVE  TypeOK'
    <2>1. PICK how \in {"Error", "Timeout", "Cancelled"} : Fails(r, how)
      BY <1>2 DEF FailStep
    <2>2. /\ stage' \in [Requests -> {"idle", "allocated", "opening", "waiting", "raw", "uploading",
                                 "reply", "withdrawing", "stopping", "ended"}]
          /\ result' \in [Requests -> {"none", "ok", "Error", "Timeout", "Cancelled"}]
          /\ token' \subseteq Requests /\ need' \in [Requests -> Nat]
          /\ sending' \in [Commands -> {"no", "queueing", "queued", "sent", "failed"}]
      BY <1>0, <2>1 DEF TypeOK, Fails, Ends
    <2>3. /\ chan' \in [Requests -> Seq(Items)] /\ got' \in [Requests -> Seq(Items)]
          /\ \A q \in Requests : Len(chan'[q]) <= ChannelCapacity
      BY <1>0, <2>1 DEF TypeOK, Fails, Ends
    <2>4. /\ closed' \in BOOLEAN /\ events' \in BOOLEAN /\ pending' \subseteq Requests
          /\ cleanup' \subseteq Requests
      BY <1>0, <1>2 DEF FailStep, TypeOK
    <2> QED
      BY <1>0, <1>2, <2>2, <2>3, <2>4 DEF TypeOK, FailStep, out, in, phone
  <1>3. ASSUME NEW r \in Requests, CallStep(r)
        PROVE  TypeOK'
    <2>1. <<r, "open">> \in Commands /\ <<r, "data">> \in Commands /\ <<r, "cancel">> \in Commands
          /\ <<r, "cleanup">> \in Commands
      BY DEF Commands
    <2>2. CASE Open(r) \/ Insert(r) \/ Sent(r)
      <3>1. CASE Open(r)
        BY <1>0, <2>1, <3>1, SMTT(40) DEF TypeOK, Open, conn, out, in, phone
      <3>2. CASE Insert(r)
        BY <1>0, <2>1, <3>2, SMTT(40) DEF TypeOK, Insert, conn, out, in, phone
      <3>3. CASE Sent(r)
        BY <1>0, <2>1, <3>3, SMTT(40) DEF TypeOK, Sent, conn, out, in, phone
      <3> QED
        BY <2>2, <3>1, <3>2, <3>3
    <2>3. CASE CancelToken(r)
      BY <1>0, <2>3, SMTT(40) DEF TypeOK, CancelToken, conn, out, in, phone
    <2>4. CASE WithdrawOpen(r)
      <3>1. sending' \in [Commands -> {"no", "queueing", "queued", "sent", "failed"}]
        BY <1>0, <2>1, <2>4 DEF TypeOK, WithdrawOpen
      <3> QED
        BY <1>0, <2>4, <3>1 DEF TypeOK, WithdrawOpen, out, in, phone
    <2>5. CASE Cleanup(r)
      <3>1. sending' \in [Commands -> {"no", "queueing", "queued", "sent", "failed"}]
        BY <1>0, <2>1, <2>5 DEF TypeOK, Cleanup
      <3> QED
        BY <1>0, <2>5, <3>1 DEF TypeOK, Cleanup, out, in, phone
    <2> QED
      BY <1>3, <2>2, <2>3, <2>4, <2>5 DEF CallStep
  <1>4. ASSUME NEW r \in Requests, ReceiveLast(r)
        PROVE  TypeOK'
    <2>1. Head(chan[r]) \in Items
      BY <1>4, HeadOwn DEF ReceiveLast, ready
    <2>2. got' \in [Requests -> Seq(Items)]
      BY <1>0, <1>4, <2>1 DEF TypeOK, ReceiveLast
    <2>3. /\ stage' \in [Requests -> {"idle", "allocated", "opening", "waiting", "raw", "uploading",
                                 "reply", "withdrawing", "stopping", "ended"}]
          /\ result' \in [Requests -> {"none", "ok", "Error", "Timeout", "Cancelled"}]
          /\ token' \subseteq Requests /\ need' \in [Requests -> Nat]
          /\ sending' \in [Commands -> {"no", "queueing", "queued", "sent", "failed"}]
          /\ chan' \in [Requests -> Seq(Items)]
          /\ \A q \in Requests : Len(chan'[q]) <= ChannelCapacity
          /\ closed' \in BOOLEAN /\ events' \in BOOLEAN /\ pending' \subseteq Requests
      BY <1>0, <1>4, SMTT(40) DEF TypeOK, ReceiveLast, Ends, finish
    <2> QED
      BY <1>0, <1>4, <2>2, <2>3 DEF TypeOK, ReceiveLast, out, in, phone
  <1>5. ASSUME NEW r \in Requests, NEW n, ReceiveMore(r, n)
        PROVE  TypeOK'
    <2>1. Head(chan[r]) \in Items /\ chan[r] # <<>>
      BY <1>5, HeadOwn DEF ReceiveMore, ready
    <2>2. got' \in [Requests -> Seq(Items)]
      BY <1>0, <1>5, <2>1 DEF TypeOK, ReceiveMore
    <2>3. /\ chan' \in [Requests -> Seq(Items)]
          /\ \A q \in Requests : Len(chan'[q]) <= ChannelCapacity
      BY <1>0, <1>5, <2>1, SMTT(40) DEF TypeOK, ReceiveMore
    <2>4. n \in Nat /\ Rest[r] \in Nat /\ Header[r] \in Nat
      <3>1. Rest[r] \in Nat /\ Header[r] \in Nat
        BY AnswerAssumption
      <3>2. declared(r, Head(chan[r])) \subseteq Nat
        BY <3>1 DEF declared
      <3>3. need[r] \in Nat
        BY <1>0 DEF TypeOK
      <3>4. n \in IF need[r] = 0 THEN declared(r, Head(chan[r])) ELSE {need[r]}
        BY <1>5 DEF ReceiveMore
      <3> QED
        BY <3>1, <3>2, <3>3, <3>4
    <2>5. need' \in [Requests -> Nat]
      <3>1. (IF n > 1 THEN n - 1 ELSE IF after(r) = "raw" THEN Rest[r] ELSE 0) \in Nat
        BY <2>4
      <3>2. need' = [need EXCEPT ![r] = IF n > 1 THEN n - 1
                                        ELSE IF after(r) = "raw" THEN Rest[r] ELSE 0]
        BY <1>5 DEF ReceiveMore
      <3> QED
        BY <1>0, <3>1, <3>2 DEF TypeOK
    <2>6. after(r) \in {"raw", "uploading", "ended"}
      BY DEF after
    <2>7. /\ stage' \in [Requests -> {"idle", "allocated", "opening", "waiting", "raw", "uploading",
                                 "reply", "withdrawing", "stopping", "ended"}]
          /\ sending' \in [Commands -> {"no", "queueing", "queued", "sent", "failed"}]
      BY <1>0, <1>5, <2>6 DEF ReceiveMore, TypeOK
    <2> QED
      BY <1>0, <1>5, <2>2, <2>3, <2>5, <2>7 DEF TypeOK, ReceiveMore, conn, out, in, phone
  <1>6. CASE ReadPush \/ \E r \in Requests : ReadStep(r)
    <2>1. ASSUME NEW q, NEW item \in Items, route(q, item)
          PROVE  held' \in {Nobody} \cup [to : Requests, item : Items]
      <3>1. registered(q) # {} => (CHOOSE x \in registered(q) : TRUE) \in Requests
        BY <1>0 DEF registered, TypeOK
      <3> QED
        BY <2>1, <3>1 DEF route
    <2>2. CASE ReadPush
      <3>1. Other("push", Nobody) \in Items
        BY DEF Other, Items
      <3>2. held' \in {Nobody} \cup [to : Requests, item : Items]
        BY <2>1, <2>2, <3>1 DEF ReadPush
      <3> QED
        BY <1>0, <2>2, <3>2 DEF ReadPush, TypeOK, conn, owner, out
    <2>3. ASSUME NEW r \in Requests, ReadReply(r)
          PROVE  TypeOK'
      <3>1. Reply(r, replied[r] + 1) \in Items
        BY <1>0 DEF Reply, Items, TypeOK
      <3>2. held' \in {Nobody} \cup [to : Requests, item : Items]
        BY <2>1, <2>3, <3>1 DEF ReadReply
      <3> QED
        BY <1>0, <2>3, <3>2, SMTT(40) DEF ReadReply, TypeOK, conn, owner, out
    <2>4. ASSUME NEW r \in Requests, ReadRefusal(r)
          PROVE  TypeOK'
      <3>1. Other("refusal", r) \in Items
        BY DEF Other, Items
      <3>2. held' \in {Nobody} \cup [to : Requests, item : Items]
        BY <2>1, <2>4, <3>1 DEF ReadRefusal
      <3> QED
        BY <1>0, <2>4, <3>2, SMTT(40) DEF ReadRefusal, TypeOK, conn, owner, out
    <2>5. ASSUME NEW r \in Requests, ReadCancel(r)
          PROVE  TypeOK'
      <3>1. Other("push", Nobody) \in Items /\ Other("cancelled", r) \in Items
        BY DEF Other, Items
      <3>2. held' \in {Nobody} \cup [to : Requests, item : Items] /\ pending' \subseteq Requests
        BY <1>0, <2>1, <2>5, <3>1, SMTT(40) DEF ReadCancel, TypeOK
      <3> QED
        BY <1>0, <2>5, <3>2, SMTT(40) DEF ReadCancel, TypeOK, owner, out
    <2> QED
      BY <1>6, <2>2, <2>3, <2>4, <2>5 DEF ReadStep
  <1>7. CASE Deliver
    <2>1. held.to \in Requests /\ held.item \in Items
      BY <1>0, <1>7 DEF Deliver, TypeOK
    <2>2. /\ chan' \in [Requests -> Seq(Items)]
          /\ \A q \in Requests : Len(chan'[q]) <= ChannelCapacity
      BY <1>0, <1>7, <2>1 DEF Deliver, TypeOK
    <2> QED
      BY <1>0, <1>7, <2>2 DEF Deliver, TypeOK, conn, out, phone
  <1>8. CASE DropChunk \/ ReceiverGone \/ ReadFails
    <2>1. CASE DropChunk
      BY <1>0, <2>1, SMTT(40) DEF DropChunk, TypeOK, conn, owner, out, phone
    <2>2. CASE ReceiverGone
      BY <1>0, <2>2, SMTT(40) DEF ReceiverGone, TypeOK, conn, owner, out, phone
    <2>3. CASE ReadFails
      BY <1>0, <2>3, ZenonT(60) DEF ReadFails, fail_connection, TypeOK, conn, owner, out, phone
    <2> QED
      BY <1>8, <2>1, <2>2, <2>3
  <1>9. CASE WireStep
    <2>1. ASSUME NEW c \in Commands, Enqueue(c) \/ LooseEnd(c)
          PROVE  TypeOK'
      <3>1. sending' \in [Commands -> {"no", "queueing", "queued", "sent", "failed"}]
        <4>1. PICK v \in {"queued", "no"} : sending' = [sending EXCEPT ![c] = v]
          BY <2>1 DEF Enqueue, LooseEnd
        <4> QED
          BY <1>0, <4>1 DEF TypeOK
      <3>2. CASE Enqueue(c)
        <4>1. outbox' \in Seq(Commands)
          BY <1>0, <3>2, AppendProperties DEF Enqueue, TypeOK
        <4> QED
          BY <1>0, <3>1, <3>2, <4>1 DEF Enqueue, TypeOK, conn, in, phone
      <3>3. CASE LooseEnd(c)
        BY <1>0, <3>1, <3>3 DEF LooseEnd, fail_connection, TypeOK, out, in, phone
      <3> QED
        BY <2>1, <3>2, <3>3
    <2>2. CASE Write
      <3>1. /\ outbox' \in Seq(Commands) /\ Head(outbox) \in Commands
        BY <1>0, <2>2 DEF Write, TypeOK
      <3>2. Head(outbox)[2] \in {"open", "data"} => Head(outbox)[1] \in Requests
        BY <3>1 DEF Commands, Quit
      <3>3. /\ sending' \in [Commands -> {"no", "queueing", "queued", "sent", "failed"}]
            /\ asked' \subseteq Requests /\ fed' \subseteq Requests
        BY <1>0, <2>2, <3>1, <3>2 DEF Write, TypeOK
      <3> QED
        BY <1>0, <2>2, <3>1, <3>3 DEF Write, TypeOK, conn, in
    <2>3. CASE WriteFails
      BY <1>0, <2>3 DEF WriteFails, stop_writer, TypeOK, in, phone
    <2> QED
      BY <1>9, <2>1, <2>2, <2>3 DEF WireStep
  <1>10. CASE Close
    <2>1. /\ chan' \in [Requests -> Seq(Items)] /\ got' \in [Requests -> Seq(Items)]
          /\ \A q \in Requests : Len(chan'[q]) <= ChannelCapacity
      BY <1>0, <1>10 DEF Close, TypeOK
    <2>2. /\ stage' \in [Requests -> {"idle", "allocated", "opening", "waiting", "raw", "uploading",
                                 "reply", "withdrawing", "stopping", "ended"}]
          /\ result' \in [Requests -> {"none", "ok", "Error", "Timeout", "Cancelled"}]
          /\ need' \in [Requests -> Nat]
          /\ sending' \in [Commands -> {"no", "queueing", "queued", "sent", "failed"}]
          /\ cleanup' \subseteq Requests
      BY <1>0, <1>10 DEF Close, TypeOK
    <2> QED
      BY <1>0, <1>10, <2>1, <2>2 DEF Close, TypeOK, out, in, phone
  <1>11. CASE Closed
    BY <1>0, <1>11 DEF Closed, stop_writer, TypeOK, conn, phone
  <1> QED
    BY <1>1, <1>2, <1>3, <1>4, <1>5, <1>6, <1>7, <1>8, <1>9, <1>10, <1>11, Kinds

\* Entries, calls and cleanups stay in step.
LEMMA PendingStep ==
    ASSUME IndInv, [Next]_vars
    PROVE  PendingInv'
  <1>0. TypeOK /\ PendingInv
    BY DEF IndInv
  <1> USE DEF Serving
  <1>1. CASE UNCHANGED vars
    BY <1>0, <1>1 DEF PendingInv, vars, conn, owner, phone
  <1>2. ASSUME NEW r \in Requests, FailStep(r)
        PROVE  PendingInv'
    <2>1. stage' = [stage EXCEPT ![r] = "ended"]
      BY <1>2 DEF FailStep, Fails, Ends
    <2>2. UNCHANGED <<called_off, refused, quitting>>
      BY <1>2 DEF FailStep, phone
    <2>3. /\ \A q \in Requests : q # r /\ q \in pending /\ q \notin pending' => closed'
          /\ closed => closed'
          /\ pending' \subseteq pending
      BY <1>2 DEF FailStep
    <2>4. /\ \A q \in Requests : stage'[q] \in Serving /\ ~closed' /\ q \notin called_off' => q \in pending'
          /\ \A q \in pending' : stage'[q] \in Serving \cup {"ended"}
      BY <1>0, <2>1, <2>2, <2>3 DEF PendingInv, TypeOK
    <2>5. /\ \A q \in pending' : stage'[q] \in Serving \/ q \in cleanup' \/ q \in refused'
          /\ \A q \in cleanup' : stage'[q] = "ended"
      BY <1>0, <1>2, <2>1, <2>2, <2>3, SMTT(40) DEF PendingInv, TypeOK, FailStep
    <2>6. quitting' # "no" => \A q \in Requests : stage'[q] \in {"idle", "ended"}
      BY <1>0, <2>1, <2>2 DEF PendingInv, TypeOK
    <2> QED
      BY <2>4, <2>5, <2>6 DEF PendingInv
  <1>3. ASSUME NEW r \in Requests, CallStep(r)
        PROVE  PendingInv'
    <2>1. CASE Open(r)
      BY <1>0, <2>1 DEF PendingInv, TypeOK, Open, conn, phone
    <2>2. CASE Insert(r)
      BY <1>0, <2>2 DEF PendingInv, TypeOK, Insert, phone
    <2>3. CASE Sent(r) \/ CancelToken(r)
      BY <1>0, <2>3, ZenonT(60) DEF PendingInv, TypeOK, Sent, CancelToken, conn, phone
    <2>4. CASE WithdrawOpen(r)
      BY <1>0, <2>4, SMTT(40) DEF PendingInv, TypeOK, WithdrawOpen, phone
    <2>5. CASE Cleanup(r)
      BY <1>0, <2>5 DEF PendingInv, TypeOK, Cleanup, phone
    <2> QED
      BY <1>3, <2>1, <2>2, <2>3, <2>4, <2>5 DEF CallStep
  <1>4. ASSUME NEW r \in Requests, ReceiveLast(r)
        PROVE  PendingInv'
    <2>1. stage' = [stage EXCEPT ![r] = "ended"] /\ pending' = pending \ {r} /\ (closed => closed')
      BY <1>4 DEF ReceiveLast, Ends, finish
    <2>2. UNCHANGED <<cleanup, called_off, refused, quitting>>
      BY <1>4 DEF ReceiveLast, phone
    <2> QED
      BY <1>0, <2>1, <2>2 DEF PendingInv, TypeOK
  <1>5. ASSUME NEW r \in Requests, NEW n, ReceiveMore(r, n)
        PROVE  PendingInv'
    <2>1. stage[r] \in {"waiting", "raw", "reply"}
      BY <1>5 DEF ReceiveMore, ready, awaiting
    <2>2. PICK where \in Serving : stage' = [stage EXCEPT ![r] = where]
      <3>1. (IF n > 1 THEN stage[r] ELSE after(r)) \in Serving
        BY <1>5, <2>1 DEF ReceiveMore, after
      <3> QED
        BY <1>5, <3>1 DEF ReceiveMore
    <2>3. UNCHANGED <<closed, pending, cleanup, called_off, refused, quitting>>
      BY <1>5 DEF ReceiveMore, conn, phone
    <2> QED
      BY <1>0, <2>1, <2>2, <2>3 DEF PendingInv, TypeOK
  <1>6. ASSUME NEW r \in Requests, ReadStep(r)
        PROVE  PendingInv'
    <2>1. /\ pending' \in {pending, pending \ {r}} /\ (r \in pending /\ r \notin pending' => r \in called_off')
          /\ called_off \subseteq called_off' /\ refused \subseteq refused'
      BY <1>6 DEF ReadStep, ReadReply, ReadRefusal, ReadCancel, conn
    <2>2. UNCHANGED <<closed, stage, cleanup, quitting>>
      BY <1>6 DEF ReadStep, ReadReply, ReadRefusal, ReadCancel, conn, owner
    <2> QED
      BY <1>0, <2>1, <2>2 DEF PendingInv, TypeOK
  <1>7. CASE ReadPush \/ Deliver \/ DropChunk
    BY <1>0, <1>7 DEF PendingInv, ReadPush, Deliver, DropChunk, conn, owner, phone
  <1>8. CASE ReceiverGone
    <2>1. /\ pending' \in {pending, pending \ {held.to}} /\ ~receiving(held.to)
          /\ UNCHANGED <<closed, stage, cleanup, called_off, refused, quitting>>
      BY <1>8 DEF ReceiverGone, owner, phone
    <2> QED
      BY <1>0, <2>1 DEF PendingInv, receiving
  <1>9. CASE ReadFails
    BY <1>0, <1>9 DEF PendingInv, ReadFails, fail_connection, owner, phone
  <1>10. CASE WireStep
    <2>1. /\ \/ UNCHANGED pending /\ (closed => closed')
             \/ pending' = {} /\ closed'
          /\ UNCHANGED <<stage, cleanup, called_off, refused, quitting>>
      BY <1>10 DEF WireStep, Enqueue, LooseEnd, Write, WriteFails, fail_connection, conn, phone
    <2> QED
      BY <1>0, <2>1 DEF PendingInv
  <1>11. CASE Close
    <2>1. /\ stage' = [r \in Requests |->
                IF r \in Heartbeats /\ stage[r] \notin {"idle", "ended"} THEN "ended" ELSE stage[r]]
          /\ closed' = TRUE /\ UNCHANGED <<pending, called_off, refused>>
          /\ cleanup' = cleanup \cup {h \in Heartbeats : stage[h] \notin {"idle", "ended"} /\ receiving(h)}
      BY <1>11 DEF Close, phone
    <2>2. \A r \in Requests \ Heartbeats : stage[r] \in {"idle", "ended"}
      BY <1>11 DEF Close
    <2> QED
      BY <1>0, <2>1, <2>2, SspSessionAssumption DEF PendingInv, TypeOK, receiving
  <1>12. CASE Closed
    BY <1>0, <1>12 DEF PendingInv, Closed, conn, phone
  <1> QED
    BY <1>1, <1>2, <1>3, <1>4, <1>5, <1>6, <1>7, <1>8, <1>9, <1>10, <1>11, <1>12, Kinds

\* A command in the writer's queue stays behind the call that sends it: the
\* queue, the calls' places and what the phone has heard may only move on.
LEMMA PhoneFrame ==
    ASSUME TypeOK, PhoneInv,
           \A r \in Requests : /\ stage[r] \notin Unopened => stage'[r] \notin Unopened
                               /\ stage[r] \in Fed => stage'[r] \in Fed
                               /\ Sending(r, "open")' => Sending(r, "open") \/ stage'[r] \notin Unopened
                               /\ Sending(r, "data")' => Sending(r, "data") \/ stage'[r] \in Fed,
           outbox' = outbox \/ outbox' = <<>>,
           UNCHANGED <<asked, fed, replied>>
    PROVE  PhoneInv'
  <1>1. \A i \in 1..Len(outbox') : i \in 1..Len(outbox) /\ outbox'[i] = outbox[i]
    BY DEF TypeOK
  <1>2. \A i \in 1..Len(outbox') : \A r \in Requests :
          /\ outbox'[i] = <<r, "open">> => stage'[r] \notin Unopened
          /\ outbox'[i] = <<r, "data">> => stage'[r] \in Fed
    BY <1>1 DEF PhoneInv
  <1> QED
    BY <1>2 DEF PhoneInv

\* A send changes the state of one command.
LEMMA OneSend ==
    ASSUME TypeOK, NEW r, NEW what, NEW v, <<r, what>> \in Commands,
           sending' = [sending EXCEPT ![<<r, what>>] = v]
    PROVE  \A q \in Requests : /\ Sending(q, "open")' <=> IF q = r /\ what = "open" THEN v # "no"
                                                        ELSE Sending(q, "open")
                               /\ Sending(q, "data")' <=> IF q = r /\ what = "data" THEN v # "no"
                                                        ELSE Sending(q, "data")
  <1>1. \A q \in Requests : <<q, "open">> \in Commands /\ <<q, "data">> \in Commands
    BY DEF Commands
  <1>2. \A c \in Commands : sending'[c] = IF c = <<r, what>> THEN v ELSE sending[c]
    BY DEF TypeOK
  <1>3. \A q \in Requests : /\ <<q, "open">> = <<r, what>> <=> q = r /\ what = "open"
                            /\ <<q, "data">> = <<r, what>> <=> q = r /\ what = "data"
    OBVIOUS
  <1> QED
    BY <1>1, <1>2, <1>3 DEF Sending

\* Where every command keeps its state or is done with, nobody starts to send.
LEMMA FewerSends ==
    ASSUME TypeOK, \A c \in Commands : sending[c] = "no" /\ c # Quit => sending'[c] = "no"
    PROVE  \A q \in Requests : /\ Sending(q, "open")' => Sending(q, "open")
                               /\ Sending(q, "data")' => Sending(q, "data")
  <1>1. \A q \in Requests : /\ <<q, "open">> \in Commands /\ <<q, "data">> \in Commands
                            /\ <<q, "open">> # Quit /\ <<q, "data">> # Quit
    BY DEF Commands, Quit
  <1> QED
    BY <1>1 DEF Sending

\* The phone hears of requests and data in the order their owners went through.
LEMMA PhoneStep ==
    ASSUME IndInv, [Next]_vars
    PROVE  PhoneInv'
  <1>0. TypeOK /\ PhoneInv
    BY DEF IndInv
  <1>1. CASE UNCHANGED vars
    <2>1. UNCHANGED <<stage, sending, outbox, asked, fed, replied>>
      BY <1>1 DEF vars, owner, out, phone
    <2> QED
      BY <1>0, <2>1 DEF PhoneInv, Sending
  <1>2. ASSUME NEW r \in Requests, FailStep(r) \/ ReceiveLast(r)
        PROVE  PhoneInv'
    <2>1. PICK how : Ends(r, how)
      BY <1>2 DEF FailStep, Fails, ReceiveLast
    <2>2. UNCHANGED <<out, phone>>
      BY <1>2 DEF FailStep, ReceiveLast
    <2>3. sending' = [c \in Commands |-> IF c[1] = r /\ c[2] # "cleanup" THEN "no" ELSE sending[c]]
      BY <2>1 DEF Ends
    <2>4. \A q \in Requests : stage'[q] = IF q = r THEN "ended" ELSE stage[q]
      BY <1>0, <2>1 DEF Ends, TypeOK
    <2>5. \A c \in Commands : sending[c] = "no" /\ c # Quit => sending'[c] = "no"
      BY <2>3
    <2> QED
      BY <1>0, <2>2, <2>4, <2>5, FewerSends, PhoneFrame DEF out, phone, Unopened, Fed
  <1>3. ASSUME NEW r \in Requests, CallStep(r)
        PROVE  PhoneInv'
    <2>1. UNCHANGED <<out, phone>>
      BY <1>3 DEF CallStep, Open, Insert, Sent, CancelToken, WithdrawOpen, Cleanup
    <2>2. CASE Open(r) \/ Sent(r) \/ CancelToken(r)
      <3>1. UNCHANGED sending
        BY <2>2 DEF Open, Sent, CancelToken
      <3>2. \A q \in Requests : /\ Sending(q, "open")' => Sending(q, "open")
                                /\ Sending(q, "data")' => Sending(q, "data")
        BY <3>1 DEF Sending
      <3>3. \A q \in Requests : stage[q] \notin Unopened => stage'[q] \notin Unopened
        BY <1>0, <2>2 DEF TypeOK, Open, Sent, CancelToken, Unopened
      <3>4. \A q \in Requests : stage[q] \in Fed => stage'[q] \in Fed
        BY <1>0, <2>2 DEF TypeOK, Open, Sent, CancelToken, Fed
      <3> QED
        BY <1>0, <2>1, <3>2, <3>3, <3>4, PhoneFrame DEF out, phone
    <2>3. CASE Insert(r)
      <3>1. <<r, "open">> \in Commands /\ sending' = [sending EXCEPT ![<<r, "open">>] = "queueing"]
        BY <2>3 DEF Insert, Commands
      <3>2. \A q \in Requests : /\ Sending(q, "open")' => Sending(q, "open") \/ q = r
                                /\ Sending(q, "data")' => Sending(q, "data")
        BY <1>0, <3>1, OneSend
      <3>3. stage[r] = "allocated" /\ \A q \in Requests : stage'[q] = IF q = r THEN "opening" ELSE stage[q]
        BY <1>0, <2>3 DEF TypeOK, Insert
      <3> QED
        BY <1>0, <2>1, <3>2, <3>3, PhoneFrame DEF out, phone, Unopened, Fed
    <2>4. CASE WithdrawOpen(r)
      <3>1. stage'[r] \in {"stopping", "withdrawing"} /\ \A q \in Requests \ {r} : stage'[q] = stage[q]
        BY <1>0, <2>4 DEF TypeOK, WithdrawOpen
      <3>2. \A c \in Commands : c = <<r, "cancel">> \/ sending'[c] \in {"no", sending[c]}
        BY <1>0, <2>4 DEF TypeOK, WithdrawOpen
      <3>3. \A q \in Requests : /\ <<q, "open">> \in Commands /\ <<q, "data">> \in Commands
                                /\ <<q, "open">> # <<r, "cancel">> /\ <<q, "data">> # <<r, "cancel">>
        BY DEF Commands
      <3>4. \A q \in Requests : /\ Sending(q, "open")' => Sending(q, "open")
                                /\ Sending(q, "data")' => Sending(q, "data")
        BY <3>2, <3>3 DEF Sending
      <3> QED
        BY <1>0, <2>1, <3>1, <3>4, PhoneFrame DEF out, phone, Unopened, Fed
    <2>5. CASE Cleanup(r)
      <3>1. PICK v : sending' = [sending EXCEPT ![<<r, "cleanup">>] = v]
        BY <2>5 DEF Cleanup
      <3>2. <<r, "cleanup">> \in Commands /\ UNCHANGED stage
        BY <2>5 DEF Cleanup, Commands
      <3>3. \A q \in Requests : /\ Sending(q, "open")' => Sending(q, "open")
                                /\ Sending(q, "data")' => Sending(q, "data")
        <4>1. \A c \in Commands : c = <<r, "cleanup">> \/ sending'[c] = sending[c]
          BY <1>0, <3>1, <3>2 DEF TypeOK
        <4>2. \A q \in Requests : /\ <<q, "open">> \in Commands /\ <<q, "data">> \in Commands
                                  /\ <<q, "open">> # <<r, "cleanup">> /\ <<q, "data">> # <<r, "cleanup">>
          BY DEF Commands
        <4> QED
          BY <4>1, <4>2 DEF Sending
      <3> QED
        BY <1>0, <2>1, <3>2, <3>3, PhoneFrame DEF out, phone
    <2> QED
      BY <1>3, <2>2, <2>3, <2>4, <2>5 DEF CallStep
  <1>4. ASSUME NEW r \in Requests, NEW n, ReceiveMore(r, n)
        PROVE  PhoneInv'
    <2>1. stage[r] \in {"waiting", "raw", "reply"}
      BY <1>4 DEF ReceiveMore, ready, awaiting
    <2> DEFINE next == IF n > 1 THEN stage[r] ELSE after(r)
    <2>2. /\ next \in {"waiting", "raw", "reply", "uploading"}
          /\ stage[r] = "reply" => next = "reply"
      BY <1>4, <2>1 DEF ReceiveMore, after
    <2>3. \A q \in Requests : stage'[q] = IF q = r THEN next ELSE stage[q]
      BY <1>0, <1>4 DEF ReceiveMore, TypeOK
    <2>4. \/ UNCHANGED sending
          \/ next = "uploading" /\ sending' = [sending EXCEPT ![<<r, "data">>] = "queueing"]
      BY <1>4 DEF ReceiveMore
    <2> HIDE DEF next
    <2>5. <<r, "data">> \in Commands
      BY DEF Commands
    <2>6. \A q \in Requests : /\ Sending(q, "open")' => Sending(q, "open")
                              /\ Sending(q, "data")' => Sending(q, "data") \/ (q = r /\ next = "uploading")
      <3>1. CASE UNCHANGED sending
        BY <3>1 DEF Sending
      <3>2. CASE next = "uploading" /\ sending' = [sending EXCEPT ![<<r, "data">>] = "queueing"]
        BY <1>0, <2>5, <3>2, OneSend
      <3> QED
        BY <2>4, <3>1, <3>2
    <2>7. UNCHANGED <<out, phone>>
      BY <1>4 DEF ReceiveMore
    <2> QED
      BY <1>0, <2>1, <2>2, <2>3, <2>6, <2>7, PhoneFrame DEF out, phone, Unopened, Fed
  <1>5. CASE \/ ReadPush \/ ReadFails \/ Deliver \/ DropChunk \/ ReceiverGone
             \/ \E r \in Requests : ReadRefusal(r) \/ ReadCancel(r)
    <2>1. UNCHANGED <<stage, sending, outbox, asked, fed, replied>>
      BY <1>5 DEF ReadPush, ReadFails, Deliver, DropChunk, ReceiverGone, ReadRefusal, ReadCancel,
         owner, out, phone
    <2> QED
      BY <1>0, <2>1 DEF PhoneInv, Sending
  <1>6. ASSUME NEW r \in Requests, ReadReply(r)
        PROVE  PhoneInv'
    <2>1. UNCHANGED <<stage, sending, outbox, asked, fed>>
      BY <1>6 DEF ReadReply, owner, out
    <2>2. /\ r \in asked /\ replied' = [replied EXCEPT ![r] = @ + 1]
          /\ replied[r] < Header[r] + (IF Kind[r] = "upload" /\ r \notin fed THEN 0 ELSE Rest[r])
      BY <1>6 DEF ReadReply, answering
    <2>3. Header[r] \in Nat /\ Rest[r] \in Nat /\ replied[r] \in Nat
      BY <1>0, AnswerAssumption DEF TypeOK
    <2>4. \A q \in Requests : replied'[q] = IF q = r THEN replied[r] + 1 ELSE replied[q]
      BY <1>0, <2>2 DEF TypeOK
    <2>5. \A q \in Requests : /\ Sending(q, "open")' <=> Sending(q, "open")
                              /\ Sending(q, "data")' <=> Sending(q, "data")
      BY <2>1 DEF Sending
    <2> QED
      BY <1>0, <2>1, <2>2, <2>3, <2>4, <2>5, SMTT(40) DEF PhoneInv
  <1>7. ASSUME NEW c \in Commands, Enqueue(c)
        PROVE  PhoneInv'
    <2>1. UNCHANGED <<stage, asked, fed, replied>> /\ sending[c] = "queueing" /\ outbox' = Append(outbox, c)
          /\ sending' = [sending EXCEPT ![c] = "queued"]
      BY <1>7 DEF Enqueue, phone
    <2>2. \A q \in Requests : /\ Sending(q, "open")' => Sending(q, "open")
                              /\ Sending(q, "data")' => Sending(q, "data")
      <3>1. \A d \in Commands : sending[d] = "no" /\ d # Quit => sending'[d] = "no"
        BY <1>0, <2>1 DEF TypeOK
      <3> QED
        BY <1>0, <3>1, FewerSends
    <2>3. /\ Len(outbox') = Len(outbox) + 1 /\ Len(outbox) \in Nat /\ outbox'[Len(outbox) + 1] = c
          /\ \A i \in 1..Len(outbox) : outbox'[i] = outbox[i]
      BY <1>0, <2>1, AppendProperties, LenProperties DEF TypeOK
    <2>4. \A q \in Requests : /\ c = <<q, "open">> => stage[q] \notin Unopened
                              /\ c = <<q, "data">> => stage[q] \in Fed
      <3>1. \A q \in Requests : /\ c = <<q, "open">> => Sending(q, "open")
                                /\ c = <<q, "data">> => Sending(q, "data")
        BY <2>1 DEF Sending
      <3> QED
        BY <1>0, <3>1 DEF PhoneInv
    <2>5. \A i \in 1..Len(outbox') : i \in 1..Len(outbox) \/ i = Len(outbox) + 1
      BY <2>3
    <2>6. \A i \in 1..Len(outbox') : \A q \in Requests :
            /\ outbox'[i] = <<q, "open">> => stage[q] \notin Unopened
            /\ outbox'[i] = <<q, "data">> => stage[q] \in Fed
      BY <1>0, <2>3, <2>4, <2>5 DEF PhoneInv
    <2> QED
      BY <1>0, <2>1, <2>2, <2>6 DEF PhoneInv
  <1>8. ASSUME NEW c \in Commands, LooseEnd(c)
        PROVE  PhoneInv'
    <2>1. UNCHANGED <<stage, out, phone>> /\ sending' = [sending EXCEPT ![c] = "no"]
      BY <1>8 DEF LooseEnd
    <2>2. \A d \in Commands : sending[d] = "no" /\ d # Quit => sending'[d] = "no"
      BY <1>0, <2>1 DEF TypeOK
    <2> QED
      BY <1>0, <2>1, <2>2, FewerSends, PhoneFrame DEF out, phone
  <1>9. CASE Write
    <2>1. UNCHANGED <<stage, replied>> /\ outbox # <<>> /\ outbox \in Seq(Commands) /\ outbox' = Tail(outbox)
      BY <1>0, <1>9 DEF Write, TypeOK
    <2>2. /\ Head(outbox) = outbox[1] /\ Head(outbox) \in Commands /\ 1 \in 1..Len(outbox)
          /\ \A i \in 1..Len(outbox') : i + 1 \in 1..Len(outbox) /\ outbox'[i] = outbox[i + 1]
      BY <2>1
    <2>3. sending' = [sending EXCEPT ![Head(outbox)] = IF @ = "queued" THEN "sent" ELSE @]
      BY <1>9 DEF Write
    <2>4. \A d \in Commands : sending[d] = "no" /\ d # Quit => sending'[d] = "no"
      BY <1>0, <2>2, <2>3 DEF TypeOK
    <2>5. \A i \in 1..Len(outbox') : \A q \in Requests :
            /\ outbox'[i] = <<q, "open">> => stage[q] \notin Unopened
            /\ outbox'[i] = <<q, "data">> => stage[q] \in Fed
      BY <1>0, <2>2, SMTT(40) DEF PhoneInv
    <2>6. \A q \in Requests : /\ q \in asked' => q \in asked \/ outbox[1] = <<q, "open">>
                              /\ q \in fed' => q \in fed \/ outbox[1] = <<q, "data">>
                              /\ q \in fed => q \in fed'
      <3>1. /\ asked' = IF outbox[1][2] = "open" THEN asked \cup {outbox[1][1]} ELSE asked
            /\ fed' = IF outbox[1][2] = "data" THEN fed \cup {outbox[1][1]} ELSE fed
        BY <1>9, <2>2 DEF Write
      <3>2. outbox[1] = <<outbox[1][1], outbox[1][2]>>
        BY <2>2 DEF Commands, Quit
      <3> QED
        BY <3>1, <3>2
    <2>7. \A q \in Requests : /\ q \in asked' => stage[q] \notin Unopened
                              /\ q \in fed' => stage[q] \in Fed
      BY <1>0, <2>2, <2>6 DEF PhoneInv
    <2>8. \A q \in Requests : /\ Sending(q, "open")' => Sending(q, "open")
                              /\ Sending(q, "data")' => Sending(q, "data")
      BY <1>0, <2>4, FewerSends
    <2> QED
      BY <1>0, <2>1, <2>5, <2>6, <2>7, <2>8 DEF PhoneInv
  <1>10. CASE WriteFails \/ Closed
    <2>1. UNCHANGED <<stage, phone>> /\ stop_writer
      BY <1>10 DEF WriteFails, Closed
    <2>2. \A d \in Commands : sending[d] = "no" /\ d # Quit => sending'[d] = "no"
      BY <2>1 DEF stop_writer
    <2> QED
      BY <1>0, <2>1, <2>2, FewerSends, PhoneFrame DEF stop_writer, phone
  <1>11. CASE Close
    <2>1. UNCHANGED <<out, phone>>
      BY <1>11 DEF Close
    <2>2. \A q \in Requests : stage'[q] \in {stage[q], "ended"}
      BY <1>11 DEF Close
    <2>3. \A d \in Commands : sending[d] = "no" /\ d # Quit => sending'[d] = "no"
      BY <1>11 DEF Close
    <2> QED
      BY <1>0, <2>1, <2>2, <2>3, FewerSends, PhoneFrame DEF out, phone, Unopened, Fed
  <1> QED
    BY <1>1, <1>2, <1>3, <1>4, <1>5, <1>6, <1>7, <1>8, <1>9, <1>10, <1>11, Kinds DEF ReadStep, WireStep

-----------------------------------------------------------------------------
(***************************************************************************)
(* Items on their way.                                                     *)
(***************************************************************************)

\* An item stays an item of its request while the phone says more and the
\* request's entry does not come back.
LEMMA OwnKeeps ==
    ASSUME TypeOK, TypeOK', NEW r \in Requests, NEW item \in Items, Own(r, item),
           replied[r] <= replied'[r], refused \subseteq refused', r \in pending' => r \in pending
    PROVE  Own(r, item)'
  <1>1. replied[r] \in Nat /\ replied'[r] \in Nat /\ item.k \in Nat
    BY DEF TypeOK, Items
  <1> QED
    BY <1>1 DEF Own

\* A routed item goes to the one entry of its sid or to nobody.
LEMMA RouteFacts ==
    ASSUME TypeOK, NEW s, NEW item, route(s, item)
    PROVE  \/ held' = Nobody /\ registered(s) = {}
           \/ \E q \in pending : Sid[q] = s /\ held' = [to |-> q, item |-> item]
  <1>1. registered(s) # {} => (CHOOSE q \in registered(s) : TRUE) \in registered(s)
    OBVIOUS
  <1>2. \A q \in registered(s) : q \in pending /\ Sid[q] = s
    BY DEF registered
  <1> QED
    BY <1>1, <1>2 DEF route

\* No entry has a sid of the phone's.
LEMMA PushUnmatched ==
    ASSUME TypeOK, phone_sid < MaxPushes
    PROVE  registered(phone_sid + 1) = {}
  <1>1. \A r \in Requests : MaxPushes < Sid[r] /\ Sid[r] \in Nat /\ MaxPushes \in Nat
    BY AnswerAssumption, SspSessionAssumption
  <1>2. phone_sid \in Nat /\ pending \subseteq Requests
    BY DEF TypeOK
  <1> QED
    BY <1>1, <1>2 DEF registered

\* A call that goes on does not go back, and only Insert makes an entry.
LEMMA CallPlaces ==
    ASSUME TypeOK, NEW r \in Requests, CallStep(r)
    PROVE  \A q \in Requests : stage[q] \notin Unopened =>
              stage'[q] \notin Unopened /\ (q \in pending' => q \in pending)
  <1>1. CASE Open(r)
    BY <1>1 DEF TypeOK, Open, conn, Unopened
  <1>2. CASE Insert(r)
    BY <1>2 DEF TypeOK, Insert, Unopened
  <1>3. CASE Sent(r)
    BY <1>3 DEF TypeOK, Sent, conn, Unopened
  <1>4. CASE CancelToken(r)
    BY <1>4 DEF CancelToken, conn
  <1>5. CASE WithdrawOpen(r)
    BY <1>5 DEF TypeOK, WithdrawOpen, Unopened
  <1>6. CASE Cleanup(r)
    BY <1>6 DEF Cleanup
  <1> QED
    BY <1>1, <1>2, <1>3, <1>4, <1>5, <1>6 DEF CallStep

\* While the held item stays where it is.
LEMMA HeldFrame ==
    ASSUME TypeOK, TypeOK', HeldInv, held' \in {held, Nobody}, UNCHANGED replied,
           refused \subseteq refused',
           \A r \in Requests : stage[r] \notin Unopened =>
              stage'[r] \notin Unopened /\ (r \in pending' => r \in pending)
    PROVE  HeldInv'
  <1>1. CASE held' = Nobody
    BY <1>1 DEF HeldInv
  <1>2. CASE held' = held /\ held # Nobody
    <2>1. held.to \in Requests /\ held.item \in Items
      BY <1>2 DEF TypeOK
    <2>2. stage[held.to] \notin Unopened /\ Own(held.to, held.item)
          /\ (held.item.what = "reply" => held.item.k = replied[held.to] /\ held.item.k > 0)
      BY <1>2 DEF HeldInv
    <2>3. stage'[held.to] \notin Unopened /\ (held.to \in pending' => held.to \in pending)
      BY <2>1, <2>2
    <2> QED
      BY <1>2, <2>2, <2>3 DEF HeldInv, Own
  <1> QED
    BY <1>1, <1>2

\* The item the reader holds is about the request it is held for, and the
\* latest the phone said of it.
LEMMA HeldStep ==
    ASSUME IndInv, [Next]_vars
    PROVE  HeldInv'
  <1>0. TypeOK /\ TypeOK' /\ HeldInv /\ PendingInv
    BY TypeStep DEF IndInv
  <1>a. \A q \in pending : q \in Requests /\ stage[q] \notin Unopened
    BY <1>0 DEF PendingInv, TypeOK, Serving, Unopened
  <1>1. CASE UNCHANGED vars
    BY <1>0, <1>1, HeldFrame DEF vars, conn, owner, in, phone
  <1>2. ASSUME NEW r \in Requests, FailStep(r) \/ ReceiveLast(r)
        PROVE  HeldInv'
    <2>1. stage' = [stage EXCEPT ![r] = "ended"] /\ pending' \subseteq pending
      BY <1>2 DEF FailStep, ReceiveLast, Fails, Ends, finish
    <2>2. UNCHANGED <<held, replied, refused>>
      BY <1>2 DEF FailStep, ReceiveLast, in, phone
    <2>3. \A q \in Requests : stage[q] \notin Unopened =>
              stage'[q] \notin Unopened /\ (q \in pending' => q \in pending)
      BY <1>0, <2>1 DEF TypeOK, Unopened
    <2> QED
      BY <1>0, <2>2, <2>3, HeldFrame
  <1>3. ASSUME NEW r \in Requests, CallStep(r)
        PROVE  HeldInv'
    <2>1. UNCHANGED <<held, replied, refused>>
      BY <1>3 DEF CallStep, Open, Insert, Sent, CancelToken, WithdrawOpen, Cleanup, in, phone
    <2>2. \A q \in Requests : stage[q] \notin Unopened =>
              stage'[q] \notin Unopened /\ (q \in pending' => q \in pending)
      BY <1>0, <1>3, CallPlaces
    <2> QED
      BY <1>0, <2>1, <2>2, HeldFrame
  <1>4. ASSUME NEW r \in Requests, NEW n, ReceiveMore(r, n)
        PROVE  HeldInv'
    <2>1. (IF n > 1 THEN stage[r] ELSE after(r)) \notin Unopened
      BY <1>4 DEF ReceiveMore, after, ready, awaiting, Unopened
    <2>2. \A q \in Requests : stage[q] \notin Unopened => stage'[q] \notin Unopened
      BY <1>0, <1>4, <2>1 DEF ReceiveMore, TypeOK
    <2>3. UNCHANGED <<held, replied, refused, pending>>
      BY <1>4 DEF ReceiveMore, conn, in, phone
    <2> QED
      BY <1>0, <2>2, <2>3, HeldFrame
  <1>5. ASSUME NEW r \in Requests, ReadReply(r)
        PROVE  HeldInv'
    <2>1. UNCHANGED <<pending, stage, refused>> /\ replied' = [replied EXCEPT ![r] = @ + 1]
          /\ route(Sid[r], Reply(r, replied[r] + 1))
      BY <1>5 DEF ReadReply, conn, owner
    <2>2. CASE held' = Nobody
      BY <2>2 DEF HeldInv
    <2>3. CASE \E q \in pending : Sid[q] = Sid[r] /\ held' = [to |-> q, item |-> Reply(r, replied[r] + 1)]
      <3>1. r \in pending /\ held' = [to |-> r, item |-> Reply(r, replied[r] + 1)]
        BY <1>a, <2>3, SspSessionAssumption
      <3>2. stage'[r] \notin Unopened
        BY <1>a, <2>1, <3>1
      <3>3. replied'[r] = replied[r] + 1 /\ replied[r] \in Nat
        BY <1>0, <2>1 DEF TypeOK
      <3>4. /\ held'.to = r /\ held'.item.what = "reply" /\ held'.item.of = r
            /\ held'.item.k = replied[r] + 1
        BY <3>1 DEF Reply
      <3> QED
        BY <3>2, <3>3, <3>4 DEF HeldInv, Own
    <2> QED
      BY <1>0, <2>1, <2>2, <2>3, RouteFacts
  <1>6. ASSUME NEW r \in Requests, ReadRefusal(r)
        PROVE  HeldInv'
    <2>1. UNCHANGED <<pending, stage, replied>> /\ refused' = refused \cup {r}
          /\ route(Sid[r], Other("refusal", r))
      BY <1>6 DEF ReadRefusal, conn, owner
    <2>2. CASE held' = Nobody
      BY <2>2 DEF HeldInv
    <2>3. CASE \E q \in pending : Sid[q] = Sid[r] /\ held' = [to |-> q, item |-> Other("refusal", r)]
      <3>1. r \in pending /\ held' = [to |-> r, item |-> Other("refusal", r)]
        BY <1>a, <2>3, SspSessionAssumption
      <3>2. stage'[r] \notin Unopened
        BY <1>a, <2>1, <3>1
      <3>3. held'.to = r /\ held'.item.what = "refusal" /\ held'.item.of = r
        BY <3>1 DEF Other
      <3> QED
        BY <2>1, <3>2, <3>3 DEF HeldInv, Own
    <2> QED
      BY <1>0, <2>1, <2>2, <2>3, RouteFacts
  <1>7. CASE ReadPush
    <2>1. held' = Nobody
      BY <1>0, <1>7, PushUnmatched DEF ReadPush, route
    <2> QED
      BY <2>1 DEF HeldInv
  <1>8. ASSUME NEW r \in Requests, ReadCancel(r)
        PROVE  HeldInv'
    <2>1. UNCHANGED stage
      BY <1>8 DEF ReadCancel, owner
    <2>2. CASE held' = Nobody
      BY <2>2 DEF HeldInv
    <2>3. CASE /\ r \in pending /\ pending' = pending \ {r}
               /\ held' = [to |-> r, item |-> Other("cancelled", r)]
      <3>1. stage'[r] \notin Unopened
        BY <1>a, <2>1, <2>3
      <3>2. held'.to = r /\ held'.item.what = "cancelled" /\ held'.item.of = r
        BY <2>3 DEF Other
      <3> QED
        BY <2>3, <3>1, <3>2 DEF HeldInv, Own
    <2> QED
      BY <1>0, <1>8, <2>2, <2>3, PushUnmatched DEF ReadCancel, route
  <1>9. CASE Deliver \/ DropChunk \/ ReceiverGone \/ Closed
    <2>1. held' = Nobody
      BY <1>9 DEF Deliver, DropChunk, ReceiverGone, Closed
    <2> QED
      BY <2>1 DEF HeldInv
  <1>10. CASE ReadFails \/ WireStep
    <2>1. UNCHANGED <<held, replied, refused, stage>> /\ pending' \subseteq pending
      BY <1>10 DEF ReadFails, WireStep, Enqueue, LooseEnd, Write, WriteFails, fail_connection, conn,
         owner, in, phone
    <2> QED
      BY <1>0, <2>1, HeldFrame
  <1>11. CASE Close
    <2>1. UNCHANGED <<held, replied, refused, pending>>
      BY <1>11 DEF Close, in, phone
    <2>2. \A q \in Requests : stage[q] \notin Unopened => stage'[q] \notin Unopened
      BY <1>11 DEF Close, Unopened
    <2> QED
      BY <1>0, <2>1, <2>2, HeldFrame
  <1> QED
    BY <1>1, <1>2, <1>3, <1>4, <1>5, <1>6, <1>7, <1>8, <1>9, <1>10, <1>11, Kinds DEF ReadStep

-----------------------------------------------------------------------------
(***************************************************************************)
(* Streams.                                                                *)
(***************************************************************************)

\* The stream of a request keeps a first part of itself, and its owner has
\* received nothing but frames of an answer.
Cut(r) ==
    /\ Len(Stream(r)') <= Len(Stream(r))
    /\ \A i \in 1..Len(Stream(r)') : Stream(r)'[i] = Stream(r)[i]
    /\ \A i \in 1..Len(got'[r]) : got'[r][i].what = "reply"

\* Nothing received.
LEMMA CutSame ==
    ASSUME TypeOK, NEW r \in Requests, StreamOK(r), got'[r] = got[r], chan'[r] = chan[r]
    PROVE  Cut(r)
  <1>1. Stream(r)' = Stream(r)
    BY DEF Stream
  <1>2. Len(Stream(r)) \in Nat
    BY StreamItems
  <1> QED
    BY <1>1, <1>2 DEF Cut, StreamOK

\* One item of the channel is received.
LEMMA CutMore ==
    ASSUME IndInv, NEW r \in Requests, chan[r] # <<>>, Head(chan[r]).what \in {"reply", "push"},
           got'[r] = Append(got[r], Head(chan[r])), chan'[r] \in {Tail(chan[r]), <<>>}
    PROVE  Cut(r) /\ Len(got'[r]) = Len(got[r]) + 1
  <1> DEFINE p == got[r]
             q == chan[r]
             p2 == got'[r]
             s == Stream(r)
             s2 == Stream(r)'
  <1>1. /\ p \in Seq(Items) /\ q \in Seq(Items) /\ s = p \o q /\ q # <<>>
        /\ p2 = Append(p, Head(q)) /\ s2 \in {p2 \o Tail(q), p2 \o <<>>}
    BY DEF IndInv, TypeOK, Stream
  <1>2. Head(q).what = "reply"
    BY HeadOwn DEF Own
  <1>3. \A i \in 1..Len(p) : p[i].what = "reply"
    BY DEF IndInv, StreamInv, StreamOK
  <1> HIDE DEF p, q, p2, s, s2
  <1>4. /\ p2 \in Seq(Items) /\ Len(p2) = Len(p) + 1 /\ Len(p) \in Nat /\ p2[Len(p) + 1] = Head(q)
        /\ \A i \in 1..Len(p) : p2[i] = p[i]
    BY <1>1
  <1>5. \A i \in 1..Len(p2) : p2[i].what = "reply"
    BY <1>2, <1>3, <1>4
  <1>6. Len(s2) <= Len(s) /\ \A i \in 1..Len(s2) : s2[i] = s[i]
    <2>1. CASE s2 = p2 \o Tail(q)
      BY <1>1, <2>1, SMTT(40)
    <2>2. CASE s2 = p2 \o <<>>
      BY <1>1, <2>2
    <2> QED
      BY <1>1, <2>1, <2>2
  <1> QED
    BY <1>4, <1>5, <1>6 DEF Cut, p, q, p2, s, s2

\* What is kept of a stream keeps its order.
LEMMA StreamKept ==
    ASSUME TypeOK, TypeOK', NEW r \in Requests, StreamOK(r), Cut(r),
           replied[r] <= replied'[r], refused \subseteq refused', r \in pending' => r \in pending,
           Arriving(r)' => Arriving(r) /\ replied'[r] = replied[r]
    PROVE  StreamOK(r)'
  <1> DEFINE s == Stream(r)
             s2 == Stream(r)'
  <1>1. /\ Len(s) \in Nat /\ Len(s2) \in Nat /\ Len(s2) <= Len(s)
        /\ \A i \in 1..Len(s2) : s2[i] = s[i] /\ i \in 1..Len(s) /\ s[i] \in Items
    <2>1. Stream(r) \in Seq(Items) /\ Len(Stream(r)) \in Nat
      BY StreamItems, Zenon
    <2>2. Stream(r)' \in Seq(Items)
      <3>1. got'[r] \in Seq(Items) /\ chan'[r] \in Seq(Items)
        BY DEF TypeOK
      <3>2. \A x, y \in Seq(Items) : x \o y \in Seq(Items)
        BY ConcatProperties
      <3> QED
        BY <3>1, <3>2 DEF Stream
    <2>3. Len(s2) \in Nat /\ \A i \in 1..Len(s) : s[i] \in Items
      BY <2>1, <2>2, LenProperties, ElementOfSeq
    <2>4. Len(s2) <= Len(s) /\ \A i \in 1..Len(s2) : s2[i] = s[i]
      BY DEF Cut
    <2> HIDE DEF s, s2
    <2>5. \A i \in 1..Len(s2) : i \in 1..Len(s)
      BY <2>3, <2>4 DEF s
    <2> QED
      BY <2>1, <2>3, <2>4, <2>5 DEF s
  <1>2. /\ replied[r] \in Nat /\ replied'[r] \in Nat
        /\ \A i \in 1..Len(s2) : Own(r, s[i]) /\ s[i].k \in Nat
    BY <1>1 DEF StreamOK, TypeOK, Items
  <1>3. (\A i \in 1..Len(Stream(r)) : Own(r, Stream(r)[i]))'
    BY <1>1, <1>2 DEF Own
  <1>4. Spread(s2)
    BY <1>1 DEF StreamOK, Spread
  <1>5. \A i \in 1..Len(got'[r]) : got'[r][i].what = "reply"
    BY DEF Cut
  <1>6. Arriving(r)' => \A i \in 1..Len(s2) : s2[i].what = "reply" /\ s2[i].k < replied'[r]
    BY <1>1 DEF StreamOK
  <1> QED
    BY <1>3, <1>4, <1>5, <1>6 DEF StreamOK

\* A stream that is gone.
LEMMA StreamGone ==
    ASSUME NEW r \in Requests, got'[r] = <<>>, chan'[r] = <<>>
    PROVE  StreamOK(r)'
  <1>1. Stream(r)' = <<>> /\ Len(<<>>) = 0 /\ got'[r] = <<>>
    BY ConcatEmptySeq, EmptySeq DEF Stream
  <1> QED
    BY <1>1 DEF StreamOK, Spread

\* While the phone says nothing of an answer, streams are kept, cut or gone.
LEMMA StreamFrame ==
    ASSUME IndInv, TypeOK', UNCHANGED replied, refused \subseteq refused',
           \A q \in Requests : Arriving(q)' => Arriving(q),
           \A q \in Requests : \/ got'[q] = <<>> /\ chan'[q] = <<>>
                               \/ /\ Cut(q) \/ (got'[q] = got[q] /\ chan'[q] = chan[q])
                                  /\ q \in pending' => q \in pending
    PROVE  StreamInv'
  <1> SUFFICES ASSUME NEW q \in Requests
               PROVE  StreamOK(q)'
    BY DEF StreamInv
  <1>1. TypeOK /\ StreamOK(q) /\ replied[q] \in Nat /\ replied'[q] = replied[q]
    BY DEF IndInv, StreamInv, TypeOK
  <1>2. CASE got'[q] = <<>> /\ chan'[q] = <<>>
    BY <1>2, StreamGone
  <1>3. CASE (Cut(q) \/ (got'[q] = got[q] /\ chan'[q] = chan[q])) /\ (q \in pending' => q \in pending)
    <2>1. Cut(q)
      BY <1>1, <1>3, CutSame
    <2>2. replied[q] <= replied'[q] /\ (Arriving(q)' => Arriving(q))
      BY <1>1
    <2> QED
      BY <1>1, <1>3, <2>1, <2>2, StreamKept
  <1> QED
    BY <1>2, <1>3

\* An item goes to the end of its stream.
LEMMA Appended ==
    ASSUME NEW s \in Seq(Items), NEW x \in Items
    PROVE  LET s2 == Append(s, x)
           IN  /\ Len(s) \in Nat /\ Len(s2) = Len(s) + 1 /\ s2[Len(s) + 1] = x
               /\ \A i \in 1..Len(s) : s2[i] = s[i]
               /\ \A i \in 1..Len(s2) : i \in 1..Len(s) \/ i = Len(s) + 1
  <1> DEFINE s2 == Append(s, x)
  <1>1. Len(s) \in Nat /\ Len(s2) = Len(s) + 1 /\ s2[Len(s) + 1] = x
        /\ \A i \in 1..Len(s) : s2[i] = s[i]
    BY AppendProperties, LenProperties
  <1> HIDE DEF s2
  <1>2. \A i \in 1..Len(s2) : i \in 1..Len(s) \/ i = Len(s) + 1
    BY <1>1
  <1> QED
    BY <1>1, <1>2, Zenon DEF s2

\* The order of the frames survives a delivery.
LEMMA SpreadAppend ==
    ASSUME NEW s, NEW s2, NEW x \in Items, Len(s) \in Nat, Len(s2) = Len(s) + 1,
           s2[Len(s) + 1] = x, \A i \in 1..Len(s) : s2[i] = s[i] /\ s[i] \in Items,
           Spread(s),
           x.what = "reply" =>
              x.k > 0 /\ \A i \in 1..Len(s) : s[i].what = "reply" /\ s[i].k < x.k
    PROVE  Spread(s2)
  <1>1. \A i \in 1..Len(s2) : i \in 1..Len(s) \/ i = Len(s) + 1
    OBVIOUS
  <1>2. x.k \in Nat /\ \A i \in 1..Len(s) : s[i].k \in Nat
    BY DEF Items
  <1>3. x.what = "reply" => \A i \in 1..Len(s) : s[i].what = "reply" /\ x.k - s[i].k >= Len(s) + 1 - i
    <2> SUFFICES ASSUME x.what = "reply", NEW i \in 1..Len(s)
                 PROVE  s[i].what = "reply" /\ x.k - s[i].k >= Len(s) + 1 - i
      OBVIOUS
    <2>1. Len(s) \in 1..Len(s)
      OBVIOUS
    <2>2. s[Len(s)].what = "reply" /\ s[Len(s)].k < x.k /\ s[i].what = "reply" /\ s[i].k < x.k
      BY <2>1
    <2>3. i < Len(s) => s[Len(s)].k - s[i].k >= Len(s) - i
      BY <2>1, <2>2 DEF Spread
    <2>4. i = Len(s) \/ i < Len(s)
      OBVIOUS
    <2>5. s[i].k \in Nat /\ s[Len(s)].k \in Nat /\ x.k \in Nat
      BY <1>2, <2>1
    <2> QED
      BY <2>2, <2>3, <2>4, <2>5
  <1>4. x.what = "reply" => x.k >= Len(s) + 1
    <2>1. CASE Len(s) = 0
      BY <1>2, <2>1
    <2>2. CASE Len(s) > 0
      <3>1. Len(s) \in 1..Len(s)
        BY <2>2
      <3>2. x.what = "reply" => s[Len(s)].k >= Len(s) /\ s[Len(s)].k < x.k
        BY <3>1 DEF Spread
      <3> QED
        BY <1>2, <3>1, <3>2
    <2> QED
      BY <2>1, <2>2
  <1>5. \A i \in 1..Len(s2) : s2[i].what = "reply" => s2[i].k >= i
    BY <1>1, <1>4 DEF Spread
  <1>6. \A i, j \in 1..Len(s2) :
          i < j /\ s2[j].what = "reply" => s2[i].what = "reply" /\ s2[j].k - s2[i].k >= j - i
    <2> SUFFICES ASSUME NEW i \in 1..Len(s2), NEW j \in 1..Len(s2), i < j, s2[j].what = "reply"
                 PROVE  s2[i].what = "reply" /\ s2[j].k - s2[i].k >= j - i
      OBVIOUS
    <2>1. i \in 1..Len(s)
      BY <1>1
    <2>2. CASE j \in 1..Len(s)
      BY <2>1, <2>2 DEF Spread
    <2>3. CASE j = Len(s) + 1
      BY <1>3, <2>1, <2>3
    <2> QED
      BY <1>1, <2>2, <2>3
  <1> QED
    BY <1>5, <1>6 DEF Spread

\* Streams hold the frames of their own answers in order.
LEMMA StreamStep ==
    ASSUME IndInv, [Next]_vars
    PROVE  StreamInv'
  <1>0. TypeOK /\ TypeOK' /\ PendingInv /\ HeldInv /\ StreamInv /\ CountInv
    BY TypeStep DEF IndInv
  <1>1. CASE UNCHANGED vars \/ WireStep \/ ReadFails
    <2>1. UNCHANGED <<got, chan, held, replied, refused>> /\ pending' \subseteq pending
      BY <1>1 DEF vars, WireStep, ReadFails, Enqueue, LooseEnd, Write, WriteFails, fail_connection,
         conn, owner, in, phone
    <2>2. \A q \in Requests : Arriving(q)' => Arriving(q)
      BY <2>1 DEF Arriving
    <2> QED
      BY <1>0, <2>1, <2>2, StreamFrame
  <1>2. ASSUME NEW r \in Requests, FailStep(r)
        PROVE  StreamInv'
    <2>1. /\ got' = [got EXCEPT ![r] = <<>>] /\ chan' = [chan EXCEPT ![r] = <<>>]
      BY <1>2 DEF FailStep, Fails, Ends
    <2>2. UNCHANGED <<held, replied, refused>> /\ pending' \subseteq pending
      BY <1>2 DEF FailStep, in, phone
    <2>3. \A q \in Requests : IF q = r THEN got'[q] = <<>> /\ chan'[q] = <<>>
                              ELSE got'[q] = got[q] /\ chan'[q] = chan[q]
      BY <1>0, <2>1 DEF TypeOK
    <2>4. \A q \in Requests : Arriving(q)' => Arriving(q)
      BY <2>2 DEF Arriving
    <2> QED
      BY <1>0, <2>2, <2>3, <2>4, StreamFrame
  <1>3. ASSUME NEW r \in Requests, CallStep(r)
        PROVE  StreamInv'
    <2>1. UNCHANGED <<got, chan, held, replied, refused>>
      BY <1>3 DEF CallStep, Open, Insert, Sent, CancelToken, WithdrawOpen, Cleanup, in, phone
    <2>2. \A q \in Requests : stage[q] \in Unopened => got[q] = <<>> /\ chan[q] = <<>>
      BY <1>0 DEF CountInv, CountOK
    <2>3. \A q \in Requests : stage[q] \notin Unopened => (q \in pending' => q \in pending)
      BY <1>0, <1>3, CallPlaces
    <2>4. \A q \in Requests : Arriving(q)' => Arriving(q)
      BY <2>1 DEF Arriving
    <2> QED
      BY <1>0, <2>1, <2>2, <2>3, <2>4, StreamFrame
  <1>4. ASSUME NEW r \in Requests, ReceiveLast(r) \/ \E n : ReceiveMore(r, n)
        PROVE  StreamInv'
    <2>1. /\ chan[r] # <<>> /\ Head(chan[r]).what \in {"reply", "push"}
          /\ got' = [got EXCEPT ![r] = Append(@, Head(chan[r]))]
          /\ chan' \in {[chan EXCEPT ![r] = <<>>], [chan EXCEPT ![r] = Tail(@)]}
      BY <1>4 DEF ReceiveLast, ReceiveMore, ready, Ends
    <2>2. UNCHANGED <<held, replied, refused>> /\ pending' \subseteq pending
      BY <1>4 DEF ReceiveLast, ReceiveMore, finish, conn, in, phone
    <2>3. \A q \in Requests \ {r} : got'[q] = got[q] /\ chan'[q] = chan[q]
      BY <1>0, <2>1, ZenonT(60) DEF TypeOK
    <2>4. got'[r] = Append(got[r], Head(chan[r])) /\ chan'[r] \in {Tail(chan[r]), <<>>}
      BY <1>0, <2>1, SMTT(40) DEF TypeOK
    <2>5. Cut(r)
      BY <2>1, <2>4, CutMore
    <2>6. \A q \in Requests : Arriving(q)' => Arriving(q)
      BY <2>2 DEF Arriving
    <2> QED
      BY <1>0, <2>2, <2>3, <2>5, <2>6, StreamFrame
  <1>5. ASSUME NEW r \in Requests, ReadReply(r)
        PROVE  StreamInv'
    <2>1. /\ UNCHANGED <<pending, got, chan, refused>> /\ replied' = [replied EXCEPT ![r] = @ + 1]
          /\ route(Sid[r], Reply(r, replied[r] + 1)) /\ r \notin refused
      BY <1>5 DEF ReadReply, answering, conn, owner
    <2>2. \A q \in Requests : Arriving(q)' => q = r /\ r \in pending
      <3> SUFFICES ASSUME NEW q \in Requests, Arriving(q)'
                   PROVE  q = r /\ r \in pending
        OBVIOUS
      <3>1. PICK x \in pending : Sid[x] = Sid[r] /\ held' = [to |-> x, item |-> Reply(r, replied[r] + 1)]
        BY <1>0, <2>1, RouteFacts DEF Arriving
      <3>2. x = r
        BY <1>0, <3>1, SspSessionAssumption DEF TypeOK
      <3> QED
        BY <3>1, <3>2 DEF Arriving
    <2>3. \A q \in Requests : /\ replied[q] \in Nat /\ replied'[q] = IF q = r THEN replied[r] + 1 ELSE replied[q]
                              /\ replied[q] <= replied'[q]
      BY <1>0, <2>1, SMTT(40) DEF TypeOK
    <2>4. ASSUME NEW q \in Requests, q # r
          PROVE  StreamOK(q)'
      <3>1. StreamOK(q) /\ Cut(q) /\ ~Arriving(q)'
        BY <1>0, <2>1, <2>2, <2>4, CutSame DEF StreamInv
      <3> QED
        BY <1>0, <2>1, <2>3, <3>1, StreamKept
    <2>5. StreamOK(r)'
      <3>1. StreamOK(r) /\ Stream(r)' = Stream(r) /\ got'[r] = got[r]
        BY <1>0, <2>1 DEF StreamInv, Stream
      <3>2. \A i \in 1..Len(Stream(r)) : Own(r, Stream(r)[i]) /\ Stream(r)[i].k \in Nat
        <4>1. \A i \in 1..Len(Stream(r)) : Stream(r)[i] \in Items
          BY <1>0, StreamItems, ElementOfSeq
        <4> QED
          BY <3>1, <4>1 DEF StreamOK, Items
      <3>3. (\A i \in 1..Len(Stream(r)) : Own(r, Stream(r)[i]))'
        BY <2>1, <2>3, <3>1, <3>2 DEF Own
      <3>4. r \in pending => \A i \in 1..Len(Stream(r)) : Stream(r)[i].what = "reply" /\ Stream(r)[i].k < replied'[r]
        BY <2>1, <2>3, <3>2 DEF Own
      <3>5. Arriving(r)' => r \in pending
        BY <2>2
      <3> QED
        BY <3>1, <3>3, <3>4, <3>5 DEF StreamOK
    <2> QED
      BY <2>4, <2>5 DEF StreamInv
  <1>6. CASE ReadPush \/ \E r \in Requests : ReadRefusal(r) \/ ReadCancel(r)
    <2>1. UNCHANGED <<got, chan, replied>> /\ pending' \subseteq pending /\ refused \subseteq refused'
      BY <1>6 DEF ReadPush, ReadRefusal, ReadCancel, conn, owner
    <2>2. ASSUME NEW q \in Requests
          PROVE  ~Arriving(q)'
      <3>1. CASE ReadPush
        BY <1>0, <3>1, PushUnmatched DEF ReadPush, route, Arriving
      <3>2. ASSUME NEW r \in Requests, ReadRefusal(r)
            PROVE  ~Arriving(q)'
        <4>1. route(Sid[r], Other("refusal", r))
          BY <3>2 DEF ReadRefusal
        <4>2. held' = Nobody \/ held'.item.what = "refusal"
          BY <1>0, <4>1, RouteFacts DEF Other
        <4> QED
          BY <4>2 DEF Arriving
      <3>3. ASSUME NEW r \in Requests, ReadCancel(r)
            PROVE  ~Arriving(q)'
        <4>1. held' = Nobody \/ held' = [to |-> r, item |-> Other("cancelled", r)]
          BY <1>0, <3>3, PushUnmatched DEF ReadCancel, route
        <4> QED
          BY <4>1 DEF Arriving, Other
      <3> QED
        BY <1>6, <3>1, <3>2, <3>3
    <2> QED
      BY <1>0, <2>1, <2>2, StreamFrame
  <1>7. CASE Deliver
    <2>a. PICK r \in Requests, x \in Items : held # Nobody /\ held.to = r /\ held.item = x
      BY <1>0, <1>7 DEF Deliver, TypeOK
    <2> DEFINE p == got[r]
               q == chan[r]
               s == Stream(r)
               s2 == Stream(r)'
    <2>1. /\ chan' = [chan EXCEPT ![r] = Append(@, x)] /\ held' = Nobody
          /\ UNCHANGED <<pending, got, replied, refused>>
      BY <1>7, <2>a DEF Deliver, conn, phone
    <2>2. /\ \A c \in Requests : got'[c] = got[c] /\ ~Arriving(c)'
          /\ \A c \in Requests \ {r} : chan'[c] = chan[c]
          /\ chan'[r] = Append(q, x)
          /\ p \in Seq(Items) /\ q \in Seq(Items)
      BY <1>0, <2>1 DEF TypeOK, Arriving
    <2>3. s = p \o q /\ s2 = p \o Append(q, x)
      BY <2>1, <2>2 DEF Stream
    <2>4. StreamOK(r) /\ Own(r, x)
          /\ (x.what = "reply" => x.k = replied[r] /\ x.k > 0 /\ Arriving(r))
      BY <1>0, <2>a DEF StreamInv, HeldInv, Arriving
    <2>7. Spread(s) /\ (\A i \in 1..Len(s) : Own(r, s[i]))
          /\ (Arriving(r) => \A i \in 1..Len(s) : s[i].what = "reply" /\ s[i].k < replied[r])
          /\ \A i \in 1..Len(got[r]) : got[r][i].what = "reply"
      BY <2>4 DEF StreamOK
    <2> HIDE DEF p, q, s, s2
    <2>5. /\ s \in Seq(Items) /\ Len(s) \in Nat /\ Len(s2) = Len(s) + 1
          /\ s2[Len(s) + 1] = x
          /\ \A i \in 1..Len(s) : s2[i] = s[i]
          /\ \A i \in 1..Len(s2) : i \in 1..Len(s) \/ i = Len(s) + 1
      <3>1. s \in Seq(Items) /\ s2 = Append(s, x)
        BY <2>2, <2>3
      <3> QED
        BY <3>1, Appended
    <2>6. \A i \in 1..Len(s) : s[i] \in Items
      BY <2>5, ElementOfSeq
    <2>8. Spread(s2)
      <3>1. x.what = "reply" => x.k > 0 /\ \A i \in 1..Len(s) : s[i].what = "reply" /\ s[i].k < x.k
        BY <2>4, <2>7
      <3>2. \A i \in 1..Len(s) : s2[i] = s[i] /\ s[i] \in Items
        BY <2>5, <2>6
      <3> QED
        BY <2>5, <2>7, <3>1, <3>2, SpreadAppend
    <2>9. \A i \in 1..Len(s2) : Own(r, s2[i])
      BY <2>4, <2>5, <2>7
    <2>10. StreamOK(r)'
      <3>1. (\A i \in 1..Len(Stream(r)) : Own(r, Stream(r)[i]))'
        BY <2>1, <2>9 DEF Own, s2
      <3>2. Spread(Stream(r))'
        BY <2>8 DEF Spread, s2
      <3> QED
        BY <2>2, <2>7, <3>1, <3>2 DEF StreamOK
    <2>11. ASSUME NEW c \in Requests, c # r
           PROVE  StreamOK(c)'
      <3>1. StreamOK(c) /\ Cut(c) /\ ~Arriving(c)' /\ replied[c] \in Nat
        BY <1>0, <2>2, <2>11, CutSame DEF StreamInv, TypeOK
      <3>2. replied[c] <= replied'[c]
        BY <2>1, <3>1
      <3> QED
        BY <1>0, <2>1, <3>1, <3>2, StreamKept
    <2> QED
      BY <2>10, <2>11 DEF StreamInv
  <1>8. CASE DropChunk \/ ReceiverGone \/ Closed
    <2>1. UNCHANGED <<got, chan, replied, refused>> /\ held' = Nobody /\ pending' \subseteq pending
      BY <1>8 DEF DropChunk, ReceiverGone, Closed, conn, owner, phone
    <2>2. \A q \in Requests : Arriving(q)' => Arriving(q)
      BY <2>1 DEF Arriving
    <2> QED
      BY <1>0, <2>1, <2>2, StreamFrame
  <1>9. CASE Close
    <2>1. UNCHANGED <<held, replied, refused, pending>>
      BY <1>9 DEF Close, in, phone
    <2>2. \A q \in Requests : \/ got'[q] = <<>> /\ chan'[q] = <<>>
                              \/ got'[q] = got[q] /\ chan'[q] = chan[q]
      BY <1>9 DEF Close
    <2>3. \A q \in Requests : Arriving(q)' => Arriving(q)
      BY <2>1 DEF Arriving
    <2> QED
      BY <1>0, <2>1, <2>2, <2>3, StreamFrame
  <1> QED
    BY <1>1, <1>2, <1>3, <1>4, <1>5, <1>6, <1>7, <1>8, <1>9, Kinds DEF ReadStep

-----------------------------------------------------------------------------
(***************************************************************************)
(* Lengths.                                                                *)
(***************************************************************************)

\* The frames an owner receives next, counted with those it has, make up the
\* header, or the header and the rest.
LEMMA Remaining ==
    ASSUME IndInv, NEW r \in Requests, NEW n, ready(r), Head(chan[r]).what \in {"reply", "push"},
           n \in IF need[r] = 0 THEN declared(r, Head(chan[r])) ELSE {need[r]}
    PROVE  /\ n \in Nat /\ n > 0 /\ Len(got[r]) \in Nat
           /\ stage[r] \in {"waiting", "raw", "reply"}
           /\ stage[r] = "waiting" => Len(got[r]) + n = Header[r]
           /\ stage[r] \in {"raw", "reply"} => Len(got[r]) + n = Header[r] + Rest[r]
  <1>0. TypeOK /\ CountOK(r) /\ BoundaryOK(r) /\ StreamOK(r)
    BY DEF IndInv, CountInv, BoundaryInv, StreamInv
  <1>1. stage[r] \in {"waiting", "raw", "reply"} /\ chan[r] # <<>>
    BY DEF ready, awaiting
  <1>2. Header[r] \in Nat \ {0} /\ Rest[r] \in Nat /\ need[r] \in Nat /\ Len(got[r]) \in Nat
    BY <1>0, StreamItems, AnswerAssumption DEF TypeOK
  <1>3. CASE need[r] # 0
    BY <1>0, <1>1, <1>2, <1>3 DEF CountOK
  <1>4. CASE need[r] = 0
    <2>1. stage[r] \in {"waiting", "reply"} /\ stage[r] \in Serving
      BY <1>0, <1>1, <1>4 DEF CountOK, Serving
    <2> DEFINE f == Head(chan[r])
    <2>2. f = chan[r][1] /\ Own(r, f) /\ f \in Items /\ f = Stream(r)[Len(got[r]) + 1]
          /\ Len(got[r]) + 1 \in 1..Len(Stream(r))
      BY <1>1, HeadOwn
    <2>3. f.what = "reply" /\ f.of = r
      BY <2>2 DEF Own
    <2>4. f.k >= Len(got[r]) + 1
      BY <1>0, <2>2, <2>3 DEF StreamOK, Spread
    <2>5. f.k <= Len(got[r]) + 1 /\ f.k \in Nat
      BY <1>0, <1>1, <1>4, <2>1, <2>2, <2>3 DEF BoundaryOK, Items
    <2>6. f.k = Len(got[r]) + 1
      BY <1>2, <2>4, <2>5
    <2>7. f = Reply(r, Len(got[r]) + 1)
      BY <2>2, <2>3, <2>6 DEF Items, Reply
    <2>8. n \in declared(r, f)
      BY <1>4
    <2> HIDE DEF f
    <2>9. CASE stage[r] = "waiting"
      <3>1. Len(got[r]) = 0
        BY <1>0, <1>4, <2>9 DEF CountOK
      <3>2. f = Reply(r, 1)
        BY <2>7, <3>1
      <3>3. n = Header[r]
        BY <2>8, <3>2 DEF declared
      <3> QED
        BY <1>2, <2>9, <3>1, <3>3
    <2>10. CASE stage[r] = "reply"
      <3>1. Len(got[r]) = Header[r] /\ Kind[r] = "upload"
        BY <1>0, <1>4, <2>10 DEF CountOK
      <3>2. f = Reply(r, Header[r] + 1) /\ f # Reply(r, 1)
        BY <1>2, <2>6, <2>7, <3>1 DEF Reply
      <3>3. n = Rest[r] /\ Rest[r] > 0
        BY <2>8, <3>1, <3>2, AnswerAssumption DEF declared
      <3> QED
        BY <1>2, <2>10, <3>1, <3>3
    <2> QED
      BY <2>1, <2>9, <2>10, <1>2
  <1> QED
    BY <1>3, <1>4

\* Lengths of a call that nothing happens to.
LEMMA CountFrame ==
    ASSUME NEW q \in Requests, CountOK(q),
           got'[q] = got[q], need'[q] = need[q], stage'[q] = stage[q], result'[q] = result[q],
           chan'[q] = chan[q] \/ stage[q] \notin Unopened \cup {"ended"}
    PROVE  CountOK(q)'
  BY DEF CountOK

\* Lengths of a call that fails.
LEMMA CountFailed ==
    ASSUME NEW q \in Requests, stage'[q] = "ended", got'[q] = <<>>, chan'[q] = <<>>, need'[q] = 0,
           result'[q] # "ok"
    PROVE  CountOK(q)'
  BY DEF CountOK, Unopened

\* The lengths add up after every step.
LEMMA CountStep ==
    ASSUME IndInv, [Next]_vars
    PROVE  CountInv'
  <1>0. TypeOK /\ CountInv
    BY DEF IndInv
  <1>1. CASE UNCHANGED owner
    BY <1>0, <1>1 DEF CountInv, CountOK, owner
  <1>2. CASE UNCHANGED vars \/ WireStep \/ ReadFails \/ DropChunk \/ ReceiverGone \/ ReadPush
             \/ (\E r \in Requests : ReadStep(r)) \/ Closed
    <2>1. UNCHANGED <<stage, got, chan, need, result>>
      BY <1>2 DEF vars, WireStep, Enqueue, LooseEnd, Write, WriteFails, ReadFails, DropChunk,
         ReceiverGone, ReadPush, ReadStep, ReadReply, ReadRefusal, ReadCancel, Closed, owner
    <2> QED
      BY <1>0, <2>1 DEF CountInv, CountOK
  <1>3. ASSUME NEW r \in Requests, FailStep(r)
        PROVE  CountInv'
    <2>1. PICK how \in {"Error", "Timeout", "Cancelled"} : Fails(r, how)
      BY <1>3 DEF FailStep
    <2>2. \A q \in Requests : IF q = r THEN /\ stage'[q] = "ended" /\ got'[q] = <<>> /\ chan'[q] = <<>>
                                            /\ need'[q] = 0 /\ result'[q] # "ok"
                              ELSE /\ got'[q] = got[q] /\ need'[q] = need[q] /\ stage'[q] = stage[q]
                                   /\ result'[q] = result[q] /\ chan'[q] = chan[q]
      BY <1>0, <2>1 DEF Fails, Ends, TypeOK
    <2> QED
      BY <1>0, <2>2, CountFrame, CountFailed DEF CountInv
  <1>4. ASSUME NEW r \in Requests, CallStep(r)
        PROVE  CountInv'
    <2>1. UNCHANGED <<got, chan, need>> /\ \A q \in Requests \ {r} : stage'[q] = stage[q] /\ result'[q] = result[q]
      <3>1. CASE Open(r)
        BY <1>0, <3>1 DEF TypeOK, Open
      <3>2. CASE Insert(r) \/ Sent(r) \/ WithdrawOpen(r)
        BY <1>0, <3>2 DEF TypeOK, Insert, Sent, WithdrawOpen
      <3>3. CASE CancelToken(r) \/ Cleanup(r)
        BY <3>3 DEF CancelToken, Cleanup
      <3> QED
        BY <1>4, <3>1, <3>2, <3>3 DEF CallStep
    <2>2. CountOK(r)
      BY <1>0 DEF CountInv
    <2>3. CountOK(r)'
      <3>1. CASE Open(r)
        <4>1. stage[r] = "idle" /\ stage'[r] \in {"allocated", "ended"} /\ result'[r] \in {"Error", result[r]}
          BY <1>0, <3>1 DEF TypeOK, Open
        <4> QED
          BY <2>1, <2>2, <4>1 DEF CountOK, Unopened
      <3>2. CASE Insert(r)
        <4>1. stage[r] = "allocated" /\ stage'[r] = "opening" /\ result'[r] = result[r]
          BY <1>0, <3>2 DEF TypeOK, Insert
        <4> QED
          BY <2>1, <2>2, <4>1 DEF CountOK, Unopened
      <3>3. CASE Sent(r)
        <4>1. /\ \/ stage[r] = "opening" /\ stage'[r] = "waiting"
                 \/ stage[r] = "uploading" /\ stage'[r] = "reply"
              /\ result'[r] = result[r]
          BY <1>0, <3>3 DEF TypeOK, Sent
        <4> QED
          BY <2>1, <2>2, <4>1 DEF CountOK, Unopened
      <3>4. CASE WithdrawOpen(r)
        <4>1. stage[r] # "ended" /\ stage'[r] \in {"stopping", "withdrawing"} /\ result'[r] = result[r]
          BY <1>0, <3>4 DEF TypeOK, WithdrawOpen
        <4> QED
          BY <2>1, <2>2, <4>1 DEF CountOK, Unopened
      <3>5. CASE CancelToken(r) \/ Cleanup(r)
        <4>1. UNCHANGED <<stage, result>>
          BY <3>5 DEF CancelToken, Cleanup
        <4> QED
          BY <2>1, <2>2, <4>1, CountFrame
      <3> QED
        BY <1>4, <3>1, <3>2, <3>3, <3>4, <3>5 DEF CallStep
    <2> QED
      BY <1>0, <2>1, <2>3, CountFrame DEF CountInv
  <1>5. ASSUME NEW r \in Requests, ReceiveLast(r)
        PROVE  CountInv'
    <2>1. /\ ready(r) /\ Head(chan[r]).what \in {"reply", "push"} /\ after(r) = "ended"
          /\ 1 \in IF need[r] = 0 THEN declared(r, Head(chan[r])) ELSE {need[r]}
          /\ got' = [got EXCEPT ![r] = Append(@, Head(chan[r]))] /\ Ends(r, "ok")
      BY <1>5 DEF ReceiveLast
    <2>2. /\ Len(got[r]) \in Nat /\ stage[r] \in {"waiting", "raw", "reply"}
          /\ stage[r] = "waiting" => Len(got[r]) + 1 = Header[r]
          /\ stage[r] \in {"raw", "reply"} => Len(got[r]) + 1 = Header[r] + Rest[r]
      BY <2>1, Remaining
    <2>3. /\ got'[r] = Append(got[r], Head(chan[r])) /\ chan'[r] = <<>>
          /\ stage'[r] = "ended" /\ need'[r] = 0
          /\ \A q \in Requests \ {r} :
                /\ got'[q] = got[q] /\ need'[q] = need[q] /\ stage'[q] = stage[q]
                /\ result'[q] = result[q] /\ chan'[q] = chan[q]
      BY <1>0, <2>1 DEF Ends, TypeOK
    <2>4. Len(got'[r]) = Len(got[r]) + 1
      BY <2>1, <2>3, CutMore DEF ready
    <2>5. stage[r] = "waiting" => Rest[r] = 0
      BY <1>0, <2>1, AnswerAssumption, SspSessionAssumption DEF after
    <2>6. Len(got'[r]) = Header[r] + Rest[r]
      BY <2>2, <2>4, <2>5, AnswerAssumption
    <2>7. CountOK(r)'
      BY <2>3, <2>6 DEF CountOK, Unopened
    <2> QED
      BY <1>0, <2>3, <2>7, CountFrame DEF CountInv
  <1>6. ASSUME NEW r \in Requests, NEW n, ReceiveMore(r, n)
        PROVE  CountInv'
    <2>1. /\ ready(r) /\ Head(chan[r]).what \in {"reply", "push"}
          /\ n \in IF need[r] = 0 THEN declared(r, Head(chan[r])) ELSE {need[r]}
          /\ n > 1 \/ after(r) # "ended"
          /\ got' = [got EXCEPT ![r] = Append(@, Head(chan[r]))] /\ chan' = [chan EXCEPT ![r] = Tail(@)]
          /\ UNCHANGED result
      BY <1>6 DEF ReceiveMore
    <2>2. /\ n \in Nat /\ n > 0 /\ Len(got[r]) \in Nat /\ stage[r] \in {"waiting", "raw", "reply"}
          /\ stage[r] = "waiting" => Len(got[r]) + n = Header[r]
          /\ stage[r] \in {"raw", "reply"} => Len(got[r]) + n = Header[r] + Rest[r]
      BY <2>1, Remaining
    <2>3. /\ got'[r] = Append(got[r], Head(chan[r])) /\ chan'[r] = Tail(chan[r])
          /\ stage'[r] = (IF n > 1 THEN stage[r] ELSE after(r))
          /\ need'[r] = (IF n > 1 THEN n - 1 ELSE IF after(r) = "raw" THEN Rest[r] ELSE 0)
          /\ \A q \in Requests \ {r} :
                /\ got'[q] = got[q] /\ need'[q] = need[q] /\ stage'[q] = stage[q]
                /\ result'[q] = result[q] /\ chan'[q] = chan[q]
      BY <1>0, <1>6 DEF ReceiveMore, TypeOK
    <2>4. Len(got'[r]) = Len(got[r]) + 1
      BY <2>1, <2>3, CutMore DEF ready
    <2>5. Header[r] \in Nat /\ Rest[r] \in Nat
      BY AnswerAssumption
    <2>6. CountOK(r) /\ result'[r] # "ok"
      BY <1>0, <2>1, <2>2 DEF CountInv, CountOK
    <2>7. CountOK(r)'
      <3>1. CASE n > 1
        <4>1. stage'[r] = stage[r] /\ need'[r] = n - 1 /\ n - 1 # 0 /\ n - 1 > 0
          BY <2>2, <2>3, <3>1
        <4>2. Len(got'[r]) + need'[r] = Len(got[r]) + n
          BY <2>2, <2>4, <4>1
        <4>3. stage[r] = "reply" => Kind[r] = "upload"
          BY <2>6 DEF CountOK
        <4> QED
          BY <2>2, <2>6, <4>1, <4>2, <4>3 DEF CountOK, Unopened
      <3>2. CASE ~(n > 1)
        <4>1. n = 1 /\ after(r) # "ended" /\ stage[r] = "waiting" /\ Len(got'[r]) = Header[r]
          BY <2>1, <2>2, <2>4, <3>2 DEF after
        <4>2. CASE after(r) = "raw"
          <5>1. stage'[r] = "raw" /\ need'[r] = Rest[r] /\ Rest[r] > 0
            BY <2>3, <3>2, <4>1, <4>2 DEF after
          <5> QED
            BY <2>6, <4>1, <5>1 DEF CountOK, Unopened
        <4>3. CASE after(r) = "uploading"
          <5>1. stage'[r] = "uploading" /\ need'[r] = 0 /\ Kind[r] = "upload"
            BY <2>3, <3>2, <4>1, <4>3 DEF after
          <5> QED
            BY <2>6, <4>1, <5>1 DEF CountOK, Unopened
        <4> QED
          BY <4>1, <4>2, <4>3 DEF after
      <3> QED
        BY <3>1, <3>2
    <2> QED
      BY <1>0, <2>3, <2>7, CountFrame DEF CountInv
  <1>7. CASE Deliver
    <2>1. UNCHANGED <<stage, got, need, result>>
          /\ \A q \in Requests : chan'[q] = chan[q] \/ stage[q] \notin Unopened \cup {"ended"}
      BY <1>0, <1>7 DEF Deliver, TypeOK, receiving, Unopened
    <2> QED
      BY <1>0, <2>1, CountFrame DEF CountInv
  <1>8. CASE Close
    <2>1. \A q \in Requests : \/ /\ stage'[q] = "ended" /\ got'[q] = <<>> /\ chan'[q] = <<>>
                                 /\ need'[q] = 0 /\ result'[q] # "ok"
                              \/ /\ got'[q] = got[q] /\ need'[q] = need[q] /\ stage'[q] = stage[q]
                                 /\ result'[q] = result[q] /\ chan'[q] = chan[q]
      BY <1>8 DEF Close
    <2> QED
      BY <1>0, <2>1, CountFrame, CountFailed DEF CountInv
  <1> QED
    BY <1>2, <1>3, <1>4, <1>5, <1>6, <1>7, <1>8, Kinds

-----------------------------------------------------------------------------
(***************************************************************************)
(* Boundaries of messages.                                                 *)
(***************************************************************************)

\* A call that nothing happens to, and whose entry is not made anew.
LEMMA BoundaryFrame ==
    ASSUME NEW q \in Requests, BoundaryOK(q),
           stage'[q] \in Serving => stage[q] \in Serving,
           got'[q] = got[q], need'[q] = need[q], chan'[q] = chan[q], replied'[q] = replied[q],
           chan[q] = <<>> => (Arriving(q)' <=> Arriving(q)),
           q \in pending' => q \in pending
    PROVE  BoundaryOK(q)'
  BY DEF BoundaryOK, Serving

\* A call that has no receiver, or is within a message.
LEMMA BoundaryFree ==
    ASSUME NEW q \in Requests, stage'[q] \notin Serving \/ need'[q] # 0
    PROVE  BoundaryOK(q)'
  BY DEF BoundaryOK, Serving

\* The first frame of a message is never lost before a later one is kept.
LEMMA BoundaryStep ==
    ASSUME IndInv, [Next]_vars
    PROVE  BoundaryInv'
  <1>0. TypeOK /\ PendingInv /\ PhoneInv /\ HeldInv /\ StreamInv /\ CountInv /\ BoundaryInv
    BY DEF IndInv
  <1>1. CASE UNCHANGED vars \/ WireStep \/ ReadFails
    <2>1. UNCHANGED <<stage, got, chan, need, replied>> /\ pending' \subseteq pending
      BY <1>1 DEF vars, conn, owner, phone, WireStep, Enqueue, LooseEnd, Write, WriteFails, ReadFails,
         fail_connection
    <2>2. UNCHANGED held
      BY <1>1 DEF vars, in, WireStep, Enqueue, LooseEnd, Write, WriteFails, ReadFails
    <2>3. \A q \in Requests : Arriving(q)' <=> Arriving(q)
      BY <2>2 DEF Arriving
    <2> QED
      BY <1>0, <2>1, <2>3, BoundaryFrame DEF BoundaryInv
  <1>2. ASSUME NEW r \in Requests, FailStep(r)
        PROVE  BoundaryInv'
    <2>1. PICK how \in {"Error", "Timeout", "Cancelled"} : Fails(r, how)
      BY <1>2 DEF FailStep
    <2>2. stage'[r] = "ended" /\ \A q \in Requests \ {r} :
             got'[q] = got[q] /\ need'[q] = need[q] /\ stage'[q] = stage[q] /\ chan'[q] = chan[q]
      BY <1>0, <2>1 DEF Fails, Ends, TypeOK
    <2>3. UNCHANGED <<held, replied>> /\ pending' \subseteq pending
      BY <1>2 DEF FailStep, in, phone
    <2>4. \A q \in Requests : Arriving(q)' <=> Arriving(q)
      BY <2>3 DEF Arriving
    <2>5. stage'[r] \notin Serving
      BY <2>2 DEF Serving
    <2> QED
      BY <1>0, <2>2, <2>3, <2>4, <2>5, BoundaryFrame, BoundaryFree DEF BoundaryInv
  <1>3. ASSUME NEW r \in Requests, CallStep(r)
        PROVE  BoundaryInv'
    <2>1. /\ UNCHANGED <<got, chan, need, held, replied>>
          /\ \A q \in Requests \ {r} : stage'[q] = stage[q] /\ (q \in pending' => q \in pending)
      <3>1. CASE Open(r)
        BY <1>0, <3>1 DEF TypeOK, Open, conn, in, phone
      <3>2. CASE Insert(r) \/ Sent(r) \/ WithdrawOpen(r)
        BY <1>0, <3>2 DEF TypeOK, Insert, Sent, WithdrawOpen, conn, in, phone
      <3>3. CASE CancelToken(r) \/ Cleanup(r)
        BY <3>3 DEF CancelToken, Cleanup, conn, in, phone
      <3> QED
        BY <1>3, <3>1, <3>2, <3>3 DEF CallStep
    <2>2. \A q \in Requests : Arriving(q)' <=> Arriving(q)
      BY <2>1 DEF Arriving
    <2>3. BoundaryOK(r)'
      <3>1. CASE Insert(r)
        <4>1. stage[r] \in Unopened /\ stage[r] = "allocated"
          BY <3>1 DEF Insert, Unopened
        <4>2. chan[r] = <<>> /\ got[r] = <<>> /\ replied[r] = 0
          BY <1>0, <4>1 DEF CountInv, CountOK, PhoneInv
        <4>3. ~Arriving(r)
          BY <1>0, <4>1 DEF HeldInv, Arriving
        <4>4. Len(got[r]) = 0
          BY <4>2
        <4> QED
          BY <2>1, <2>2, <4>2, <4>3, <4>4 DEF BoundaryOK
      <3>2. CASE ~Insert(r)
        <4>1. /\ stage'[r] \in Serving => stage[r] \in Serving
              /\ r \in pending' => r \in pending
          <5>1. CASE Open(r)
            BY <1>0, <5>1 DEF TypeOK, Open, conn, Serving
          <5>2. CASE Sent(r)
            BY <1>0, <5>2 DEF TypeOK, Sent, conn, Serving
          <5>3. CASE WithdrawOpen(r)
            BY <1>0, <5>3 DEF TypeOK, WithdrawOpen, Serving
          <5>4. CASE CancelToken(r) \/ Cleanup(r)
            BY <5>4 DEF CancelToken, Cleanup, conn
          <5> QED
            BY <1>3, <3>2, <5>1, <5>2, <5>3, <5>4 DEF CallStep
        <4> QED
          BY <1>0, <2>1, <2>2, <4>1, BoundaryFrame DEF BoundaryInv
      <3> QED
        BY <3>1, <3>2
    <2> QED
      BY <1>0, <2>1, <2>2, <2>3, BoundaryFrame DEF BoundaryInv
  <1>4. ASSUME NEW r \in Requests, ReceiveLast(r)
        PROVE  BoundaryInv'
    <2>1. /\ stage'[r] = "ended"
          /\ \A q \in Requests \ {r} :
                got'[q] = got[q] /\ need'[q] = need[q] /\ stage'[q] = stage[q] /\ chan'[q] = chan[q]
      BY <1>0, <1>4 DEF ReceiveLast, Ends, TypeOK
    <2>2. UNCHANGED <<held, replied>> /\ pending' \subseteq pending
      BY <1>4 DEF ReceiveLast, finish, in, phone
    <2>3. \A q \in Requests : Arriving(q)' <=> Arriving(q)
      BY <2>2 DEF Arriving
    <2>4. stage'[r] \notin Serving
      BY <2>1 DEF Serving
    <2> QED
      BY <1>0, <2>1, <2>2, <2>3, <2>4, BoundaryFrame, BoundaryFree DEF BoundaryInv
  <1>5. ASSUME NEW r \in Requests, NEW n, ReceiveMore(r, n)
        PROVE  BoundaryInv'
    <2>1. /\ ready(r) /\ Head(chan[r]).what \in {"reply", "push"} /\ chan[r] # <<>>
          /\ n \in IF need[r] = 0 THEN declared(r, Head(chan[r])) ELSE {need[r]}
          /\ n > 1 \/ after(r) # "ended"
          /\ UNCHANGED <<held, replied, pending>>
      BY <1>5 DEF ReceiveMore, ready, in, phone, conn
    <2>2. /\ n \in Nat /\ n > 0 /\ Len(got[r]) \in Nat /\ stage[r] \in {"waiting", "raw", "reply"}
          /\ stage[r] = "waiting" => Len(got[r]) + n = Header[r]
      BY <2>1, Remaining
    <2>3. /\ got'[r] = Append(got[r], Head(chan[r])) /\ chan'[r] = Tail(chan[r])
          /\ stage'[r] = (IF n > 1 THEN stage[r] ELSE after(r))
          /\ need'[r] = (IF n > 1 THEN n - 1 ELSE IF after(r) = "raw" THEN Rest[r] ELSE 0)
          /\ \A q \in Requests \ {r} :
                got'[q] = got[q] /\ need'[q] = need[q] /\ stage'[q] = stage[q] /\ chan'[q] = chan[q]
      BY <1>0, <1>5 DEF ReceiveMore, TypeOK
    <2>4. \A q \in Requests : Arriving(q)' <=> Arriving(q)
      BY <2>1 DEF Arriving
    <2>5. BoundaryOK(r)'
      <3>1. CASE n > 1 \/ after(r) = "raw"
        <4>1. need'[r] # 0
          BY <2>2, <2>3, <3>1 DEF after
        <4> QED
          BY <4>1, BoundaryFree
      <3>2. CASE n = 1 /\ after(r) = "uploading"
        <4>1. stage[r] = "waiting" /\ Kind[r] = "upload"
          BY <2>2, <3>2 DEF after
        <4>2. Len(got'[r]) = Header[r] /\ Header[r] \in Nat
          BY <2>1, <2>2, <2>3, <3>2, <4>1, CutMore, AnswerAssumption
        <4>3. replied[r] <= Header[r] /\ replied[r] \in Nat
          BY <1>0, <4>1 DEF PhoneInv, Fed, TypeOK
        <4>4. ASSUME chan'[r] # <<>>, chan'[r][1].what = "reply"
              PROVE  chan'[r][1].k <= replied[r] /\ chan'[r][1].k \in Nat
          <5> DEFINE c == chan[r]
          <5>1. c \in Seq(Items) /\ c # <<>> /\ Tail(c) # <<>>
            BY <1>0, <2>1, <2>3, <4>4 DEF TypeOK
          <5> HIDE DEF c
          <5>2. 2 \in 1..Len(c) /\ Tail(c)[1] = c[2] /\ c[2] \in Items
            BY <5>1
          <5>3. Own(r, c[2])
            <6>1. Len(got[r]) + 2 \in 1..Len(Stream(r)) /\ Stream(r)[Len(got[r]) + 2] = c[2]
              BY <1>0, <5>2, StreamItems, Zenon DEF c
            <6> QED
              BY <1>0, <6>1 DEF StreamInv, StreamOK
          <5>4. chan'[r][1] = c[2]
            BY <2>3, <5>2 DEF c
          <5> QED
            BY <4>4, <5>2, <5>3, <5>4 DEF Own, Items
        <4> QED
          BY <2>1, <4>2, <4>3, <4>4 DEF BoundaryOK
      <3> QED
        BY <2>1, <2>2, <3>1, <3>2 DEF after
    <2> QED
      BY <1>0, <2>1, <2>3, <2>4, <2>5, BoundaryFrame DEF BoundaryInv
  <1>6. ASSUME NEW r \in Requests, ReadReply(r)
        PROVE  BoundaryInv'
    <2>1. /\ held = Nobody /\ replied' = [replied EXCEPT ![r] = @ + 1]
          /\ route(Sid[r], Reply(r, replied[r] + 1))
          /\ UNCHANGED <<stage, got, chan, need, pending>>
      BY <1>6 DEF ReadReply, reading, owner, conn
    <2>2. /\ \A q \in Requests : ~Arriving(q)
          /\ \A q \in Requests : BoundaryOK(q)
      BY <1>0, <2>1 DEF Arriving, BoundaryInv
    <2>3. replied'[r] = replied[r] + 1 /\ \A q \in Requests \ {r} : replied'[q] = replied[q]
      BY <1>0, <2>1 DEF TypeOK
    <2>4. replied[r] \in Nat /\ Len(got[r]) \in Nat /\ pending \subseteq Requests
      BY <1>0, StreamItems DEF TypeOK
    <2>5. Reply(r, replied[r] + 1) \in Items
      BY <2>4 DEF Reply, Items
    <2>6. CASE r \in pending
      <3>1. held' = [to |-> r, item |-> Reply(r, replied[r] + 1)]
        BY <1>0, <2>1, <2>4, <2>6, RouteFacts, SspSessionAssumption DEF registered
      <3>2. held' # Nobody
        BY <2>5, <3>1, NobodyAssumption
      <3>3. \A q \in Requests : Arriving(q)' <=> q = r
        BY <3>1, <3>2 DEF Arriving, Reply
      <3>4. BoundaryOK(r)'
        BY <2>1, <2>2, <2>3, <2>4, <2>6, <3>3 DEF BoundaryOK
      <3>5. ASSUME NEW q \in Requests, q # r PROVE BoundaryOK(q)'
        BY <2>1, <2>2, <2>3, <3>3, <3>5, BoundaryFrame
      <3> QED
        BY <3>4, <3>5 DEF BoundaryInv
    <2>7. CASE r \notin pending
      <3>1. held' = Nobody
        BY <1>0, <2>1, <2>4, <2>7, RouteFacts, SspSessionAssumption
      <3>2. \A q \in Requests : ~Arriving(q)'
        BY <3>1 DEF Arriving
      <3>3. BoundaryOK(r)'
        BY <2>1, <2>2, <2>7, <3>2 DEF BoundaryOK
      <3>5. ASSUME NEW q \in Requests, q # r PROVE BoundaryOK(q)'
        BY <2>1, <2>2, <2>3, <3>2, <3>5, BoundaryFrame
      <3> QED
        BY <3>3, <3>5 DEF BoundaryInv
    <2> QED
      BY <2>6, <2>7
  <1>7. CASE ReadPush \/ \E r \in Requests : ReadRefusal(r) \/ ReadCancel(r)
    <2>1. held = Nobody /\ UNCHANGED <<stage, got, chan, need, replied>> /\ pending' \subseteq pending
      BY <1>7 DEF ReadPush, ReadRefusal, ReadCancel, reading, owner, conn, phone
    <2>2. ASSUME NEW s, NEW what, NEW of, what # "reply", route(s, Other(what, of))
          PROVE  \A q \in Requests : ~Arriving(q)'
      <3>1. held' = Nobody \/ \E q \in pending : held' = [to |-> q, item |-> Other(what, of)]
        BY <1>0, <2>2, RouteFacts
      <3>2. Other(what, of).what # "reply"
        BY <2>2 DEF Other
      <3> QED
        BY <3>1, <3>2 DEF Arriving
    <2>3. \A q \in Requests : ~Arriving(q)'
      <3>1. CASE ReadPush
        BY <2>2, <3>1 DEF ReadPush
      <3>2. ASSUME NEW r \in Requests, ReadRefusal(r) PROVE \A q \in Requests : ~Arriving(q)'
        BY <2>2, <3>2 DEF ReadRefusal
      <3>3. ASSUME NEW r \in Requests, ReadCancel(r) PROVE \A q \in Requests : ~Arriving(q)'
        <4>1. CASE route(phone_sid + 1, Other("push", Nobody))
          BY <2>2, <4>1
        <4>2. CASE held' = [to |-> r, item |-> Other("cancelled", r)]
          BY <4>2 DEF Arriving, Other
        <4> QED
          BY <3>3, <4>1, <4>2 DEF ReadCancel
      <3> QED
        BY <1>7, <3>1, <3>2, <3>3
    <2>4. \A q \in Requests : ~Arriving(q)
      BY <2>1 DEF Arriving
    <2> QED
      BY <1>0, <2>1, <2>3, <2>4, BoundaryFrame DEF BoundaryInv
  <1>8. CASE Deliver
    <2>a. PICK r \in Requests, x \in Items : held = [to |-> r, item |-> x]
      BY <1>0, <1>8 DEF Deliver, TypeOK
    <2>1. /\ UNCHANGED <<stage, got, need, replied, pending>> /\ held' = Nobody
          /\ chan' = [chan EXCEPT ![r] = Append(@, x)] /\ held # Nobody
      BY <1>8, <2>a DEF Deliver, conn, phone
    <2>2. \A q \in Requests : ~Arriving(q)' /\ (q # r => ~Arriving(q) /\ chan'[q] = chan[q])
      BY <1>0, <2>a, <2>1 DEF Arriving, TypeOK
    <2>3. x.what = "reply" => x.k = replied[r] /\ Arriving(r)
      BY <1>0, <2>a, <2>1 DEF HeldInv, Arriving
    <2>4. BoundaryOK(r)'
      <3> DEFINE c == chan[r]
                 d == chan'[r]
      <3>1. c \in Seq(Items) /\ d = Append(c, x)
        BY <1>0, <2>1 DEF TypeOK
      <3> HIDE DEF c, d
      <3>2. d # <<>> /\ d[1] = IF c = <<>> THEN x ELSE c[1]
        BY <3>1
      <3>3. BoundaryOK(r)
        BY <1>0 DEF BoundaryInv
      <3>4. /\ chan'[r] # <<>>
            /\ \/ chan[r] = <<>> /\ chan'[r][1] = x
               \/ chan[r] # <<>> /\ chan'[r][1] = chan[r][1]
        BY <3>2 DEF c, d
      <3> QED
        BY <2>1, <2>3, <3>3, <3>4 DEF BoundaryOK
    <2> QED
      BY <1>0, <2>1, <2>2, <2>4, BoundaryFrame DEF BoundaryInv
  <1>9. CASE DropChunk
    <2>1. /\ UNCHANGED <<stage, got, need, chan, replied, pending>> /\ held' = Nobody
          /\ held # Nobody /\ Len(chan[held.to]) >= ChannelCapacity
      BY <1>9 DEF DropChunk, conn, phone, owner
    <2>2. chan[held.to] # <<>>
      BY <2>1, SspSessionAssumption
    <2>3. \A q \in Requests : chan[q] = <<>> => ~Arriving(q) /\ ~Arriving(q)'
      BY <2>1, <2>2 DEF Arriving
    <2> QED
      BY <1>0, <2>1, <2>3, BoundaryFrame DEF BoundaryInv
  <1>10. CASE ReceiverGone
    <2>1. /\ UNCHANGED <<stage, got, need, chan, replied>> /\ held' = Nobody
          /\ pending' \subseteq pending /\ ~receiving(held.to)
      BY <1>10 DEF ReceiverGone, conn, phone, owner
    <2>2. \A q \in Requests : stage'[q] \notin Serving \/ (~Arriving(q) /\ ~Arriving(q)')
      BY <2>1 DEF Arriving, receiving, Serving
    <2> QED
      BY <1>0, <2>1, <2>2, BoundaryFrame, BoundaryFree DEF BoundaryInv
  <1>11. CASE Closed
    <2>1. \A q \in Requests : stage'[q] \notin Serving
      BY <1>0, <1>11 DEF Closed, PendingInv, Serving
    <2> QED
      BY <2>1, BoundaryFree DEF BoundaryInv
  <1>12. CASE Close
    <2>1. UNCHANGED <<held, replied, pending>>
      BY <1>12 DEF Close, in, phone
    <2>2. \A q \in Requests : \/ stage'[q] = "ended"
                              \/ /\ got'[q] = got[q] /\ need'[q] = need[q] /\ stage'[q] = stage[q]
                                 /\ chan'[q] = chan[q]
      BY <1>12 DEF Close
    <2>3. \A q \in Requests : Arriving(q)' <=> Arriving(q)
      BY <2>1 DEF Arriving
    <2>4. "ended" \notin Serving
      BY DEF Serving
    <2> QED
      BY <1>0, <2>1, <2>2, <2>3, <2>4, BoundaryFrame, BoundaryFree DEF BoundaryInv
  <1> QED
    BY <1>1, <1>2, <1>3, <1>4, <1>5, <1>6, <1>7, <1>8, <1>9, <1>10, <1>11, <1>12, Kinds DEF ReadStep

-----------------------------------------------------------------------------
(***************************************************************************)
(* The theorems.                                                           *)
(***************************************************************************)

\* Before the first call nothing is registered, sent, held or received.
LEMMA InitInv == Init => IndInv
  <1> SUFFICES ASSUME Init PROVE IndInv
    OBVIOUS
  <1>1. TypeOK
    <2>1. /\ chan \in [Requests -> Seq(Items)] /\ got \in [Requests -> Seq(Items)]
          /\ \A r \in Requests : Len(chan[r]) <= ChannelCapacity
      <3>1. <<>> \in Seq(Items) /\ Len(<<>>) = 0
        OBVIOUS
      <3> QED
        BY <3>1, SspSessionAssumption DEF Init
    <2>2. outbox \in Seq(Commands)
      BY DEF Init
    <2> QED
      BY <2>1, <2>2 DEF Init, TypeOK
  <1>2. PendingInv
    BY DEF Init, PendingInv, Serving
  <1>3. PhoneInv
    <2>1. \A r \in Requests, what \in {"open", "data"} : ~Sending(r, what)
      BY DEF Init, Sending, Commands
    <2> QED
      BY <2>1, AnswerAssumption DEF Init, PhoneInv, Fed
  <1>4. HeldInv
    BY DEF Init, HeldInv
  <1>5. StreamInv
    <2> SUFFICES ASSUME NEW r \in Requests PROVE StreamOK(r)
      BY DEF StreamInv
    <2>1. Stream(r) = <<>> /\ got[r] = <<>> /\ ~Arriving(r)
      BY DEF Init, Stream, Arriving
    <2> QED
      BY <2>1 DEF StreamOK, Spread
  <1>6. CountInv
    BY DEF Init, CountInv, CountOK, Unopened
  <1>7. BoundaryInv
    BY DEF Init, BoundaryInv, BoundaryOK, Serving
  <1> QED
    BY <1>1, <1>2, <1>3, <1>4, <1>5, <1>6, <1>7 DEF IndInv

\* Every step keeps every part of the invariant.
LEMMA NextInv == IndInv /\ [Next]_vars => IndInv'
  BY TypeStep, PendingStep, PhoneStep, HeldStep, StreamStep, CountStep, BoundaryStep DEF IndInv

\* The map and the calls agree where the invariant holds.
LEMMA PendingInvExact == IndInv => PendingExact
  <1> SUFFICES ASSUME IndInv PROVE PendingExact
    OBVIOUS
  <1>1. TypeOK /\ PendingInv
    BY DEF IndInv
  <1>2. WaitersRegistered
    BY <1>1 DEF WaitersRegistered, PendingInv, Serving, awaiting
  <1>3. EntriesOwned
    BY <1>1 DEF EntriesOwned, PendingInv, Serving, receiving
  <1> QED
    BY <1>1, <1>2, <1>3 DEF PendingExact

\* As many frames as the answer has, none of them twice, none beyond the answer
\* and all in order, are the answer.
LEMMA AnswerCounted ==
    ASSUME IndInv, NEW r \in Requests, result[r] = "ok"
    PROVE  got[r] = [i \in 1..(Header[r] + Rest[r]) |-> Reply(r, i)]
  <1>0. TypeOK /\ CountOK(r) /\ StreamOK(r)
    BY DEF IndInv, CountInv, StreamInv
  <1>1. Header[r] \in Nat /\ Rest[r] \in Nat /\ replied[r] <= Header[r] + Rest[r] /\ replied[r] \in Nat
    BY AnswerAssumption DEF IndInv, PhoneInv, TypeOK
  <1>2. chan[r] = <<>> /\ Len(got[r]) = Header[r] + Rest[r]
    BY <1>0 DEF CountOK
  <1> DEFINE s == got[r]
             N == Header[r] + Rest[r]
  <1>3. s \in Seq(Items) /\ Len(s) = N /\ N \in Nat
    BY <1>0, <1>1, <1>2 DEF TypeOK
  <1>4. Stream(r) = s
    <2> DEFINE c == chan[r]
    <2>1. Stream(r) = s \o c /\ c = <<>>
      BY <1>2 DEF Stream
    <2> HIDE DEF s, c
    <2> QED
      BY <1>3, <2>1
  <1>5. /\ Spread(s) /\ \A i \in 1..Len(s) : Own(r, s[i])
        /\ \A i \in 1..Len(s) : s[i].what = "reply"
    BY <1>0, <1>4 DEF StreamOK
  <1> HIDE DEF s
  <1>6. \A i \in 1..N : s[i] \in Items
    BY <1>3, ElementOfSeq
  <1>7. ASSUME NEW i \in 1..N
        PROVE  s[i] = Reply(r, i)
    <2>1. /\ s[i] \in Items /\ s[i].what = "reply" /\ s[i].of = r
          /\ s[i].k \in Nat /\ i <= s[i].k
      BY <1>3, <1>5, <1>6 DEF Own, Items, Spread
    <2>2. N \in 1..N /\ s[N].what = "reply" /\ s[N].k <= N /\ s[N].k \in Nat
      <3>1. N \in 1..N
        BY <1>3
      <3>2. s[N].what = "reply" /\ Own(r, s[N]) /\ s[N] \in Items
        BY <1>3, <1>5, <1>6, <3>1
      <3>3. s[N].k <= replied[r] /\ s[N].k \in Nat
        BY <3>2 DEF Own, Items
      <3> QED
        BY <1>1, <3>1, <3>2, <3>3
    <2>3. s[i].k <= i
      <3>1. CASE i = N
        BY <2>2, <3>1
      <3>2. CASE i < N
        <4>1. s[N].k - s[i].k >= N - i
          BY <1>3, <1>5, <2>2, <3>2 DEF Spread
        <4> QED
          BY <1>3, <2>1, <2>2, <4>1
      <3> QED
        BY <1>3, <3>1, <3>2
    <2>4. s[i].k = i
      BY <2>1, <2>3
    <2> QED
      BY <2>1, <2>4 DEF Items, Reply
  <1>8. s = [i \in 1..N |-> s[i]]
    BY <1>3
  <1>9. s = [i \in 1..N |-> Reply(r, i)]
    BY <1>7, <1>8
  <1> QED
    BY <1>9 DEF s

\* The parts of the invariant hold in every reachable state of the session: the
\* pending map (open_signed, finish, drop, fail_connection), the phone's side,
\* the channels (route_chunk) and the lengths the receivers count.
THEOREM SspInvariant == Spec => []IndInv
  BY InitInv, NextInv, PTL DEF Spec

\* In every reachable state, for any number of calls, the pending map and the
\* calls agree: no live call of an open connection without an entry unless the
\* phone called it off, no entry without a call, a cleanup or a refusal.
THEOREM PendingIsExact == Spec => []PendingExact
  BY SspInvariant, PendingInvExact, PTL

\* A call that returns Ok returns its own answer, complete and in order, for
\* any lengths of answers, any channel capacity and any chunks route_chunk drops.
THEOREM AnswersAreOwn == Spec => []AnswerIsOwn
  <1>1. IndInv => AnswerIsOwn
    BY AnswerCounted DEF AnswerIsOwn
  <1> QED
    BY <1>1, SspInvariant, PTL
=============================================================================
