---------------------------- MODULE SspSession ----------------------------
(***************************************************************************)
(* The request multiplexer of handshaker-core (session.rs): requests,      *)
(* downloads, uploads and heartbeats share one connection through a reader *)
(* and a writer task.                                                      *)
(*                                                                         *)
(* A frame stands for a chunk.  The phone's answer to a request is a       *)
(* normal message of Header[r] frames, followed for a download by Rest[r]  *)
(* raw frames and for an upload, once its data arrived, by a second        *)
(* normal message of Rest[r] frames.  The socket is not a variable: what   *)
(* the phone sends and when is its choice, so a frame is sent when the     *)
(* reader reads it.                                                        *)
(***************************************************************************)
EXTENDS Integers, Sequences, FiniteSets

CONSTANTS
    Requests,           \* calls on the session, the heartbeats among them
    Heartbeats,
    Kind,               \* "plain", "download" or "upload"
    Header, Rest,       \* frames of the answer to each request
    ChannelCapacity,    \* REQUEST_CHANNEL_CAPACITY
    WriterCapacity,     \* of the mpsc channel to the writer
    Sid,                \* the sid allocate_sid gives each request
    MaxPushes,          \* messages the phone sends of its own accord
    Cancellable,        \* requests opened with a CancellationToken
    Abortable,          \* requests whose future may be dropped
    Nobody

ASSUME SspSessionAssumption ==
    /\ Cancellable \subseteq Requests \ Heartbeats /\ Abortable \subseteq Requests \ Heartbeats
    /\ Heartbeats \subseteq Requests /\ Nobody \notin Requests
    /\ Kind \in [Requests -> {"plain", "download", "upload"}]
    /\ \A h \in Heartbeats : Kind[h] = "plain"
    /\ ChannelCapacity \in Nat \ {0} /\ WriterCapacity \in Nat \ {0}
    /\ Sid \in [Requests -> Nat] /\ MaxPushes \in Nat
    /\ \A q, r \in Requests : Sid[q] = Sid[r] => q = r

\* The phone's sids 1, 2, ... do not reach the client's.
ASSUME AnswerAssumption ==
    /\ Header \in [Requests -> Nat \ {0}] /\ Rest \in [Requests -> Nat]
    /\ \A r \in Requests :
        /\ Kind[r] = "plain" => Rest[r] = 0
        /\ Kind[r] = "upload" => Rest[r] > 0
    /\ \A r \in Requests : MaxPushes < Sid[r]

\* What the reader passes on; Nobody is none of it.
Items == [what : {"reply", "refusal", "push", "cancelled"}, of : Requests \cup {Nobody}, k : Nat]

ASSUME NobodyAssumption == Nobody \notin [to : Requests, item : Items]

VARIABLES
    closed,     \* SessionInner.closed
    pending,    \* requests in SessionInner.pending
    events,     \* the event sender is still there
    stage,      \* where the owner of each request is
    result,     \* what it returned
    token,      \* requests whose CancellationToken is cancelled
    chan,       \* frames in the request's channel
    got,        \* frames its owner has received
    need,       \* frames the current message lacks, 0 before its first
    cleanup,    \* requests whose Drop spawned a task that has yet to run
    sending,    \* SessionInner.send of each command
    outbox,     \* commands in the writer's channel
    writer, reader,
    held,       \* the item the reader is sending into a channel
    quitting,   \* Session::close
    asked, fed, \* requests and upload data the phone has received
    replied,    \* frames of the answer the phone has sent
    refused,    \* requests it answered with CANCEL_REQUEST
    called_off, \* requests it cancelled in a message of its own
    phone_sid   \* its sid generator

conn == <<closed, pending, events>>
owner == <<stage, result, token, chan, got, need, sending, cleanup>>
out == <<outbox, writer>>
in == <<reader, held>>
phone == <<asked, fed, replied, refused, called_off, phone_sid>>
vars == <<conn, owner, out, in, phone, quitting>>

Quit == <<Nobody, "quit">>
Commands == (Requests \X {"open", "data", "cancel", "cleanup"}) \cup {Quit}

Init ==
    /\ closed = FALSE /\ pending = {} /\ events = TRUE
    /\ stage = [r \in Requests |-> "idle"]
    /\ result = [r \in Requests |-> "none"]
    /\ token = {} /\ cleanup = {}
    /\ chan = [r \in Requests |-> <<>>]
    /\ got = [r \in Requests |-> <<>>]
    /\ need = [r \in Requests |-> 0]
    /\ sending = [c \in Commands |-> "no"]
    /\ outbox = <<>> /\ writer = "up" /\ reader = "up"
    /\ held = Nobody /\ quitting = "no"
    /\ asked = {} /\ fed = {} /\ refused = {} /\ called_off = {}
    /\ replied = [r \in Requests |-> 0]
    /\ phone_sid = 0

-----------------------------------------------------------------------------
(***************************************************************************)
(* Ends of a call.                                                         *)
(***************************************************************************)
fail_connection == closed' = TRUE /\ pending' = {} /\ events' = FALSE

\* The owner returns: its channel, its locals, its token and its sends are gone.
Ends(r, how) ==
    /\ token' = token \ {r}
    /\ stage' = [stage EXCEPT ![r] = "ended"]
    /\ result' = [result EXCEPT ![r] = how]
    /\ chan' = [chan EXCEPT ![r] = <<>>]
    /\ need' = [need EXCEPT ![r] = 0]
    /\ sending' = [c \in Commands |->
                      IF c[1] = r /\ c[2] # "cleanup" THEN "no" ELSE sending[c]]

Fails(r, how) == Ends(r, how) /\ got' = [got EXCEPT ![r] = <<>>]

\* finish: the entry goes.  A heartbeat's error path sets closed.
finish(r) ==
    /\ pending' = pending \ {r}
    /\ closed' = (closed \/ (r \in Heartbeats /\ result'[r] # "ok"))
    /\ events' = events

\* OpenRequest::drop of a request that has not completed.
drop(r) == cleanup' = cleanup \cup {r}

-----------------------------------------------------------------------------
(***************************************************************************)
(* open_signed.                                                            *)
(***************************************************************************)

\* The closed flag is checked once.  One heartbeat after another.
Open(r) ==
    /\ stage[r] = "idle" /\ quitting = "no"
    /\ r \in Heartbeats => ~closed /\ \A h \in Heartbeats : stage[h] \in {"idle", "ended"}
    /\ stage' = [stage EXCEPT ![r] = IF closed THEN "ended" ELSE "allocated"]
    /\ result' = [result EXCEPT ![r] = IF closed THEN "Error" ELSE @]
    /\ UNCHANGED <<conn, chan, got, need, sending, cleanup, token, out, in, phone, quitting>>

\* Mutant of Insert: no entry is made before the request is sent.
InsertLate(r) ==
    /\ stage[r] = "allocated" /\ r \notin token
    /\ stage' = [stage EXCEPT ![r] = "opening"]
    /\ sending' = [sending EXCEPT ![<<r, "open">>] = "queueing"]
    /\ UNCHANGED <<conn, result, chan, got, need, cleanup, token, out, in, phone, quitting>>

\* The entry is made, after the connection may have failed in between.
Insert(r) ==
    /\ stage[r] = "allocated" /\ r \notin token
    /\ pending' = pending \cup {r}
    /\ stage' = [stage EXCEPT ![r] = "opening"]
    /\ sending' = [sending EXCEPT ![<<r, "open">>] = "queueing"]
    /\ UNCHANGED <<closed, events, result, chan, got, need, cleanup, token, out, in, phone,
                   quitting>>

\* The token was cancelled already: the entry is removed and nothing is sent.
InsertCancelled(r) ==
    /\ stage[r] = "allocated" /\ r \in token
    /\ Fails(r, "Cancelled")
    /\ UNCHANGED <<conn, cleanup, out, in, phone, quitting>>

\* send returned Ok: the owner goes on to wait.
Sent(r) ==
    /\ \/ stage[r] = "opening" /\ sending[<<r, "open">>] = "sent"
       \/ stage[r] = "uploading" /\ sending[<<r, "data">>] = "sent"
    /\ stage' = [stage EXCEPT ![r] = IF @ = "opening" THEN "waiting" ELSE "reply"]
    /\ UNCHANGED <<conn, result, chan, got, need, sending, cleanup, token, out, in, phone,
                   quitting>>

-----------------------------------------------------------------------------
(***************************************************************************)
(* SessionInner::send and the writer task.                                 *)
(***************************************************************************)
Enqueue(c) ==
    /\ sending[c] = "queueing" /\ writer = "up" /\ Len(outbox) < WriterCapacity
    /\ outbox' = Append(outbox, c)
    /\ sending' = [sending EXCEPT ![c] = "queued"]
    /\ UNCHANGED <<conn, stage, result, chan, got, need, cleanup, token, writer, in, phone,
                   quitting>>

\* A command is written although its caller may be gone.
Write ==
    /\ writer = "up" /\ outbox # <<>>
    /\ LET c == Head(outbox) IN
       /\ sending' = [sending EXCEPT ![c] = IF @ = "queued" THEN "sent" ELSE @]
       /\ asked' = IF c[2] = "open" THEN asked \cup {c[1]} ELSE asked
       /\ fed' = IF c[2] = "data" THEN fed \cup {c[1]} ELSE fed
    /\ outbox' = Tail(outbox)
    /\ UNCHANGED <<conn, stage, result, chan, got, need, cleanup, token, writer, in, replied,
                   refused, called_off, phone_sid, quitting>>

\* The writer stops; the commands it has not completed fail with it.
stop_writer ==
    /\ writer' = "stopped"
    /\ outbox' = <<>>
    /\ sending' = [c \in Commands |-> IF sending[c] = "queued" THEN "failed" ELSE sending[c]]

WriteFails ==
    /\ writer = "up" /\ outbox # <<>>
    /\ stop_writer
    /\ closed' = TRUE
    /\ UNCHANGED <<pending, events, stage, result, chan, got, need, cleanup, token, in, phone,
                   quitting>>

\* send may return an error: the writer failed, is gone, or the time is up.
send_error(c) ==
    /\ sending[c] \in {"queueing", "queued", "failed"}
    /\ fail_connection
    /\ UNCHANGED <<out, in, phone, quitting>>

OpenFails(r) ==
    /\ stage[r] = "opening" /\ send_error(<<r, "open">>)
    /\ \E how \in {"Error", "Timeout"} : Fails(r, how)
    /\ UNCHANGED cleanup

UploadFails(r) ==
    /\ stage[r] = "uploading" /\ send_error(<<r, "data">>)
    /\ \E how \in {"Error", "Timeout"} : Fails(r, how)
    /\ drop(r)

\* The flag of a local cancellation could not be sent.
WithdrawFails(r) ==
    /\ stage[r] \in {"withdrawing", "stopping"} /\ send_error(<<r, "cancel">>)
    /\ Fails(r, "Cancelled")
    /\ UNCHANGED cleanup

\* Nobody waits for the cancel of a dropped request.
CleanupFails(r) ==
    /\ send_error(<<r, "cleanup">>)
    /\ sending' = [sending EXCEPT ![<<r, "cleanup">>] = "no"]
    /\ UNCHANGED <<stage, result, token, chan, got, need, cleanup>>

-----------------------------------------------------------------------------
(***************************************************************************)
(* The reader task.  held is an item on its way into a request's channel.  *)
(***************************************************************************)
Reply(r, k) == [what |-> "reply", of |-> r, k |-> k]
Other(what, r) == [what |-> what, of |-> r, k |-> 0]

\* Mutant of registered: both sid generators start at the same number.
registered_collides(s) == {q \in pending : Sid[q] \in {s, s + 2}}

registered(s) == {q \in pending : Sid[q] = s}
reading == reader = "up" /\ held = Nobody

\* A chunk goes to the entry of its sid.  Without one it joins the unmatched
\* message of that sid, which is bounded, reaped, and at best an event.
route(s, item) ==
    held' = IF registered(s) = {} THEN Nobody
            ELSE [to |-> CHOOSE q \in registered(s) : TRUE, item |-> item]

\* What the phone may still say about a request.
answering(r) == r \in asked /\ r \notin refused

ReadReply(r) ==
    /\ reading /\ answering(r)
    /\ replied[r] < Header[r] + (IF Kind[r] = "upload" /\ r \notin fed THEN 0 ELSE Rest[r])
    /\ replied' = [replied EXCEPT ![r] = @ + 1]
    /\ route(Sid[r], Reply(r, replied[r] + 1))
    /\ UNCHANGED <<conn, owner, out, reader, asked, fed, refused, called_off, phone_sid,
                   quitting>>

\* CANCEL_REQUEST instead of a message of the answer, or amid raw data.
ReadRefusal(r) ==
    /\ reading /\ answering(r) /\ replied[r] < Header[r] + Rest[r]
    /\ replied[r] \in {0, Header[r]} \/ (Kind[r] = "download" /\ replied[r] > Header[r])
    /\ refused' = refused \cup {r}
    /\ route(Sid[r], Other("refusal", r))
    /\ UNCHANGED <<conn, owner, out, reader, asked, fed, replied, called_off, phone_sid,
                   quitting>>

\* An event, under a sid of the phone's.
ReadPush ==
    /\ reading /\ phone_sid < MaxPushes
    /\ phone_sid' = phone_sid + 1
    /\ route(phone_sid + 1, Other("push", Nobody))
    /\ UNCHANGED <<conn, owner, out, reader, asked, fed, replied, refused, called_off,
                   quitting>>

\* CANCEL_REQUEST under a sid of the phone's: the target leaves the map before
\* the item is on its way.  With too many unmatched messages it is lost.
ReadCancel(r) ==
    /\ reading /\ r \in asked /\ phone_sid < MaxPushes
    /\ phone_sid' = phone_sid + 1
    /\ called_off' = called_off \cup {r}
    /\ \/ route(phone_sid + 1, Other("push", Nobody)) /\ UNCHANGED pending
       \/ /\ registered(phone_sid + 1) = {} /\ r \in pending
          /\ pending' = pending \ {r}
          /\ held' = [to |-> r, item |-> Other("cancelled", r)]
    /\ UNCHANGED <<closed, events, owner, out, reader, asked, fed, replied, refused,
                   quitting>>

\* The owner still has its receiver.
receiving(r) == stage[r] \notin {"idle", "allocated", "ended"}

Deliver ==
    /\ held # Nobody /\ receiving(held.to) /\ Len(chan[held.to]) < ChannelCapacity
    /\ chan' = [chan EXCEPT ![held.to] = Append(@, held.item)]
    /\ held' = Nobody
    /\ UNCHANGED <<conn, stage, result, got, need, sending, cleanup, token, out, reader, phone,
                   quitting>>

\* REQUEST_SEND_TIMEOUT: the item is dropped.
DropChunk ==
    /\ held # Nobody /\ receiving(held.to) /\ Len(chan[held.to]) >= ChannelCapacity
    /\ held' = Nobody
    /\ UNCHANGED <<conn, owner, out, reader, phone, quitting>>

\* The receiver was dropped.
ReceiverGone ==
    /\ held # Nobody /\ ~receiving(held.to)
    /\ pending' = IF held.item.what = "cancelled" THEN pending ELSE pending \ {held.to}
    /\ held' = Nobody
    /\ UNCHANGED <<closed, events, owner, out, reader, phone, quitting>>

\* End of stream, or a frame that cannot be read.
ReadFails ==
    /\ reading
    /\ fail_connection
    /\ reader' = "stopped"
    /\ UNCHANGED <<owner, out, held, phone, quitting>>

-----------------------------------------------------------------------------
(***************************************************************************)
(* receive_normal, receive_raw_to and OpenRequest::send.                   *)
(***************************************************************************)
awaiting(r) == stage[r] \in {"waiting", "raw", "reply"}

\* Plain requests and raw downloads finish; elsewhere ? drops the OpenRequest.
finishes(r) == Kind[r] = "plain" \/ stage[r] = "raw"

GivesUp(r, how) ==
    /\ fail_connection
    /\ Fails(r, how)
    /\ IF finishes(r) THEN UNCHANGED cleanup ELSE drop(r)

\* The length a message declares in its first frame; bytes of another place
\* could declare anything.
declared(r, f) ==
    IF f = Reply(r, 1) THEN {Header[r]}
    ELSE IF f = Reply(r, Header[r] + 1) THEN {Rest[r]}
    ELSE 1..(Header[r] + Rest[r])

\* What follows a complete message or file.
after(r) ==
    IF stage[r] = "waiting" /\ Kind[r] = "download" /\ Rest[r] > 0 THEN "raw"
    ELSE IF stage[r] = "waiting" /\ Kind[r] = "upload" THEN "uploading"
    ELSE "ended"

\* The token is looked at first.
ready(r) == awaiting(r) /\ r \notin token /\ chan[r] # <<>>

\* One frame is received.
Receive(r) ==
    /\ ready(r) /\ Head(chan[r]).what \in {"reply", "push"}
    /\ got' = [got EXCEPT ![r] = Append(@, Head(chan[r]))]
    /\ \E n \in IF need[r] = 0 THEN declared(r, Head(chan[r])) ELSE {need[r]} :
       \/ /\ n = 1 /\ after(r) = "ended"
          /\ Ends(r, "ok") /\ finish(r)
       \/ /\ n > 1 \/ after(r) # "ended"
          /\ chan' = [chan EXCEPT ![r] = Tail(@)]
          /\ need' = [need EXCEPT ![r] = IF n > 1 THEN n - 1
                                         ELSE IF after(r) = "raw" THEN Rest[r] ELSE 0]
          /\ stage' = [stage EXCEPT ![r] = IF n > 1 THEN @ ELSE after(r)]
          /\ sending' = IF n = 1 /\ after(r) = "uploading"
                        THEN [sending EXCEPT ![<<r, "data">>] = "queueing"] ELSE sending
          /\ UNCHANGED <<conn, result, token>>
    /\ UNCHANGED <<cleanup, out, in, phone, quitting>>

\* The phone cancelled the request, and the connection stays.  Where Drop would
\* have to remove the entry, completed keeps it from doing so.
ReceiveCancelled(r) ==
    /\ ready(r)
    /\ \/ Head(chan[r]).what = "cancelled"
       \/ Head(chan[r]).what = "refusal" /\ stage[r] # "raw" /\ need[r] = 0
    /\ Fails(r, "Cancelled")
    /\ IF finishes(r) THEN finish(r) ELSE UNCHANGED conn
    /\ UNCHANGED <<cleanup, out, in, phone, quitting>>

\* A malformed message, a refusal among raw bytes, an ambiguous chunk, or a
\* local write error: the connection is given up.
ReceiveBad(r) ==
    /\ ready(r) /\ Head(chan[r]).what # "cancelled"
    /\ GivesUp(r, "Error")
    /\ UNCHANGED <<out, in, phone, quitting>>

\* The sender is gone: no entry, nothing on its way, nothing left.
ReceiveClosed(r) ==
    /\ awaiting(r) /\ r \notin token
    /\ chan[r] = <<>> /\ r \notin pending /\ (held # Nobody => held.to # r)
    /\ GivesUp(r, "Error")
    /\ UNCHANGED <<out, in, phone, quitting>>

\* Mutant of ReceiveTimeout: the deadline covers the first frame only.
ReceiveTimeoutFirst(r) ==
    /\ (awaiting(r) /\ need[r] = 0) \/ stage[r] = "withdrawing"
    /\ GivesUp(r, "Timeout")
    /\ UNCHANGED <<out, in, phone, quitting>>

\* request_timeout passed, in a receive or in the cancel it started.
ReceiveTimeout(r) ==
    /\ awaiting(r) \/ stage[r] = "withdrawing"
    /\ GivesUp(r, "Timeout")
    /\ UNCHANGED <<out, in, phone, quitting>>

\* The caller finds the header unacceptable and finishes, or fails locally (a
\* header it cannot decode, a local file it cannot create or read) and drops.
Reject(r) ==
    /\ \/ stage[r] = "raw" /\ need[r] = Rest[r]
       \/ stage[r] = "uploading" /\ sending[<<r, "data">>] = "queueing"
    /\ Fails(r, "Error")
    /\ \/ finish(r) /\ UNCHANGED cleanup
       \/ drop(r) /\ pending' \in {pending, pending \ {r}} /\ UNCHANGED <<closed, events>>
    /\ UNCHANGED <<out, in, phone, quitting>>

-----------------------------------------------------------------------------
(***************************************************************************)
(* Cancellation, abandoned requests, close.                                *)
(***************************************************************************)

\* A token cancelled before the call is first looked at after the sid is allocated.
CancelToken(r) ==
    /\ r \in Cancellable \ token /\ stage[r] \notin {"idle", "ended"}
    /\ token' = token \cup {r}
    /\ UNCHANGED <<conn, stage, result, chan, got, need, sending, cleanup, out, in, phone, quitting>>

\* A raw download can only be stopped by closing the connection.
CancelRaw(r) ==
    /\ stage[r] = "raw" /\ r \in token
    /\ fail_connection
    /\ Fails(r, "Cancelled")
    /\ UNCHANGED <<cleanup, out, in, phone, quitting>>

\* receive_incoming and, between two pieces of upload data, cancel_local: the
\* entry is removed, then the phone is told unless the session is closed.
Withdraw(r) ==
    /\ r \in token
    /\ \/ stage[r] \in {"waiting", "reply"}
       \/ stage[r] = "uploading" /\ sending[<<r, "data">>] = "queueing"
    /\ pending' = pending \ {r}
    /\ IF closed
       THEN Fails(r, "Cancelled")
       ELSE /\ stage' = [stage EXCEPT ![r] = IF @ = "uploading" THEN "stopping" ELSE "withdrawing"]
            /\ sending' = [sending EXCEPT ![<<r, "data">>] = "no", ![<<r, "cancel">>] = "queueing"]
            /\ UNCHANGED <<result, token, chan, got, need>>
    /\ UNCHANGED <<closed, events, cleanup, out, in, phone, quitting>>

Withdrawn(r) ==
    /\ stage[r] \in {"withdrawing", "stopping"} /\ sending[<<r, "cancel">>] = "sent"
    /\ Fails(r, "Cancelled")
    /\ UNCHANGED <<conn, cleanup, out, in, phone, quitting>>

\* The future of the call is dropped at one of its awaits.  Drop removes the
\* entry if it can take the lock; the spawned task does so in any case.
Abandon(r) ==
    /\ r \in Abortable /\ stage[r] \notin {"idle", "ended"}
    /\ Fails(r, "Error")
    /\ IF receiving(r)
       THEN drop(r) /\ pending' \in {pending, pending \ {r}}
       ELSE UNCHANGED <<cleanup, pending>>
    /\ UNCHANGED <<closed, events, out, in, phone, quitting>>

Cleanup(r) ==
    /\ r \in cleanup
    /\ cleanup' = cleanup \ {r}
    /\ pending' = pending \ {r}
    /\ sending' = [sending EXCEPT ![<<r, "cleanup">>] = IF closed THEN @ ELSE "queueing"]
    /\ UNCHANGED <<closed, events, stage, result, chan, got, need, token, out, in, phone, quitting>>

\* Session::close: no call borrows the session, the heartbeat is aborted, QUIT
\* goes out unless the connection was closed before.
Close ==
    /\ quitting = "no"
    /\ \A r \in Requests \ Heartbeats : stage[r] \in {"idle", "ended"}
    /\ quitting' = "quitting"
    /\ closed' = TRUE
    /\ LET beating == {h \in Heartbeats : stage[h] \notin {"idle", "ended"}} IN
       /\ stage' = [r \in Requests |-> IF r \in beating THEN "ended" ELSE stage[r]]
       /\ result' = [r \in Requests |-> IF r \in beating THEN "Error" ELSE result[r]]
       /\ chan' = [r \in Requests |-> IF r \in beating THEN <<>> ELSE chan[r]]
       /\ got' = [r \in Requests |-> IF r \in beating THEN <<>> ELSE got[r]]
       /\ need' = [r \in Requests |-> IF r \in beating THEN 0 ELSE need[r]]
       /\ cleanup' = cleanup \cup {h \in beating : receiving(h)}
       /\ sending' = [c \in Commands |->
                         IF c = Quit THEN IF closed THEN "no" ELSE "queueing"
                         ELSE IF c[1] \in beating /\ c[2] # "cleanup" THEN "no"
                         ELSE sending[c]]
    /\ UNCHANGED <<pending, events, token, out, in, phone>>

QuitFails ==
    /\ quitting = "quitting" /\ send_error(Quit)
    /\ sending' = [sending EXCEPT ![Quit] = "no"]
    /\ UNCHANGED <<stage, result, token, chan, got, need, cleanup>>

\* Reader and writer are aborted.
Closed ==
    /\ quitting = "quitting" /\ sending[Quit] \in {"no", "sent"}
    /\ quitting' = "done"
    /\ reader' = "stopped" /\ held' = Nobody
    /\ stop_writer
    /\ UNCHANGED <<conn, stage, result, chan, got, need, cleanup, token, phone>>

-----------------------------------------------------------------------------
Owner(r) ==
    \/ Insert(r) \/ InsertCancelled(r) \/ Sent(r) \/ OpenFails(r) \/ UploadFails(r)
    \/ Receive(r) \/ ReceiveCancelled(r) \/ ReceiveClosed(r) \/ ReceiveTimeout(r) \/ CancelRaw(r)
    \/ Withdraw(r) \/ Withdrawn(r) \/ WithdrawFails(r)

Next ==
    \/ \E r \in Requests :
        \/ Open(r) \/ Owner(r) \/ ReceiveBad(r) \/ Reject(r)
        \/ CancelToken(r) \/ Abandon(r) \/ Cleanup(r) \/ CleanupFails(r)
        \/ ReadReply(r) \/ ReadRefusal(r) \/ ReadCancel(r)
    \/ ReadPush \/ ReadFails \/ Deliver \/ DropChunk \/ ReceiverGone
    \/ \E c \in Commands : Enqueue(c)
    \/ Write \/ WriteFails
    \/ Close \/ QuitFails \/ Closed

\* The future of a call is polled when its timer fires; nothing is assumed of
\* the phone, the reader, the writer, the caller's token or local errors.
Fairness == \A r \in Requests : WF_vars(Owner(r))

Spec == Init /\ [][Next]_vars /\ Fairness

-----------------------------------------------------------------------------
(***************************************************************************)
(* Correctness.                                                            *)
(***************************************************************************)
\* Every variable holds a value the code's types allow, and channels are bounded.
TypeOK ==
    /\ closed \in BOOLEAN /\ events \in BOOLEAN /\ pending \subseteq Requests
    /\ stage \in [Requests -> {"idle", "allocated", "opening", "waiting", "raw", "uploading",
                                 "reply", "withdrawing", "stopping", "ended"}]
    /\ result \in [Requests -> {"none", "ok", "Error", "Timeout", "Cancelled"}]
    /\ token \subseteq Requests /\ cleanup \subseteq Requests
    /\ \A r \in Requests : Len(chan[r]) <= ChannelCapacity
    /\ chan \in [Requests -> Seq(Items)] /\ got \in [Requests -> Seq(Items)]
    /\ need \in [Requests -> Nat]
    /\ sending \in [Commands -> {"no", "queueing", "queued", "sent", "failed"}]
    /\ outbox \in Seq(Commands)
    /\ writer \in {"up", "stopped"} /\ reader \in {"up", "stopped"}
    /\ held \in {Nobody} \cup [to : Requests, item : Items]
    /\ quitting \in {"no", "quitting", "done"}
    /\ asked \subseteq Requests /\ fed \subseteq Requests
    /\ replied \in [Requests -> Nat]
    /\ refused \subseteq Requests /\ called_off \subseteq Requests
    /\ phone_sid \in Nat

\* A call that succeeds returns the phone's answer to that very request, every
\* frame of it in order, although the reader drops chunks of slow consumers,
\* and lengths are all the receiver compares.
AnswerIsOwn ==
    \A r \in Requests : result[r] = "ok" =>
        got[r] = [i \in 1..(Header[r] + Rest[r]) |-> Reply(r, i)]

\* While the connection stands a waiting call has its entry, so no answer is
\* taken for an event, unless the phone itself called the request off.
WaitersRegistered ==
    \A r \in Requests :
        (stage[r] = "opening" \/ awaiting(r)) /\ ~closed /\ r \notin called_off => r \in pending

\* The map holds no entry of a call that is over, except for the moment before
\* its spawned cleanup and for transfers the phone refused.
EntriesOwned ==
    \A r \in pending : receiving(r) \/ r \in cleanup \/ r \in refused

\* In every reachable state, with all values of their types, the pending map and
\* the calls agree: no live call without entry, no entry without a call
\* (open_signed, finish, drop, fail_connection).
PendingExact == TypeOK /\ WaitersRegistered /\ EntriesOwned

\* Every call ends, although the phone may fall silent, the reader may drop a
\* chunk of it and a cancellation may not get through to the writer: every await
\* of its owner has a deadline.  (Each request is made once.)
CallEnds == []<>(\A r \in Requests : stage[r] \in {"idle", "ended"})
-----------------------------------------------------------------------------
(***************************************************************************)
(* The inductive invariant behind AnswerIsOwn and PendingExact             *)
(* (SspSessionProofs), part by part.                                       *)
(***************************************************************************)
Unopened == {"idle", "allocated"}
Serving == {"opening", "waiting", "raw", "uploading", "reply"}
Fed == {"uploading", "reply", "withdrawing", "stopping", "ended"}

\* An entry is made when its call is opened and outlives the call only until
\* its cleanup; the task that cleans up runs after its call.
PendingInv ==
    /\ \A r \in Requests : stage[r] \in Serving /\ ~closed /\ r \notin called_off => r \in pending
    /\ \A r \in pending : stage[r] \in Serving \/ r \in cleanup \/ r \in refused
    /\ \A r \in pending : stage[r] \in Serving \cup {"ended"}
    /\ \A r \in cleanup : stage[r] = "ended"
    /\ quitting # "no" => \A r \in Requests : stage[r] \in {"idle", "ended"}

\* The phone hears of a request after it was opened, of its data after the
\* header was complete, and says no more than an answer.
Sending(r, what) == sending[<<r, what>>] # "no"
PhoneInv ==
    /\ \A r \in Requests : stage[r] \in Unopened =>
        ~Sending(r, "open") /\ r \notin asked /\ replied[r] = 0
    /\ \A r \in Requests : stage[r] \notin Fed => ~Sending(r, "data") /\ r \notin fed
    /\ \A i \in 1..Len(outbox) : \A r \in Requests :
        /\ outbox[i] = <<r, "open">> => stage[r] \notin Unopened
        /\ outbox[i] = <<r, "data">> => stage[r] \in Fed
    /\ \A r \in Requests :
        /\ replied[r] <= Header[r] + Rest[r]
        /\ Kind[r] = "upload" /\ r \notin fed => replied[r] <= Header[r]

\* What a request's owner has received and what waits for it.
Stream(r) == got[r] \o chan[r]
Arriving(r) == held # Nobody /\ held.to = r /\ held.item.what = "reply"

\* An item of a request's stream, held back or delivered.
Own(r, item) ==
    /\ item.what \in {"reply", "refusal", "cancelled"} /\ item.of = r
    /\ item.what = "reply" => item.k <= replied[r]
    /\ item.what = "refusal" => r \in refused
    /\ item.what = "cancelled" => r \notin pending

\* The frames of an answer arrive in order, nothing follows a refusal or a
\* cancellation, and each dropped chunk widens the distance of its neighbours.
Spread(q) ==
    /\ \A i \in 1..Len(q) : q[i].what = "reply" => q[i].k >= i
    /\ \A i, j \in 1..Len(q) :
        i < j /\ q[j].what = "reply" => q[i].what = "reply" /\ q[j].k - q[i].k >= j - i

HeldInv ==
    held # Nobody =>
        /\ stage[held.to] \notin Unopened
        /\ Own(held.to, held.item)
        /\ held.item.what = "reply" => held.item.k = replied[held.to] /\ held.item.k > 0

StreamOK(r) ==
    /\ Spread(Stream(r))
    /\ \A i \in 1..Len(Stream(r)) : Own(r, Stream(r)[i])
    /\ \A i \in 1..Len(got[r]) : got[r][i].what = "reply"
    /\ Arriving(r) => \A i \in 1..Len(Stream(r)) :
                         Stream(r)[i].what = "reply" /\ Stream(r)[i].k < replied[r]

StreamInv == \A r \in Requests : StreamOK(r)

\* The frames received and the frames lacking add up to the messages so far.
CountOK(r) ==
    /\ stage[r] \in Unopened \cup {"opening"} => got[r] = <<>> /\ need[r] = 0
    /\ stage[r] \in Unopened \cup {"ended"} => chan[r] = <<>>
    /\ stage[r] = "waiting" => IF need[r] = 0 THEN got[r] = <<>>
                               ELSE Len(got[r]) + need[r] = Header[r]
    /\ stage[r] = "raw" => need[r] > 0 /\ Len(got[r]) + need[r] = Header[r] + Rest[r]
    /\ stage[r] = "uploading" => need[r] = 0
    /\ stage[r] \in {"uploading", "reply"} => Kind[r] = "upload"
    /\ stage[r] \in {"uploading", "reply"} =>
          IF need[r] = 0 THEN Len(got[r]) = Header[r]
          ELSE Len(got[r]) + need[r] = Header[r] + Rest[r]
    /\ result[r] = "ok" => stage[r] = "ended" /\ Len(got[r]) = Header[r] + Rest[r]

CountInv == \A r \in Requests : CountOK(r)

\* Between two messages nothing was dropped since the last: the frame that
\* declares the next length is the first of the next message.
BoundaryOK(r) ==
    stage[r] \in Serving /\ need[r] = 0 =>
        /\ chan[r] # <<>> /\ chan[r][1].what = "reply" => chan[r][1].k <= Len(got[r]) + 1
        /\ chan[r] = <<>> /\ Arriving(r) => replied[r] <= Len(got[r]) + 1
        /\ chan[r] = <<>> /\ ~Arriving(r) /\ r \in pending => replied[r] <= Len(got[r])

BoundaryInv == \A r \in Requests : BoundaryOK(r)

IndInv ==
    /\ TypeOK /\ PendingInv /\ PhoneInv /\ HeldInv /\ StreamInv /\ CountInv /\ BoundaryInv

=============================================================================
