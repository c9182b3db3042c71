--------------------------- MODULE ConnectProofs ---------------------------
(***************************************************************************)
(* Machine-checked proofs about Connect, for any number of callers and     *)
(* phones, any ports, queue capacity and number of faults, and any         *)
(* scenarios that ConnectAssumption admits.                                *)
(***************************************************************************)
EXTENDS Connect, FiniteSetTheorems, TLAPS

Pcs == {"start", "save", "write", "dial", "before", "forward", "sweep", "tcp", "handshake", "hello",
        "trust", "upsert", "forget", "compare", "info", "ready", "cleanup", "drop", "claim",
        "browse", "usb", "ended", "crashed"}
Results == {"none", "ok", "err", "closed", "missing", "removed", "configuration", "trust_failed",
            "mismatch"}

\* Where everyone is; the calls never change.
PlaceInv == /\ pc \in [Procs -> Pcs] /\ result \in [Procs -> Results]
            /\ online \subseteq Phones
            /\ \A p \in Procs : OpOK(op[p])

(***************************************************************************)
(* The USB streams: what was read, what is left over and what is queued    *)
(* are in the order in which the phone sent it.                            *)
(***************************************************************************)
Increasing(s) == \A i, j \in DOMAIN s : i < j => s[i] < s[j]
Ahead(s, t) == \A i \in DOMAIN s, j \in DOMAIN t : s[i] < t[j]
Sent(s, n) == \A i \in DOMAIN s : s[i] < 2 * n - 1
Streams == [open : BOOLEAN, reader : {"off", "run", "exit"}, q : Seq(Seq(Nat)), pending : Seq(Nat),
            bytes : Seq(Nat), next : Nat \ {0}]

\* A chunk of the queue comes after everything read before it.
QueuedOK(s, k) == /\ Increasing(s.q[k]) /\ Sent(s.q[k], s.next)
                  /\ Ahead(s.bytes, s.q[k]) /\ Ahead(s.pending, s.q[k])
                  /\ \A l \in DOMAIN s.q : k < l => Ahead(s.q[k], s.q[l])
StreamOK(s) == /\ s \in Streams /\ Len(s.q) <= QueueCap
               /\ Increasing(s.bytes) /\ Sent(s.bytes, s.next)
               /\ Increasing(s.pending) /\ Sent(s.pending, s.next)
               /\ Ahead(s.bytes, s.pending)
               /\ \A k \in DOMAIN s.q : QueuedOK(s, k)
UsbInv == /\ usb = [p \in Procs |-> usb[p]]
          /\ \A p \in Procs : StreamOK(usb[p])

(***************************************************************************)
(* The sweep: by the time it is done with a transport it has asked it.     *)
(***************************************************************************)
Finds == [devices : SUBSET (Transports \X Phones), warnings : SUBSET Transports,
          heard : SUBSET (Transports \X Phones), asked : SUBSET Transports]
AskedBy(p) == CASE pc[p] = "start" -> {}
                [] pc[p] = "browse" -> {"Adb"}
                [] OTHER -> {"Adb", "Wifi"}
SweepOK(p) ==
  /\ found[p].devices = found[p].heard
  /\ op[p].do # "discover" => pc[p] \notin {"browse", "usb"}
  /\ op[p].do = "discover" =>
       /\ pc[p] \in {"start", "browse", "usb", "ended", "crashed"}
       /\ pc[p] \in {"start", "browse", "usb"} =>
             result[p] = "none" /\ found[p].asked = op[p].include \cap AskedBy(p)
       /\ result[p] = "ok" => pc[p] = "ended" /\ found[p].asked = op[p].include
SweepInv == found \in [Procs -> Finds] /\ \A p \in Procs : SweepOK(p)

(***************************************************************************)
(* The forwards: a process that did not lose sight of its forward holds    *)
(* it, or is about to find it as the one that was not there before.        *)
(***************************************************************************)
HeldPcs == {"tcp", "handshake", "info", "ready", "cleanup", "drop"}
Seen(f) == \/ held[f.of] = f.port
           \/ pc[f.of] = "sweep" /\ f.port \notin before[f.of]
OwnOK(p) ==
  /\ held[p] # 0 => pc[p] \in HeldPcs
  /\ p \notin blind /\ (held[p] # 0 \/ pc[p] = "sweep") =>
        \E f \in fwd : f.of = p /\ Seen(f)
FwdInv ==
  /\ IsFiniteSet({f.port : f \in fwd}) /\ fwd \subseteq [port : Ports, phone : Phones, of : Procs]
  /\ held \in [Procs -> Ports \cup {0}] /\ blind \subseteq Procs /\ stole \subseteq blind
  /\ before = [p \in Procs |-> before[p]]
  /\ \A f, g \in fwd : f.port = g.port => f = g
  /\ \A f \in fwd : f.phone = op[f.of].to /\ (f.of \notin blind => Seen(f))
  /\ \A p \in Procs : OwnOK(p)

(***************************************************************************)
(* The state file and the phones' keys.                                    *)
(***************************************************************************)
Keys == [Phones -> 0..MaxKeys]
TrustTypes ==
  /\ file \in [st : {"absent", "empty", "torn", "ok"}, state : [host : Hosts \cup {Nobody}, trust : Keys]]
  /\ file.st = "ok" => file.state \in State
  /\ mem \in [Procs -> State] /\ edit \in [Procs -> State]
  /\ why \in [Procs -> {"create", "upsert", "forget", "remove"}]
  /\ trusts \in [Phones -> [Hosts -> 0..MaxKeys]] /\ issued \in Keys
  /\ got \in [Procs -> 0..MaxKeys] /\ cleared \in [Procs -> SUBSET Phones]
  /\ raced \in BOOLEAN /\ broken \in BOOLEAN

\* No key is known that was not issued.
IssuedOK(u) == /\ file.state.trust[u] <= issued[u]
               /\ \A p \in Procs : /\ mem[p].trust[u] <= issued[u] /\ edit[p].trust[u] <= issued[u]
                                   /\ op[p].to = u => got[p] <= issued[u]

\* The key of a process that has yet to save it is nowhere else.
Unsaved(q) == pc[q] = "upsert" \/ (pc[q] \in {"save", "write"} /\ why[q] = "upsert")
SecretOK(q) ==
  Unsaved(q) => LET u == op[q].to
                IN  /\ got[q] # NoKey /\ file.state.trust[u] # got[q]
                    /\ \A p \in Procs : mem[p].trust[u] # got[q]
                    /\ \A p \in Procs \ {q} : /\ edit[p].trust[u] # got[q]
                                              /\ op[p].to = u => got[p] # got[q]

\* An edit that does not overlap with another changes one record of the file as
\* it is; the identity is the file's in any case.
EditOK(q) ==
  pc[q] \in {"save", "write"} =>
    /\ edit[q].host = Old <=> file.state.host = Old
    /\ why[q] = "create" => edit[q] = Fresh(q)
    /\ why[q] \in {"upsert", "forget"} => op[q].do = "connect"
    /\ why[q] = "remove" => op[q].do = "remove"
    /\ ~raced /\ why[q] = "create" => file.state.trust = NoTrust
    /\ ~raced /\ why[q] # "create" =>
          /\ edit[q].trust[op[q].to] = (IF why[q] = "upsert" THEN got[q] ELSE NoKey)
          /\ \A u \in Phones \ {op[q].to} : edit[q].trust[u] = file.state.trust[u]

\* A file that was truncated is being written, by one process unless it raced.
FileOK ==
  /\ file.st = "absent" => file.state = Absent.state
  /\ file.st = "torn" => raced
  /\ file.st = "empty" => broken \/ \E p \in Procs : pc[p] = "write"
  /\ \A p \in Procs : pc[p] = "write" =>
        /\ file.st # "absent"
        /\ ~raced => Editing = {p} /\ file.st = "empty"

Rivals(p) == {q \in Procs \ {p} : op[q].do \in {"connect", "remove"} /\ op[q].to = op[p].to}
KeyOK(p) ==
  /\ pc[p] \in {"upsert", "forget"} => op[p].do = "connect"
  /\ got[p] # NoKey => /\ pc[p] \in {"upsert", "save", "write", "info", "ready", "cleanup", "drop",
                                     "ended", "crashed"}
                       /\ pc[p] \in {"save", "write"} => why[p] = "upsert"
  /\ got[p] # NoKey /\ pc[p] \in {"info", "ready"} /\ ~raced /\ Rivals(p) = {} =>
        file.state.trust[op[p].to] = got[p]
  /\ result[p] = "trust_failed" => pc[p] = "ended"
  /\ result[p] = "trust_failed" /\ derived_key(p) # NoKey /\ ~raced /\ ~broken =>
        file.state.trust[op[p].to] # derived_key(p)
  /\ pc[p] = "compare" => op[p].to \in cleared[p]
  /\ op[p].do = "reset" /\ result[p] = "ok" => op[p].expect \in cleared[p]

TrustInv ==
  /\ TrustTypes /\ FileOK
  /\ \A u \in Phones : IssuedOK(u)
  /\ \A q \in Procs : SecretOK(q) /\ EditOK(q) /\ KeyOK(q)

IndInv == PlaceInv /\ UsbInv /\ SweepInv /\ FwdInv /\ TrustInv

-----------------------------------------------------------------------------
(***************************************************************************)
(* Steps of the USB stream.                                                *)
(***************************************************************************)
\* What fill_buffer splits off a chunk is in order, and the rest comes after it.
LEMMA Split ==
    ASSUME NEW s \in Seq(Nat), Increasing(s), NEW k \in Nat, k <= Len(s)
    PROVE  LET a == SubSeq(s, 1, k)  b == SubSeq(s, k + 1, Len(s))
           IN  /\ a \in Seq(Nat) /\ b \in Seq(Nat)
               /\ Increasing(a) /\ Increasing(b) /\ Ahead(a, b)
               /\ \A i \in DOMAIN a : i \in DOMAIN s /\ a[i] = s[i]
               /\ \A i \in DOMAIN b : i + k \in DOMAIN s /\ b[i] = s[i + k]
  <1> DEFINE a == SubSeq(s, 1, k)  b == SubSeq(s, k + 1, Len(s))
  <1>1. a \in Seq(Nat) /\ Len(a) = k /\ \A i \in 1..k : a[i] = s[i]
    OBVIOUS
  <1>2. b \in Seq(Nat) /\ Len(b) = Len(s) - k /\ \A i \in 1..(Len(s) - k) : b[i] = s[i + k]
    OBVIOUS
  <1> HIDE DEF a, b
  <1>3. \A i \in DOMAIN a : i \in 1..k /\ i \in DOMAIN s /\ a[i] = s[i]
    BY <1>1
  <1>4. \A i \in DOMAIN b : i \in Nat \ {0} /\ i + k \in DOMAIN s /\ b[i] = s[i + k]
    <2>1. Len(s) \in Nat /\ DOMAIN s = 1..Len(s) /\ DOMAIN b = 1..(Len(s) - k)
      BY <1>2
    <2> TAKE i \in DOMAIN b
    <2>2. i \in Nat \ {0} /\ i <= Len(s) - k
      BY <2>1
    <2>3. i \in 1..(Len(s) - k) /\ i + k \in 1..Len(s)
      BY <2>1, <2>2
    <2> QED
      BY <1>2, <2>1, <2>2, <2>3
  <1>5. Increasing(a) /\ Increasing(b) /\ Ahead(a, b)
    BY <1>3, <1>4 DEF Increasing, Ahead
  <1> QED
    BY <1>1, <1>2, <1>3, <1>4, <1>5 DEF a, b

\* What is read is appended to what was read before it.
LEMMA Joined ==
    ASSUME NEW s \in Seq(Nat), NEW t \in Seq(Nat), Increasing(s), Increasing(t), Ahead(s, t)
    PROVE  /\ s \o t \in Seq(Nat) /\ Increasing(s \o t)
           /\ \A i \in DOMAIN (s \o t) : \/ i \in DOMAIN s /\ (s \o t)[i] = s[i]
                                         \/ i - Len(s) \in DOMAIN t /\ (s \o t)[i] = t[i - Len(s)]
  <1> DEFINE c == s \o t
  <1>1. c \in Seq(Nat) /\ Len(c) = Len(s) + Len(t)
    OBVIOUS
  <1>2. \A i \in 1..Len(c) : c[i] = IF i <= Len(s) THEN s[i] ELSE t[i - Len(s)]
    OBVIOUS
  <1> HIDE DEF c
  <1>3. \A i \in DOMAIN c : \/ i \in DOMAIN s /\ c[i] = s[i]
                            \/ i > Len(s) /\ i - Len(s) \in DOMAIN t /\ c[i] = t[i - Len(s)]
    <2> SUFFICES ASSUME NEW i \in DOMAIN c
                 PROVE  \/ i \in DOMAIN s /\ c[i] = s[i]
                        \/ i > Len(s) /\ i - Len(s) \in DOMAIN t /\ c[i] = t[i - Len(s)]
      OBVIOUS
    <2>1. /\ i \in 1..Len(c) /\ Len(s) \in Nat /\ Len(t) \in Nat
          /\ DOMAIN s = 1..Len(s) /\ DOMAIN t = 1..Len(t)
      BY <1>1
    <2>2. CASE i <= Len(s)
      BY <1>2, <2>1, <2>2
    <2>3. CASE i > Len(s)
      BY <1>1, <1>2, <2>1, <2>3, SMTT(40)
    <2> QED
      BY <2>1, <2>2, <2>3
  <1>4. Increasing(c)
    <2> SUFFICES ASSUME NEW i \in DOMAIN c, NEW j \in DOMAIN c, i < j PROVE c[i] < c[j]
      BY DEF Increasing
    <2>1. i \in Nat /\ j \in Nat /\ Len(s) \in Nat /\ DOMAIN s = 1..Len(s)
      BY <1>1
    <2>2. CASE j \in DOMAIN s /\ c[j] = s[j]
      <3>1. i \in DOMAIN s /\ c[i] = s[i]
        BY <1>3, <2>1, <2>2
      <3> QED
        BY <2>2, <3>1 DEF Increasing
    <2>3. CASE j > Len(s) /\ j - Len(s) \in DOMAIN t /\ c[j] = t[j - Len(s)]
      <3>1. CASE i \in DOMAIN s /\ c[i] = s[i]
        BY <2>3, <3>1 DEF Ahead
      <3>2. CASE i > Len(s) /\ i - Len(s) \in DOMAIN t /\ c[i] = t[i - Len(s)]
        <4>1. i - Len(s) < j - Len(s)
          BY <2>1
        <4> QED
          BY <2>3, <3>2, <4>1 DEF Increasing
      <3> QED
        BY <1>3, <3>1, <3>2
    <2> QED
      BY <1>3, <2>2, <2>3
  <1> QED
    BY <1>1, <1>3, <1>4 DEF c

\* A stream that changes leaves the others alone.
LEMMA StreamChanged ==
    ASSUME UsbInv, NEW p \in Procs, NEW s, StreamOK(s), usb' = [usb EXCEPT ![p] = s]
    PROVE  UsbInv'
  BY DEF UsbInv

\* Dropping a stream, and the end of its reader, touch no byte.
LEMMA StreamFlags ==
    ASSUME NEW s, StreamOK(s), NEW o \in BOOLEAN, NEW r \in {"off", "run", "exit"}
    PROVE  StreamOK([s EXCEPT !.open = o, !.reader = r])
  BY DEF StreamOK, Streams, QueuedOK

\* A stream is dropped.
LEMMA DropKeepsUsb ==
    ASSUME UsbInv, NEW p \in Procs, DropStream(p)
    PROVE  UsbInv'
  <1> DEFINE s == [usb[p] EXCEPT !.open = FALSE, !.reader = usb[p].reader]
  <1>1. StreamOK(usb[p]) /\ usb[p] \in Streams
    BY SMTT(40) DEF UsbInv, StreamOK
  <1>2. StreamOK(s)
    BY <1>1, StreamFlags, Zenon DEF Streams
  <1>3. usb' = [usb EXCEPT ![p] = s]
    BY <1>1 DEF DropStream, UsbInv, Streams
  <1> QED
    BY <1>2, <1>3, StreamChanged

\* The process is killed, and its stream and reader with it.
LEMMA CrashKeepsUsb ==
    ASSUME UsbInv, NEW p \in Procs, usb' = [usb EXCEPT ![p].open = FALSE, ![p].reader = "off"]
    PROVE  UsbInv'
  <1> DEFINE s == [usb[p] EXCEPT !.open = FALSE, !.reader = "off"]
  <1>1. StreamOK(usb[p])
    BY SMTT(40) DEF UsbInv
  <1>2. StreamOK(s)
    BY <1>1, StreamFlags, Zenon
  <1>3. usb' = [usb EXCEPT ![p] = s]
    BY DEF UsbInv
  <1> QED
    BY <1>2, <1>3, StreamChanged

\* A fresh stream has delivered nothing.
LEMMA FreshStream == StreamOK([NoStream EXCEPT !.open = TRUE, !.reader = "run"]) /\ StreamOK(NoStream)
  <1> DEFINE s == [NoStream EXCEPT !.open = TRUE, !.reader = "run"]
  <1>0. <<>> \in Seq(Nat) /\ <<>> \in Seq(Seq(Nat)) /\ 1 \in Nat \ {0} /\ FALSE \in BOOLEAN
    OBVIOUS
  <1>3. NoStream \in Streams
    BY <1>0, Zenon DEF NoStream, Streams
  <1>1. NoStream \in Streams /\ s \in Streams
    BY <1>3 DEF Streams
  <1>2. /\ s.q = <<>> /\ s.bytes = <<>> /\ s.pending = <<>>
        /\ NoStream.q = <<>> /\ NoStream.bytes = <<>> /\ NoStream.pending = <<>>
    BY DEF NoStream
  <1> HIDE DEF s
  <1>4. ASSUME NEW t \in {s, NoStream} PROVE StreamOK(t)
    <2>1. t \in Streams /\ t.q = <<>> /\ t.bytes = <<>> /\ t.pending = <<>>
      BY <1>1, <1>2
    <2>2. Len(t.q) <= QueueCap /\ DOMAIN t.q = {} /\ DOMAIN t.bytes = {} /\ DOMAIN t.pending = {}
      BY <2>1, ConnectAssumption
    <2> QED
      BY <2>1, <2>2 DEF StreamOK, Increasing, Ahead, Sent
  <1> QED
    BY <1>4 DEF s

\* The type of a queue that grows.
LEMMA AppendType == ASSUME NEW S, NEW q \in Seq(S), NEW e \in S PROVE Append(q, e) \in Seq(S)
  OBVIOUS

\* Something that comes after all that was sent joins the queue while there is room; the end marker
\* is the empty chunk.
LEMMA QueueGrows ==
    ASSUME NEW s, StreamOK(s), NEW t \in Streams, t.bytes = s.bytes, t.pending = s.pending,
           t.next >= s.next, NEW item \in Seq(Nat), Increasing(item), Sent(item, t.next),
           \A i \in DOMAIN item : item[i] >= 2 * s.next - 1,
           \/ t.q = s.q
           \/ Len(s.q) < QueueCap /\ t.q = Append(s.q, item)
    PROVE  StreamOK(t)
  <1>1. /\ s \in Streams /\ s.q \in Seq(Seq(Nat)) /\ s.next \in Nat /\ t.next \in Nat
        /\ s.bytes \in Seq(Nat) /\ s.pending \in Seq(Nat)
    BY DEF StreamOK, Streams
  <1>2. ASSUME NEW x \in Seq(Nat), Sent(x, s.next) PROVE Sent(x, t.next) /\ Ahead(x, item)
    <2> DEFINE m == s.next  n == t.next
    <2>1. m \in Nat /\ n \in Nat /\ m <= n
      BY <1>1
    <2>2. \A i \in DOMAIN x : x[i] \in Nat /\ x[i] < 2 * m - 1
      BY <1>2 DEF Sent
    <2>3. \A i \in DOMAIN item : item[i] \in Nat /\ item[i] >= 2 * m - 1
      OBVIOUS
    <2> HIDE DEF m, n
    <2>4. Ahead(x, item) /\ Sent(x, n)
      BY <2>1, <2>2, <2>3 DEF Sent, Ahead
    <2> QED
      BY <2>4 DEF n
  <1>3. Sent(t.bytes, t.next) /\ Sent(t.pending, t.next) /\ Ahead(t.bytes, item) /\ Ahead(t.pending, item)
    BY <1>1, <1>2 DEF StreamOK
  <1>4. \A k \in DOMAIN s.q : s.q[k] \in Seq(Nat) /\ QueuedOK(s, k) /\ Sent(s.q[k], t.next) /\ Ahead(s.q[k], item)
    BY <1>1, <1>2 DEF StreamOK, QueuedOK
  <1>5. CASE t.q = s.q
    BY <1>1, <1>3, <1>4, <1>5 DEF StreamOK, QueuedOK
  <1>6. CASE Len(s.q) < QueueCap /\ t.q = Append(s.q, item)
    <2>1. /\ Len(s.q) \in Nat /\ Len(t.q) = Len(s.q) + 1 /\ DOMAIN s.q = 1..Len(s.q)
          /\ DOMAIN t.q = 1..(Len(s.q) + 1)
          /\ t.q[Len(s.q) + 1] = item /\ \A k \in 1..Len(s.q) : t.q[k] = s.q[k]
      BY <1>1, <1>6
    <2>2. \A k \in DOMAIN t.q : (k \in DOMAIN s.q /\ t.q[k] = s.q[k]) \/ (k = Len(s.q) + 1 /\ t.q[k] = item)
      BY <2>1, SMTT(40)
    <2>3. Len(t.q) <= QueueCap
      BY <1>6, <2>1, ConnectAssumption
    <2>4. ASSUME NEW k \in DOMAIN t.q PROVE QueuedOK(t, k)
      <3>1. CASE k \in DOMAIN s.q /\ t.q[k] = s.q[k]
        BY <1>4, <2>2, <3>1 DEF QueuedOK
      <3>2. CASE k = Len(s.q) + 1 /\ t.q[k] = item
        BY <1>3, <2>1, <3>2 DEF QueuedOK
      <3> QED
        BY <2>2, <3>1, <3>2
    <2> QED
      BY <1>3, <2>3, <2>4 DEF StreamOK
  <1> QED
    BY <1>5, <1>6

\* What a bulk read brings.
LEMMA ChunkFacts ==
    ASSUME NEW n \in Nat \ {0}
    PROVE  /\ Chunk(n) \in Seq(Nat) /\ Increasing(Chunk(n)) /\ Sent(Chunk(n), n + 1)
           /\ \A i \in DOMAIN Chunk(n) : Chunk(n)[i] >= 2 * n - 1
  <1>1. 2 * n - 1 \in Nat /\ 2 * n \in Nat
    OBVIOUS
  <1>2. ASSUME NEW a \in Nat, NEW b \in Nat, a < b, b < 2 * (n + 1) - 1, a >= 2 * n - 1
        PROVE  /\ <<a, b>> \in Seq(Nat) /\ Increasing(<<a, b>>) /\ Sent(<<a, b>>, n + 1)
               /\ \A i \in DOMAIN <<a, b>> : <<a, b>>[i] >= 2 * n - 1
    BY <1>2 DEF Increasing, Sent
  <1> QED
    BY <1>1, <1>2 DEF Chunk

\* The reader thread delivers chunks in order or drops them; it never repeats one.
LEMMA ReaderKeepsUsb ==
    ASSUME UsbInv, NEW p \in Procs, Reader(p)
    PROVE  UsbInv'
  <1> DEFINE s == usb[p]
  <1>1. StreamOK(s) /\ s \in Streams
    BY DEF UsbInv, StreamOK
  <1>2. CASE ReaderGetsChunk(p)
    <2> DEFINE t == [s EXCEPT !.next = @ + 1,
                              !.q = IF s.open THEN try_send(p, Chunk(s.next)) ELSE @,
                              !.reader = IF s.open THEN @ ELSE "exit"]
    <2>1. usb' = [usb EXCEPT ![p] = t]
      BY <1>2 DEF ReaderGetsChunk, UsbInv
    <2>2. s.next \in Nat \ {0} /\ Chunk(s.next) \in Seq(Nat) /\ s.q \in Seq(Seq(Nat))
      BY <1>1, ChunkFacts DEF Streams
    <2>3. \/ t.q = s.q
          \/ Len(s.q) < QueueCap /\ t.q = Append(s.q, Chunk(s.next))
      BY <1>1 DEF try_send, Streams
    <2>4. t.q \in Seq(Seq(Nat))
      <3> HIDE DEF t
      <3> QED BY <2>2, <2>3, AppendType
    <2>5. /\ t.bytes = s.bytes /\ t.pending = s.pending /\ t.next = s.next + 1
          /\ t \in Streams
      <3> DEFINE x == t.q  y == t.reader
      <3>1. t = [s EXCEPT !.next = s.next + 1, !.q = x, !.reader = y]
        BY <1>1 DEF Streams
      <3>2. x \in Seq(Seq(Nat)) /\ y \in {"off", "run", "exit"} /\ s.next + 1 \in Nat \ {0}
        BY <1>1, <2>2, <2>4 DEF Streams
      <3> HIDE DEF x, y, t
      <3> QED BY <1>1, <2>2, <3>1, <3>2 DEF Streams
    <2> HIDE DEF t
    <2>6. StreamOK(t)
      <3>1. /\ t.next >= s.next /\ Increasing(Chunk(s.next)) /\ Sent(Chunk(s.next), t.next)
            /\ \A i \in DOMAIN Chunk(s.next) : Chunk(s.next)[i] >= 2 * s.next - 1
        <4> DEFINE n == s.next  m == t.next
        <4>1. n \in Nat \ {0} /\ m = n + 1
          BY <2>2, <2>5
        <4> HIDE DEF n, m
        <4>2. /\ m >= n /\ Increasing(Chunk(n)) /\ Sent(Chunk(n), m)
              /\ \A i \in DOMAIN Chunk(n) : Chunk(n)[i] >= 2 * n - 1
          BY <4>1, ChunkFacts
        <4> QED BY <4>2 DEF n, m
      <3> HIDE DEF s
      <3> QED BY <1>1, <2>2, <2>3, <2>5, <3>1, QueueGrows
    <2> QED BY <2>1, <2>6, StreamChanged
  <1>3. CASE ReaderFails(p)
    <2> DEFINE t == [s EXCEPT !.q = IF s.open THEN try_send(p, <<>>) ELSE @, !.reader = "exit"]
    <2>1. usb' = [usb EXCEPT ![p] = t]
      BY <1>3 DEF ReaderFails, UsbInv
    <2>2. s.next \in Nat \ {0} /\ <<>> \in Seq(Nat) /\ s.q \in Seq(Seq(Nat))
      BY <1>1 DEF Streams
    <2>3. \/ t.q = s.q
          \/ Len(s.q) < QueueCap /\ t.q = Append(s.q, <<>>)
      BY <1>1 DEF try_send, Streams
    <2>4. t.q \in Seq(Seq(Nat))
      <3> HIDE DEF t
      <3> QED BY <2>2, <2>3, AppendType
    <2>5. /\ t.bytes = s.bytes /\ t.pending = s.pending /\ t.next = s.next
          /\ t \in Streams
      <3> DEFINE x == t.q
      <3>1. t = [s EXCEPT !.q = x, !.reader = "exit"]
        BY <1>1 DEF Streams
      <3>2. x \in Seq(Seq(Nat))
        BY <2>4
      <3> HIDE DEF x
      <3> QED BY <1>1, <2>2, <3>1, <3>2 DEF Streams
    <2> HIDE DEF t
    <2>6. Increasing(<<>>) /\ Sent(<<>>, t.next) /\ \A i \in DOMAIN <<>> : <<>>[i] >= 2 * s.next - 1
      BY DEF Increasing, Sent
    <2>7. StreamOK(t)
      <3>1. t.next >= s.next
        BY <2>2, <2>5
      <3> HIDE DEF s
      <3> QED BY <1>1, <2>2, <2>3, <2>5, <2>6, <3>1, QueueGrows
    <2> QED BY <2>1, <2>7, StreamChanged
  <1>4. ASSUME NEW r \in {"off", "exit"}, usb' = [usb EXCEPT ![p].reader = r] PROVE UsbInv'
    <2> DEFINE t == [s EXCEPT !.open = s.open, !.reader = r]
    <2>1. usb' = [usb EXCEPT ![p] = t]
      BY <1>1, <1>4 DEF UsbInv, Streams
    <2>2. StreamOK(t)
      BY <1>1, StreamFlags, Zenon DEF Streams
    <2> QED BY <2>1, <2>2, StreamChanged
  <1> QED
    BY <1>2, <1>3, <1>4 DEF Reader, ReaderTimesOut, ReaderExits

\* A read takes the front of what comes next, and keeps the rest in front of the queue.
LEMMA ReadInOrder ==
    ASSUME NEW s, StreamOK(s), NEW from \in Seq(Nat), Increasing(from), Sent(from, s.next),
           Ahead(s.bytes, from), NEW k \in Nat, k <= Len(from),
           NEW q \in Seq(Seq(Nat)), Len(q) <= QueueCap,
           \A l \in DOMAIN q : /\ Increasing(q[l]) /\ Sent(q[l], s.next)
                               /\ Ahead(s.bytes, q[l]) /\ Ahead(from, q[l])
                               /\ \A m \in DOMAIN q : l < m => Ahead(q[l], q[m])
    PROVE  StreamOK([s EXCEPT !.bytes = s.bytes \o SubSeq(from, 1, k),
                              !.pending = SubSeq(from, k + 1, Len(from)), !.q = q])
  <1> DEFINE a == SubSeq(from, 1, k)  b == SubSeq(from, k + 1, Len(from))  c == s.bytes \o a
             t == [s EXCEPT !.bytes = c, !.pending = b, !.q = q]
  <1>1. /\ s \in Streams /\ s.bytes \in Seq(Nat) /\ s.next \in Nat
        /\ Increasing(s.bytes) /\ Sent(s.bytes, s.next)
    BY DEF StreamOK, Streams
  <1>2. /\ a \in Seq(Nat) /\ b \in Seq(Nat) /\ Increasing(a) /\ Increasing(b) /\ Ahead(a, b)
        /\ \A i \in DOMAIN a : \E j \in DOMAIN from : a[i] = from[j]
        /\ \A i \in DOMAIN b : \E j \in DOMAIN from : b[i] = from[j]
    BY Split
  <1> HIDE DEF a, b
  <1>3. Ahead(s.bytes, a) /\ Ahead(s.bytes, b) /\ Sent(a, s.next) /\ Sent(b, s.next)
    BY <1>2 DEF Ahead, Sent
  <1>4. \A l \in DOMAIN q : Ahead(a, q[l]) /\ Ahead(b, q[l])
    BY <1>2 DEF Ahead
  <1>5. /\ c \in Seq(Nat) /\ Increasing(c)
        /\ \A i \in DOMAIN c : \/ \E j \in DOMAIN s.bytes : c[i] = s.bytes[j]
                               \/ \E j \in DOMAIN a : c[i] = a[j]
    <2> DEFINE d == s.bytes
    <2>1. /\ d \o a \in Seq(Nat) /\ Increasing(d \o a)
          /\ \A i \in DOMAIN (d \o a) :
                \/ i \in DOMAIN d /\ (d \o a)[i] = d[i]
                \/ i - Len(d) \in DOMAIN a /\ (d \o a)[i] = a[i - Len(d)]
      <3>1. d \in Seq(Nat) /\ Increasing(d) /\ Ahead(d, a) /\ a \in Seq(Nat) /\ Increasing(a)
        BY <1>1, <1>2, <1>3
      <3> HIDE DEF d
      <3> QED
        BY <3>1, Joined, Zenon
    <2>2. c = d \o a
      OBVIOUS
    <2> HIDE DEF c, d
    <2>3. c \in Seq(Nat) /\ Increasing(c)
      BY <2>1, <2>2, Zenon
    <2>4. ASSUME NEW i \in DOMAIN c
          PROVE  (\E j \in DOMAIN d : c[i] = d[j]) \/ (\E j \in DOMAIN a : c[i] = a[j])
      BY <2>1, <2>2, Zenon
    <2> QED
      BY <2>3, <2>4, Zenon DEF d
  <1> HIDE DEF c
  <1>6. Ahead(c, b) /\ Sent(c, s.next) /\ \A l \in DOMAIN q : Ahead(c, q[l])
    BY <1>1, <1>2, <1>3, <1>4, <1>5, ZenonT(60) DEF Ahead, Sent
  <1>7. t \in Streams /\ t.q = q /\ t.bytes = c /\ t.pending = b /\ t.next = s.next
    BY <1>1, <1>2, <1>5 DEF Streams
  <1> HIDE DEF t
  <1>8. StreamOK(t)
    BY <1>2, <1>3, <1>4, <1>5, <1>6, <1>7 DEF StreamOK, QueuedOK
  <1> QED
    BY <1>8 DEF t, a, b, c

\* UsbStream::poll_read: leftovers first, then the next chunk.
LEMMA PollKeepsUsb ==
    ASSUME UsbInv, NEW p \in Procs, poll_read(p)
    PROVE  UsbInv'
  <1> DEFINE s == usb[p]
  <1>1. StreamOK(s) /\ s \in Streams /\ s.q \in Seq(Seq(Nat)) /\ s.pending \in Seq(Nat)
    BY DEF UsbInv, StreamOK, Streams
  <1>2. PICK n \in 1..2 :
          \/ s.pending # <<>> /\ usb' = fill_buffer(p, s.pending, n)
          \/ /\ s.pending = <<>> /\ s.q # <<>>
             /\ usb' = [fill_buffer(p, Head(s.q), n) EXCEPT ![p].q = Tail(@)]
    BY Zenon DEF poll_read
  <1> DEFINE from == IF s.pending # <<>> THEN s.pending ELSE Head(s.q)
             q == IF s.pending # <<>> THEN s.q ELSE Tail(s.q)
             k == Min(n, Len(from))
             t == [s EXCEPT !.bytes = s.bytes \o SubSeq(from, 1, k),
                            !.pending = SubSeq(from, k + 1, Len(from)), !.q = q]
  <1>3. /\ from \in Seq(Nat) /\ Increasing(from) /\ Sent(from, s.next) /\ Ahead(s.bytes, from)
        /\ q \in Seq(Seq(Nat)) /\ Len(q) <= QueueCap
        /\ \A l \in DOMAIN q : /\ Increasing(q[l]) /\ Sent(q[l], s.next)
                               /\ Ahead(s.bytes, q[l]) /\ Ahead(from, q[l])
                               /\ \A m \in DOMAIN q : l < m => Ahead(q[l], q[m])
    <2>1. CASE s.pending # <<>>
      BY <1>1, <2>1 DEF StreamOK, QueuedOK
    <2>2. CASE s.pending = <<>>
      <3>1. s.q # <<>>
        BY <1>2, <2>2
      <3>2. /\ 1 \in DOMAIN s.q /\ Head(s.q) = s.q[1] /\ Tail(s.q) \in Seq(Seq(Nat))
            /\ Len(Tail(s.q)) = Len(s.q) - 1
            /\ \A l \in DOMAIN Tail(s.q) : l \in Nat /\ l + 1 \in DOMAIN s.q /\ 1 < l + 1 /\ Tail(s.q)[l] = s.q[l + 1]
        BY <1>1, <3>1, SMTT(40)
      <3>3. from = s.q[1] /\ q = Tail(s.q) /\ s.q[1] \in Seq(Nat)
        BY <1>1, <2>2, <3>2
      <3>4. Len(s.q) <= QueueCap /\ \A l \in DOMAIN s.q : QueuedOK(s, l)
        BY <1>1 DEF StreamOK
      <3> HIDE DEF from, q
      <3>5. Len(q) <= QueueCap
        BY <1>1, <3>2, <3>3, <3>4, ConnectAssumption
      <3> QED
        BY <1>1, <3>2, <3>3, <3>4, <3>5, SMTT(90) DEF QueuedOK
    <2> QED
      BY <2>1, <2>2
  <1>4. k \in Nat /\ k <= Len(from)
    <2> HIDE DEF from
    <2> QED BY <1>3 DEF Min
  <1>5. StreamOK(t)
    <2> HIDE DEF s, from, q, k
    <2> QED BY <1>1, <1>3, <1>4, ReadInOrder
  <1>6. usb' = [usb EXCEPT ![p] = t]
    <2>1. CASE s.pending # <<>>
      <3> HIDE DEF k
      <3>1. usb' = [usb EXCEPT ![p].bytes = @ \o SubSeq(from, 1, k), ![p].pending = SubSeq(from, k + 1, Len(from))]
        BY <1>2, <2>1, Zenon DEF fill_buffer, k
      <3> QED BY <1>1, <2>1, <3>1, ZenonT(60) DEF UsbInv, Streams
    <2>2. CASE s.pending = <<>>
      <3> HIDE DEF k
      <3>1. usb' = [[usb EXCEPT ![p].bytes = @ \o SubSeq(from, 1, k), ![p].pending = SubSeq(from, k + 1, Len(from))]
                      EXCEPT ![p].q = Tail(@)]
        BY <1>2, <2>2, Zenon DEF fill_buffer, k
      <3> QED BY <1>1, <2>2, <3>1 DEF UsbInv, Streams
    <2> QED BY <2>1, <2>2
  <1> QED
    BY <1>5, <1>6, StreamChanged

-----------------------------------------------------------------------------
(***************************************************************************)
(* Steps of a call that touch neither a forward nor a sweep.               *)
(***************************************************************************)
\* One process moves on; its result may change.
Goes(p, Xs) == /\ pc' \in [Procs -> Pcs] /\ pc'[p] \in Xs
               /\ \A q \in Procs \ {p} : pc'[q] = pc[q]
Answers(p, Xs) == /\ result' \in [Procs -> Results] /\ result'[p] \in Xs
                  /\ \A q \in Procs \ {p} : result'[q] = result[q]
Walk(p) ==
  /\ UNCHANGED <<op, found, online, fwd, before, held, blind, stole>>
  /\ op[p].do # "discover" /\ pc[p] # "sweep"
  /\ Goes(p, Pcs \ {"start", "browse", "usb", "sweep"}) /\ Answers(p, Results)
  /\ held[p] # 0 => pc'[p] \in HeldPcs
  /\ UNCHANGED usb \/ DropStream(p)

\* The values after an assignment to one entry.
LEMMA Went ==
    ASSUME PlaceInv, NEW p \in Procs, NEW x \in Pcs, pc' = [pc EXCEPT ![p] = x]
    PROVE  Goes(p, {x})
  BY DEF PlaceInv, Goes

\* The result after an assignment to one entry.
LEMMA Answered ==
    ASSUME PlaceInv, NEW p \in Procs, NEW x \in Results, result' = [result EXCEPT ![p] = x]
    PROVE  Answers(p, {x})
  BY DEF PlaceInv, Answers

\* A call that does not return yet.
LEMMA Silent ==
    ASSUME PlaceInv, NEW p \in Procs, UNCHANGED result
    PROVE  Answers(p, {result[p]})
  BY DEF PlaceInv, Answers

\* The end of a call.
LEMMA Ended ==
    ASSUME PlaceInv, NEW p \in Procs, NEW how \in Results, End(p, how)
    PROVE  Goes(p, {"ended"}) /\ Answers(p, {how}) /\ DropStream(p)
  BY Went, Answered DEF End, Pcs

\* What a walk leaves alone.
LEMMA WalkKeeps ==
    ASSUME PlaceInv, UsbInv, SweepInv, FwdInv, NEW p \in Procs, Walk(p)
    PROVE  PlaceInv' /\ UsbInv' /\ SweepInv' /\ FwdInv'
  <1>1. PlaceInv'
    BY DEF Walk, PlaceInv, Goes, Answers
  <1>2. UsbInv'
    BY DropKeepsUsb DEF Walk, UsbInv
  <1>3. SweepInv'
    <2>1. \A q \in Procs : SweepOK(q)'
      BY DEF Walk, SweepInv, SweepOK, AskedBy, Goes, Answers
    <2> QED BY <2>1 DEF Walk, SweepInv
  <1>4. FwdInv'
    <2>1. \A f \in fwd : Seen(f) => Seen(f)'
      BY DEF Walk, FwdInv, Seen, Goes
    <2>2. \A q \in Procs : OwnOK(q)'
      BY <2>1 DEF Walk, FwdInv, OwnOK, Goes
    <2> QED BY <2>1, <2>2 DEF Walk, FwdInv
  <1> QED BY <1>1, <1>2, <1>3, <1>4

\* Where a call may go, with its stream kept or dropped.
Moves(p, Xs) == Goes(p, Xs) /\ Answers(p, Results) /\ (UNCHANGED usb \/ DropStream(p))

\* A call goes on.
LEMMA MoveOn ==
    ASSUME PlaceInv, NEW p \in Procs, NEW x \in Pcs, pc' = [pc EXCEPT ![p] = x], UNCHANGED <<result, usb>>
    PROVE  Moves(p, {x})
  BY Went, Silent DEF Moves, Answers

\* A call returns.
LEMMA MoveToEnd ==
    ASSUME PlaceInv, NEW p \in Procs, NEW how \in Results, End(p, how)
    PROVE  Moves(p, {"ended"})
  BY Ended DEF Moves, Answers

\* load_or_create and what it leads to.
LEMMA AfterLoadMoves ==
    ASSUME PlaceInv, NEW p \in Procs, NEW s, AfterLoad(p, s)
    PROVE  Moves(p, {"dial", "save", "ended"})
  <1> USE DEF Pcs, Results
  <1>1. CASE op[p].do \in {"connect", "reset"}
    <2>1. pc' = [pc EXCEPT ![p] = "dial"] /\ UNCHANGED <<result, usb>>
      BY <1>1 DEF AfterLoad
    <2> QED BY <2>1, MoveOn DEF Moves, Goes
  <1>2. CASE op[p].do = "list"
    <2>1. End(p, "ok")
      BY <1>2 DEF AfterLoad
    <2> QED BY <2>1, MoveToEnd DEF Moves, Goes
  <1>3. CASE op[p].do = "remove" /\ s.trust[op[p].to] = NoKey
    <2>1. End(p, "missing")
      BY <1>3 DEF AfterLoad
    <2> QED BY <2>1, MoveToEnd DEF Moves, Goes
  <1>4. CASE op[p].do \notin {"connect", "reset", "list"} /\ ~(op[p].do = "remove" /\ s.trust[op[p].to] = NoKey)
    <2>1. pc' = [pc EXCEPT ![p] = "save"] /\ UNCHANGED <<result, usb>>
      BY <1>4 DEF AfterLoad
    <2> QED BY <2>1, MoveOn DEF Moves, Goes
  <1> QED BY <1>1, <1>2, <1>3, <1>4

\* What follows a save.
LEMMA AfterSaveMoves ==
    ASSUME PlaceInv, NEW p \in Procs, NEW saved \in BOOLEAN, AfterSave(p, saved),
           why[p] \in {"create", "upsert", "forget", "remove"}
    PROVE  Moves(p, {"dial", "save", "info", "drop", "ended"})
  <1> USE DEF Pcs, Results
  <1>1. CASE why[p] = "create" /\ saved
    BY <1>1, AfterLoadMoves DEF AfterSave, Moves, Goes
  <1>2. CASE why[p] = "create" /\ ~saved
    BY <1>2, MoveToEnd DEF AfterSave, Moves, Goes
  <1>3. CASE why[p] = "upsert"
    BY <1>3, MoveOn DEF AfterSave, Moves, Goes
  <1>4. CASE why[p] = "forget"
    BY <1>4, MoveToEnd DEF AfterSave, Moves, Goes
  <1>5. CASE why[p] = "remove"
    BY <1>5, MoveToEnd DEF AfterSave, Moves, Goes
  <1> QED BY <1>1, <1>2, <1>3, <1>4, <1>5

\* A busy call that neither sweeps nor looks for its forward walks.
Rest == {"start", "browse", "usb", "ended", "crashed"}
Keeps == UNCHANGED <<op, found, online, fwd, before, held, blind, stole>>
Base == PlaceInv /\ UsbInv /\ SweepInv /\ FwdInv

\* When a busy call walks.
LEMMA WalkFrom ==
    ASSUME Base, NEW p \in Procs, NEW Xs, Moves(p, Xs), Keeps, pc[p] \in Pcs \ (Rest \cup {"sweep"}),
           Xs \cap {"start", "browse", "usb", "sweep"} = {}, pc[p] \in HeldPcs => Xs \subseteq HeldPcs
    PROVE  Walk(p)
  <1>1. op[p].do # "discover" /\ (held[p] # 0 => pc[p] \in HeldPcs)
    BY DEF Base, SweepInv, SweepOK, FwdInv, OwnOK, Rest
  <1> QED BY <1>1 DEF Moves, Keeps, Walk, Goes, Answers

\* AdbConnector::connect: the device is chosen.
LEMMA AdbSelectsWalks ==
    ASSUME Base, NEW p \in Procs, AdbSelects(p)
    PROVE  Walk(p) /\ pc[p] \in {"dial"} /\ Moves(p, {"before", "ended"})
  <1>1. pc[p] \in {"dial"} /\ Keeps
    BY DEF AdbSelects, Keeps, adbVars, envVars, keepAdb
  <1>2. Moves(p, {"before", "ended"})
    BY MoveOn, MoveToEnd DEF Base, AdbSelects, run_adb_fails, Moves, Goes, Pcs, Results
  <1> QED BY <1>1, <1>2, WalkFrom DEF Rest, HeldPcs, Pcs

\* The TCP connection is made, or the forward dropped.
LEMMA AdbConnectsWalks ==
    ASSUME Base, NEW p \in Procs, AdbConnects(p)
    PROVE  Walk(p) /\ pc[p] \in {"tcp"} /\ Moves(p, {"handshake", "drop"})
  <1>1. pc[p] \in {"tcp"} /\ Keeps
    BY DEF AdbConnects, Keeps, Goto, adbVars, envVars, keepAdb
  <1>2. Moves(p, {"handshake", "drop"})
    BY MoveOn, MoveToEnd DEF Base, AdbConnects, Goto, Moves, Goes, Pcs, Results
  <1> QED BY <1>1, <1>2, WalkFrom DEF Rest, HeldPcs, Pcs

\* HandShakerClient::close.
LEMMA closeWalks ==
    ASSUME Base, NEW p \in Procs, close(p)
    PROVE  Walk(p) /\ pc[p] \in {"ready"} /\ Moves(p, {"cleanup"})
  <1>1. pc[p] \in {"ready"} /\ Keeps
    BY DEF close, Keeps, Goto, adbVars, envVars, keepAdb
  <1>2. Moves(p, {"cleanup"})
    BY Went, Silent DEF Base, close, Goto, Moves, Goes, Answers, Pcs, Results
  <1> QED BY <1>1, <1>2, WalkFrom DEF Rest, HeldPcs, Pcs

\* The key exchange over ADB and USB.
LEMMA AdbRawKeyExchangeWalks ==
    ASSUME Base, NEW p \in Procs, AdbRawKeyExchange(p)
    PROVE  Walk(p) /\ pc[p] \in {"handshake"} /\ Moves(p, {"info", "drop"})
  <1>1. pc[p] \in {"handshake"} /\ Keeps
    BY DEF AdbRawKeyExchange, Keeps, adbVars, envVars, keepShake
  <1>2. Moves(p, {"info", "drop"})
    BY MoveOn, MoveToEnd DEF Base, AdbRawKeyExchange, read_normal_direct_fails, Moves, Goes, Pcs, Results
  <1> QED BY <1>1, <1>2, WalkFrom DEF Rest, HeldPcs, Pcs

\* WifiConnector::connect.
LEMMA WifiConnectsWalks ==
    ASSUME Base, NEW p \in Procs, WifiConnects(p)
    PROVE  Walk(p) /\ pc[p] \in {"dial"} /\ Moves(p, {"hello", "ended"})
  <1>1. pc[p] \in {"dial"} /\ Keeps
    BY DEF WifiConnects, Keeps, adbVars, envVars, keepShake
  <1>2. Moves(p, {"hello", "ended"})
    BY MoveOn, MoveToEnd DEF Base, WifiConnects, Moves, Goes, Pcs, Results
  <1> QED BY <1>1, <1>2, WalkFrom DEF Rest, HeldPcs, Pcs

\* The first round of the WiFi handshake.
LEMMA Request02Walks ==
    ASSUME Base, NEW p \in Procs, Request02(p)
    PROVE  Walk(p) /\ pc[p] \in {"hello"} /\ Moves(p, {"trust", "drop"})
  <1>1. pc[p] \in {"hello"} /\ Keeps
    BY DEF Request02, Keeps, Goto, adbVars, envVars, keepShake
  <1>2. Moves(p, {"trust", "drop"})
    BY MoveOn, MoveToEnd DEF Base, Request02, Goto, read_normal_direct_fails, Moves, Goes, Pcs, Results
  <1> QED BY <1>1, <1>2, WalkFrom DEF Rest, HeldPcs, Pcs

\* TRUST_WAIT_TIMEOUT.
LEMMA trust_timeoutWalks ==
    ASSUME Base, NEW p \in Procs, trust_timeout(p)
    PROVE  Walk(p) /\ pc[p] \in {"trust"} /\ Moves(p, {"ended"})
  <1>1. pc[p] \in {"trust"} /\ Keeps
    BY DEF trust_timeout, Keeps, adbVars, envVars, keepShake
  <1>2. Moves(p, {"ended"})
    BY MoveOn, MoveToEnd DEF Base, trust_timeout, Moves, Goes, Pcs, Results
  <1> QED BY <1>1, <1>2, WalkFrom DEF Rest, HeldPcs, Pcs

\* reset_wifi_trust compares the phones.
LEMMA reset_wifi_trustWalks ==
    ASSUME Base, NEW p \in Procs, reset_wifi_trust(p)
    PROVE  Walk(p) /\ pc[p] \in {"compare"} /\ Moves(p, {"ended"})
  <1>1. pc[p] \in {"compare"} /\ Keeps
    BY DEF reset_wifi_trust, Keeps, adbVars, envVars, keepShake
  <1>2. Moves(p, {"ended"})
    BY MoveOn, MoveToEnd DEF Base, reset_wifi_trust, Moves, Goes, Pcs, Results
  <1> QED BY <1>1, <1>2, WalkFrom DEF Rest, HeldPcs, Pcs

\* The device information.
LEMMA fetch_device_infoWalks ==
    ASSUME Base, NEW p \in Procs, fetch_device_info(p)
    PROVE  Walk(p) /\ pc[p] \in {"info"} /\ Moves(p, {"ready", "drop"})
  <1>1. pc[p] \in {"info"} /\ Keeps
    BY DEF fetch_device_info, Keeps, Goto, adbVars, envVars, keepShake
  <1>2. Moves(p, {"ready", "drop"})
    BY MoveOn, MoveToEnd DEF Base, fetch_device_info, Goto, Moves, Goes, Pcs, Results
  <1> QED BY <1>1, <1>2, WalkFrom DEF Rest, HeldPcs, Pcs

\* UsbConnector::connect: the phone is put into accessory mode.
LEMMA UsbSelectsWalks ==
    ASSUME Base, NEW p \in Procs, UsbSelects(p)
    PROVE  Walk(p) /\ pc[p] \in {"dial"} /\ Moves(p, {"claim", "dial", "ended"})
  <1>1. pc[p] \in {"dial"} /\ Keeps
    BY DEF UsbSelects, Keeps, adbVars, keepUsb
  <1>2. Moves(p, {"claim", "dial", "ended"})
    BY MoveOn, MoveToEnd DEF Base, UsbSelects, UsbFails, Moves, Goes, Pcs, Results
  <1> QED BY <1>1, <1>2, WalkFrom DEF Rest, HeldPcs, Pcs

\* The answer of the phone's user.
LEMMA Response02Walks ==
    ASSUME Base, NEW p \in Procs, Response02(p)
    PROVE  Walk(p) /\ pc[p] \in {"trust"} /\ Moves(p, {"info", "upsert", "forget", "ended"})
  <1>1. pc[p] \in {"trust"} /\ Keeps
    BY DEF Response02, Keeps, adbVars, envVars, keepShake
  <1>2. Moves(p, {"info", "upsert", "forget", "ended"})
    BY MoveOn, MoveToEnd DEF Base, Response02, Moves, Goes, Pcs, Results
  <1> QED BY <1>1, <1>2, WalkFrom DEF Rest, HeldPcs, Pcs

\* The answer to TRUST_REMOVE.
LEMMA TrustRemoveAnsweredWalks ==
    ASSUME Base, NEW p \in Procs, TrustRemoveAnswered(p)
    PROVE  Walk(p) /\ pc[p] \in {"trust"} /\ Moves(p, {"compare", "drop"})
  <1>1. pc[p] \in {"trust"} /\ Keeps
    BY DEF TrustRemoveAnswered, Keeps, adbVars, envVars, keepShake
  <1>2. Moves(p, {"compare", "drop"})
    BY MoveOn, MoveToEnd DEF Base, TrustRemoveAnswered, read_normal_direct_fails, Moves, Goes, Pcs, Results
  <1> QED BY <1>1, <1>2, WalkFrom DEF Rest, HeldPcs, Pcs

\* upsert_trust and remove_trust load the file.
LEMMA LoadForEditWalks ==
    ASSUME Base, NEW p \in Procs, LoadForEdit(p)
    PROVE  Walk(p) /\ pc[p] \in {"upsert", "forget"} /\ Moves(p, {"save", "drop", "ended"})
  <1>1. pc[p] \in {"upsert", "forget"} /\ Keeps
    BY DEF LoadForEdit, Keeps, adbVars, envVars
  <1>2. Moves(p, {"save", "drop", "ended"})
    BY MoveOn, MoveToEnd DEF Base, LoadForEdit, Moves, Goes, Pcs, Results
  <1> QED BY <1>1, <1>2, WalkFrom DEF Rest, HeldPcs, Pcs

\* The file is truncated.
LEMMA SaveOpensWalks ==
    ASSUME Base, NEW p \in Procs, SaveOpens(p)
    PROVE  Walk(p) /\ pc[p] \in {"save"} /\ Moves(p, {"write"})
  <1>1. pc[p] \in {"save"} /\ Keeps
    BY DEF SaveOpens, Keeps, Goto, adbVars, envVars
  <1>2. Moves(p, {"write"})
    BY MoveOn, MoveToEnd DEF Base, SaveOpens, Goto, usbVars, Moves, Goes, Pcs, Results
  <1> QED BY <1>1, <1>2, WalkFrom DEF Rest, HeldPcs, Pcs

\* load_or_create at the beginning of a call that is no sweep.
LEMMA load_or_createWalks ==
    ASSUME Base, NEW p \in Procs, load_or_create(p)
    PROVE  Walk(p) /\ pc[p] = "start" /\ Moves(p, {"dial", "save", "ended"})
  <1>1. pc[p] = "start" /\ op[p].do # "discover" /\ Keeps
    BY DEF load_or_create, Keeps, adbVars, envVars
  <1>2. Moves(p, {"dial", "save", "ended"})
    BY AfterLoadMoves, MoveOn, MoveToEnd DEF Base, load_or_create, Moves, Goes, Pcs, Results
  <1>3. held[p] = 0
    BY <1>1 DEF Base, FwdInv, OwnOK, HeldPcs
  <1> QED BY <1>1, <1>2, <1>3 DEF Walk, Moves, Keeps, Goes, Answers

\* The file is written.
LEMMA SaveWritesWalks ==
    ASSUME Base, TrustTypes, NEW p \in Procs, SaveWrites(p)
    PROVE  Walk(p) /\ pc[p] = "write" /\ Moves(p, {"dial", "save", "info", "drop", "ended"})
  <1>1. pc[p] = "write" /\ Keeps
    BY DEF SaveWrites, Keeps, adbVars, envVars
  <1>2. AfterSave(p, TRUE) /\ why[p] \in {"create", "upsert", "forget", "remove"}
    BY DEF SaveWrites, TrustTypes
  <1>3. Moves(p, {"dial", "save", "info", "drop", "ended"})
    BY <1>2, AfterSaveMoves DEF Base
  <1> QED BY <1>1, <1>3, WalkFrom DEF Rest, HeldPcs, Pcs

\* A save fails.
LEMMA SaveFailsWalks ==
    ASSUME Base, TrustTypes, NEW p \in Procs, SaveFails(p)
    PROVE  Walk(p) /\ pc[p] \in {"save", "write"} /\ Moves(p, {"dial", "save", "info", "drop", "ended"})
  <1>1. pc[p] \in {"save", "write"} /\ Keeps
    BY DEF SaveFails, Keeps, adbVars
  <1>2. AfterSave(p, FALSE) /\ why[p] \in {"create", "upsert", "forget", "remove"}
    BY DEF SaveFails, TrustTypes
  <1>3. Moves(p, {"dial", "save", "info", "drop", "ended"})
    BY <1>2, AfterSaveMoves DEF Base
  <1> QED BY <1>1, <1>3, WalkFrom DEF Rest, HeldPcs, Pcs

-----------------------------------------------------------------------------
(***************************************************************************)
(* Steps that touch a stream, a forward or a sweep.                        *)
(***************************************************************************)
\* A call goes from a to b, neither of them the search for a lost forward.
LEMMA SweepElsewhere ==
    ASSUME SweepInv, NEW p \in Procs, UNCHANGED <<op, found>>, op[p].do # "discover",
           Goes(p, Pcs \ {"start", "browse", "usb"}), Answers(p, Results)
    PROVE  SweepInv'
  <1>1. \A q \in Procs : SweepOK(q)'
    BY DEF SweepInv, SweepOK, AskedBy, Goes, Answers
  <1> QED BY <1>1 DEF SweepInv

\* A busy call is no sweep.
LEMMA BusyElsewhere ==
    ASSUME SweepInv, NEW p \in Procs, pc[p] \notin Rest
    PROVE  op[p].do # "discover"
  BY DEF SweepInv, SweepOK, Rest

\* The reader thread, poll_read, and the plug of a phone.
LEMMA StreamStepsKeep ==
    ASSUME Base, NEW p \in Procs, Reader(p) \/ poll_read(p)
    PROVE  Base' /\ UNCHANGED <<pc, result, storeVars, phoneVars, op>>
  <1>1. UNCHANGED <<pc, result, storeVars, phoneVars, op, online, found, fwd, before, held, blind, stole>>
    BY Zenon DEF Reader, ReaderGetsChunk, ReaderTimesOut, ReaderFails, ReaderExits, poll_read, keepStream, keepUsb, adbVars
  <1>2. UsbInv'
    BY ReaderKeepsUsb, PollKeepsUsb DEF Base
  <1>3. PlaceInv' /\ SweepInv' /\ FwdInv'
    BY <1>1 DEF Base, PlaceInv, SweepInv, SweepOK, AskedBy, FwdInv, OwnOK, Seen
  <1> QED BY <1>1, <1>2, <1>3, Zenon DEF Base

\* The interface is claimed and a fresh stream opened, or the attempt fails.
LEMMA UsbClaimsKeeps ==
    ASSUME Base, NEW p \in Procs, UsbClaims(p)
    PROVE  Base' /\ pc[p] = "claim" /\ Goes(p, {"handshake", "dial", "ended"}) /\ Answers(p, {result[p], "err"})
  <1> USE DEF Pcs, Results
  <1>1. pc[p] = "claim" /\ Keeps
    BY DEF UsbClaims, Keeps, keepUsb, adbVars
  <1>2. CASE UsbFails(p)
    <2>1. Moves(p, {"dial", "ended"}) /\ Answers(p, {result[p], "err"})
      BY <1>2, MoveOn, MoveToEnd, Ended, Silent DEF Base, UsbFails, Moves, Goes, Answers
    <2>2. Walk(p)
      BY <1>1, <2>1, WalkFrom DEF Rest, HeldPcs
    <2> QED BY <1>1, <2>1, <2>2, WalkKeeps DEF Base, Moves, Goes
  <1>3. CASE ~UsbFails(p)
    <2>1. /\ usb' = [usb EXCEPT ![p] = [NoStream EXCEPT !.open = TRUE, !.reader = "run"]]
          /\ pc' = [pc EXCEPT ![p] = "handshake"] /\ UNCHANGED result
      BY <1>3 DEF UsbClaims
    <2>2. Goes(p, {"handshake"}) /\ Answers(p, {result[p]})
      BY <2>1, Went, Silent DEF Base
    <2>3. UsbInv'
      BY <2>1, FreshStream, StreamChanged DEF Base
    <2>4. PlaceInv'
      BY <1>1, <2>2 DEF Base, PlaceInv, Goes, Answers, Keeps
    <2>5. SweepInv'
      BY <1>1, <2>2, BusyElsewhere, SweepElsewhere DEF Base, Rest, Goes, Answers, Keeps
    <2>6. FwdInv'
      <3>1. \A f \in fwd : Seen(f) => Seen(f)'
        BY <1>1, <2>2 DEF Base, FwdInv, Seen, Goes, Keeps
      <3>2. \A q \in Procs : OwnOK(q)'
        BY <1>1, <2>2, <3>1 DEF Base, FwdInv, OwnOK, Goes, Keeps, HeldPcs
      <3> QED BY <1>1, <3>1, <3>2 DEF Base, FwdInv, Keeps
    <2> QED BY <1>1, <2>2, <2>3, <2>4, <2>5, <2>6 DEF Base, Goes, Answers
  <1> QED BY <1>2, <1>3

\* A step on a forward is no step of a sweep.
LEMMA ForwardElsewhere ==
    ASSUME Base, NEW p \in Procs, NEW Xs, Moves(p, Xs), Xs \cap {"start", "browse", "usb"} = {},
           pc[p] \notin Rest, UNCHANGED <<op, found, online>>
    PROVE  PlaceInv' /\ UsbInv' /\ SweepInv'
  <1>1. PlaceInv'
    BY DEF Base, PlaceInv, Moves, Goes, Answers
  <1>2. UsbInv'
    BY DropKeepsUsb DEF Base, UsbInv, Moves
  <1>3. SweepInv'
    BY BusyElsewhere, SweepElsewhere DEF Base, Moves, Goes, Answers
  <1> QED BY <1>1, <1>2, <1>3

\* The forwards that are there already are listed.
LEMMA AdbListsForwardsKeeps ==
    ASSUME Base, NEW p \in Procs, AdbListsForwards(p)
    PROVE  Base' /\ pc[p] = "before" /\ Goes(p, {"forward", "ended"}) /\ Answers(p, {result[p], "err"})
  <1> USE DEF Pcs, Results
  <1>1. pc[p] = "before" /\ UNCHANGED <<op, found, online, fwd, held, blind, stole>>
    BY DEF AdbListsForwards, keepAdb, envVars
  <1>2. Moves(p, {"forward", "ended"}) /\ Answers(p, {result[p], "err"})
    BY MoveOn, MoveToEnd, Ended, Silent DEF Base, AdbListsForwards, run_adb_fails, Moves, Goes, Answers
  <1>3. before' = [q \in Procs |-> before'[q]] /\ \A q \in Procs \ {p} : before'[q] = before[q]
    BY DEF AdbListsForwards, Base, FwdInv
  <1>4. \A f \in fwd : Seen(f) => Seen(f)'
    BY <1>1, <1>2, <1>3 DEF Base, FwdInv, Seen, Moves, Goes
  <1>5. \A q \in Procs : OwnOK(q)'
    BY <1>1, <1>2, <1>4 DEF Base, FwdInv, OwnOK, Moves, Goes, HeldPcs
  <1>6. FwdInv'
    BY <1>1, <1>3, <1>4, <1>5 DEF Base, FwdInv
  <1> QED BY <1>1, <1>2, <1>6, ForwardElsewhere DEF Base, Moves, Rest

\* The forward is added: its port is held, or looked for, or lost.
LEMMA AdbForwardsKeeps ==
    ASSUME Base, NEW p \in Procs, AdbForwards(p)
    PROVE  Base' /\ pc[p] = "forward" /\ Goes(p, {"tcp", "sweep", "ended"}) /\ Answers(p, {result[p], "err"})
  <1> USE DEF Pcs, Results
  <1>1. pc[p] = "forward" /\ UNCHANGED <<op, found, online, before, stole>>
    BY DEF AdbForwards, keepAdb, envVars
  <1>2. Moves(p, {"tcp", "sweep", "ended"}) /\ Answers(p, {result[p], "err"})
    BY MoveOn, MoveToEnd, Ended, Silent DEF Base, AdbForwards, run_adb_fails, Moves, Goes, Answers
  <1>3. held[p] = 0 /\ \A f \in fwd : f.of = p => p \in blind
    BY <1>1, ConnectAssumption DEF Base, FwdInv, OwnOK, Seen, HeldPcs
  <1>4. FwdInv'
    <2>1. CASE UNCHANGED <<fwd, held, blind>> /\ Goes(p, {"ended"})
      <3>1. \A f \in fwd : f.of # p => (Seen(f) => Seen(f)')
        BY <1>1, <1>2, <2>1 DEF Base, FwdInv, Seen, Moves, Goes
      <3>2. \A q \in Procs : OwnOK(q)'
        BY <1>1, <1>3, <2>1, <3>1 DEF Base, FwdInv, OwnOK, Goes, HeldPcs
      <3> QED BY <1>1, <1>3, <2>1, <3>1, <3>2 DEF Base, FwdInv
    <2>2. ASSUME NEW port \in Ports \ {f.port : f \in fwd},
                 fwd' = fwd \cup {[port |-> port, phone |-> op[p].to, of |-> p]},
                 \/ Goes(p, {"tcp"}) /\ held' = [held EXCEPT ![p] = port] /\ UNCHANGED blind
                 \/ Goes(p, {"sweep"}) /\ UNCHANGED held /\ blind' = blind \cup {q \in {p} : port \in before[p]}
                 \/ Goes(p, {"ended"}) /\ UNCHANGED held /\ blind' = blind \cup {p}
          PROVE  FwdInv'
      <3>0. PICK g : g = [port |-> port, phone |-> op[p].to, of |-> p]
        OBVIOUS
      <3>1. g \in [port : Ports, phone : Phones, of : Procs]
        BY <2>2, <3>0 DEF Base, PlaceInv, OpOK
      <3>2. /\ g.port = port /\ g.phone = op[p].to /\ g.of = p /\ fwd' = fwd \cup {g}
            /\ \A f \in fwd : f.port # port
        BY <2>2, <3>0
      <3>8. IsFiniteSet({f.port : f \in fwd'})
        <4>1. {f.port : f \in fwd'} = {f.port : f \in fwd} \cup {port}
          BY <3>2
        <4> QED BY <4>1, FS_AddElement DEF Base, FwdInv
      <3>3. held' \in [Procs -> Ports \cup {0}] /\ blind' \subseteq Procs /\ blind \subseteq blind'
            /\ \A q \in Procs \ {p} : held'[q] = held[q] /\ (q \in blind' <=> q \in blind)
        BY <2>2 DEF Base, FwdInv
      <3>4. \A f \in fwd : f.of # p => (Seen(f) => Seen(f)')
        BY <1>1, <1>2, <3>3 DEF Base, FwdInv, Seen, Moves, Goes
      <3>5. p \notin blind' => Seen(g)'
        BY <1>1, <2>2, <3>2 DEF Base, FwdInv, Seen, Goes
      <3>6. \A q \in Procs : OwnOK(q)'
        BY <1>1, <1>2, <1>3, <2>2, <3>2, <3>3, <3>4, <3>5 DEF Base, FwdInv, OwnOK, Moves, Goes, HeldPcs
      <3>7. \A f, h \in fwd' : f.port = h.port => f = h
        BY <3>2 DEF Base, FwdInv
      <3> QED BY <1>1, <1>3, <3>1, <3>2, <3>3, <3>4, <3>5, <3>6, <3>7, <3>8 DEF Base, FwdInv
    <2> QED BY <2>1, <2>2, Went, Ended DEF AdbForwards, run_adb_fails, Base
  <1> QED BY <1>1, <1>2, <1>4, ForwardElsewhere DEF Base, Moves, Rest

\* unique_added_forward answers the one port that was not there before.
LEMMA UniqueAdded ==
    ASSUME NEW b, NEW after, IsFiniteSet(after), unique_added_forward(b, after) # 0
    PROVE  after \ b = {unique_added_forward(b, after)}
  <1>1. IsFiniteSet(after \ b) /\ Cardinality(after \ b) = 1
    BY FS_Subset DEF unique_added_forward
  <1>2. PICK x : after \ b = {x}
    BY <1>1, FS_Singleton
  <1> QED BY <1>1, <1>2 DEF unique_added_forward

\* cleanup_new_forwards finds the forward of a process that did not lose sight of it.
LEMMA cleanup_new_forwardsKeeps ==
    ASSUME Base, NEW p \in Procs, cleanup_new_forwards(p)
    PROVE  Base' /\ pc[p] = "sweep" /\ Goes(p, {"drop", "ended"}) /\ Answers(p, {result[p], "err"})
  <1> USE DEF Pcs, Results
  <1> DEFINE after == list_forward_ports(op[p].to)  port == unique_added_forward(before[p], after)
  <1>1. pc[p] = "sweep" /\ UNCHANGED <<op, found, online, fwd, before, stole>>
    BY DEF cleanup_new_forwards, keepAdb, envVars
  <1>2. Moves(p, {"drop", "ended"}) /\ Answers(p, {result[p], "err"})
    BY MoveOn, MoveToEnd, Ended, Silent DEF Base, cleanup_new_forwards, run_adb_fails, Moves, Goes, Answers
  <1>3. held[p] = 0 /\ \A f \in fwd : f.of = p /\ p \notin blind => f.port \in after \ before[p]
    BY <1>1, ConnectAssumption DEF Base, FwdInv, OwnOK, Seen, HeldPcs, list_forward_ports
  <1>4. FwdInv'
    <2>1. CASE Goes(p, {"ended"}) /\ UNCHANGED held /\ blind' = blind \cup {p}
      <3>1. \A f \in fwd : f.of # p => (Seen(f) => Seen(f)')
        BY <1>1, <2>1 DEF Base, FwdInv, Seen, Goes
      <3>2. \A q \in Procs : OwnOK(q)'
        BY <1>1, <1>3, <2>1, <3>1 DEF Base, FwdInv, OwnOK, Goes, HeldPcs
      <3> QED BY <1>1, <2>1, <3>1, <3>2 DEF Base, FwdInv
    <2>2. CASE Goes(p, {"drop"}) /\ port # 0 /\ held' = [held EXCEPT ![p] = port] /\ UNCHANGED blind
      <3>1. after \subseteq {f.port : f \in fwd} /\ IsFiniteSet(after) /\ after \subseteq Ports
        <4>1. after \subseteq {f.port : f \in fwd} /\ after \subseteq Ports
          BY DEF list_forward_ports, Base, FwdInv
        <4> QED BY <4>1, FS_Subset DEF Base, FwdInv
      <3>2. after \ before[p] = {port}
        BY <2>2, <3>1, UniqueAdded
      <3> HIDE DEF after, port
      <3>3. /\ held' \in [Procs -> Ports \cup {0}] /\ held'[p] = port
            /\ \A q \in Procs \ {p} : held'[q] = held[q]
        BY <2>2, <3>1, <3>2 DEF Base, FwdInv
      <3>4. \A f \in fwd : f.of # p => (Seen(f) => Seen(f)')
        BY <1>1, <2>2, <3>3 DEF Base, FwdInv, Seen, Goes
      <3>5. \A f \in fwd : f.of = p /\ p \notin blind => Seen(f)'
        BY <1>3, <3>2, <3>3 DEF Seen
      <3>6. \A q \in Procs : OwnOK(q)'
        BY <1>1, <1>3, <2>2, <3>3, <3>4, <3>5 DEF Base, FwdInv, OwnOK, Goes, HeldPcs
      <3> QED BY <1>1, <2>2, <3>3, <3>4, <3>5, <3>6 DEF Base, FwdInv
    <2> QED BY <2>1, <2>2, Went, Ended DEF cleanup_new_forwards, run_adb_fails, Base
  <1> QED BY <1>1, <1>2, <1>4, ForwardElsewhere DEF Base, Moves, Rest

\* A process that knows its forward removes that one only; what a process that lost sight of its
\* own removes is lost to its owner.
LEMMA RemoveForwardKeeps ==
    ASSUME FwdInv, NEW p \in Procs, NEW lost \in SUBSET {p}, held[p] # 0, RemoveForward(p, lost),
           UNCHANGED <<op, before>>, pc[p] # "sweep",
           \/ Goes(p, {"ended"}) /\ held' = [held EXCEPT ![p] = 0]
           \/ Goes(p, {"drop"}) /\ UNCHANGED held /\ lost = {p}
    PROVE  FwdInv'
  <1> DEFINE gone == {f \in fwd : f.port = held[p] /\ f.phone = op[p].to}
             robbed == {f.of : f \in gone} \ {p}
  <1>1. /\ fwd' = fwd \ gone /\ stole' = stole \cup {q \in {p} : robbed # {}}
        /\ blind' = blind \cup lost \cup robbed /\ robbed \subseteq Procs
    BY DEF RemoveForward, FwdInv
  <1>2. p \notin blind => robbed = {}
    BY DEF FwdInv, OwnOK, Seen
  <1>3. \A f \in gone : f.of = p \/ f.of \in robbed
    OBVIOUS
  <1>4. \A f \in fwd : f.of = p /\ p \notin blind => f \in gone
    BY DEF FwdInv, Seen
  <1> HIDE DEF gone, robbed
  <1>5. held' \in [Procs -> Ports \cup {0}] /\ \A q \in Procs \ {p} : held'[q] = held[q]
    BY DEF FwdInv
  <1>6. \A f \in fwd : f.of # p => (Seen(f) => Seen(f)')
    BY <1>5 DEF FwdInv, Seen, Goes
  <1>7. ASSUME NEW q \in Procs PROVE OwnOK(q)'
    <2>1. CASE q = p
      BY <1>1, <2>1 DEF FwdInv, OwnOK, Goes, HeldPcs
    <2>2. CASE q # p
      BY <1>1, <1>3, <1>5, <1>6, <2>2 DEF FwdInv, OwnOK, Goes
    <2> QED BY <2>1, <2>2
  <1>8. IsFiniteSet({f.port : f \in fwd'})
    <2>1. {f.port : f \in fwd'} \subseteq {f.port : f \in fwd}
      BY <1>1
    <2> QED BY <2>1, FS_Subset DEF FwdInv
  <1>9. \A f \in fwd' : f.of \notin blind' => Seen(f)'
    BY <1>1, <1>4, <1>6 DEF FwdInv
  <1> QED BY <1>1, <1>2, <1>5, <1>7, <1>8, <1>9 DEF FwdInv

\* A guard that is dropped: its forward is removed, or adb fails and it is lost.
LEMMA ForwardForgotten ==
    ASSUME FwdInv, NEW p \in Procs, UNCHANGED <<op, fwd, before, stole>>, pc[p] # "sweep",
           Goes(p, {"ended", "crashed"}), held' = [held EXCEPT ![p] = 0],
           \/ held[p] = 0 /\ UNCHANGED blind
           \/ blind' = blind \cup {p}
    PROVE  FwdInv'
  <1>1. /\ held' \in [Procs -> Ports \cup {0}] /\ held'[p] = 0
        /\ \A q \in Procs \ {p} : held'[q] = held[q]
    BY DEF FwdInv
  <1>2. \A f \in fwd : f.of # p => (Seen(f) => Seen(f)')
    BY <1>1 DEF FwdInv, Seen, Goes
  <1>3. \A f \in fwd : f.of = p => p \in blind'
    BY ConnectAssumption DEF FwdInv, Seen
  <1>4. \A q \in Procs : OwnOK(q)'
    BY <1>1, <1>2 DEF FwdInv, OwnOK, Goes, HeldPcs
  <1> QED BY <1>1, <1>2, <1>3, <1>4 DEF FwdInv

\* AdbForward::drop, and the errors of a connect that has no forward.
LEMMA DropForwardKeeps ==
    ASSUME Base, NEW p \in Procs, DropForward(p)
    PROVE  Base' /\ pc[p] = "drop" /\ Goes(p, {"ended"}) /\ Answers(p, {result[p], "err"})
  <1> USE DEF Pcs, Results
  <1>1. pc[p] = "drop" /\ UNCHANGED <<op, found, online, before>>
    BY DEF DropForward, keepAdb, envVars
  <1>2. Moves(p, {"ended"}) /\ Answers(p, {result[p], "err"})
    <2>1. PICK how \in {result[p], "err"} : End(p, how)
      BY DEF DropForward
    <2>2. how \in Results
      BY DEF Base, PlaceInv
    <2> QED BY <2>1, <2>2, MoveToEnd, Ended DEF Base, Answers
  <1>3. CASE held[p] # 0 /\ RemoveForward(p, {})
    <2>1. FwdInv'
      BY <1>1, <1>2, <1>3, RemoveForwardKeeps DEF DropForward, Base, Moves
    <2> QED BY <1>1, <1>2, <2>1, ForwardElsewhere DEF Base, Moves, Rest
  <1>4. CASE ~(held[p] # 0 /\ RemoveForward(p, {}))
    <2>1. FwdInv'
      BY <1>1, <1>2, <1>4, ForwardForgotten DEF DropForward, Base, Moves, Goes
    <2> QED BY <1>1, <1>2, <2>1, ForwardElsewhere DEF Base, Moves, Rest
  <1> QED BY <1>3, <1>4

\* TransportCleanup::cleanup of a client that is closed.
LEMMA cleanupKeeps ==
    ASSUME Base, NEW p \in Procs, cleanup(p)
    PROVE  Base' /\ pc[p] = "cleanup" /\ Goes(p, {"ended", "drop"}) /\ Answers(p, {"closed", "err"})
  <1> USE DEF Pcs, Results
  <1>1. pc[p] = "cleanup" /\ UNCHANGED <<op, found, online, before>>
    BY DEF cleanup, keepAdb, envVars, adbVars
  <1>2. CASE held[p] = 0 /\ End(p, "closed") /\ UNCHANGED adbVars
    <2>1. Moves(p, {"ended"}) /\ Answers(p, {"closed", "err"})
      BY <1>2, MoveToEnd, Ended DEF Base, Answers
    <2>2. held' = [held EXCEPT ![p] = 0]
      BY <1>2 DEF adbVars, Base, FwdInv
    <2>3. FwdInv'
      BY <1>1, <1>2, <2>1, <2>2, ForwardForgotten DEF adbVars, Base, Moves, Goes
    <2> QED BY <1>1, <2>1, <2>3, ForwardElsewhere DEF Base, Moves, Goes, Rest
  <1>3. CASE held[p] # 0 /\ RemoveForward(p, {}) /\ End(p, "closed") /\ held' = [held EXCEPT ![p] = 0]
    <2>1. Moves(p, {"ended"}) /\ Answers(p, {"closed", "err"})
      BY <1>3, MoveToEnd, Ended DEF Base, Answers
    <2>2. FwdInv'
      BY <1>1, <1>3, <2>1, RemoveForwardKeeps DEF Base, Moves
    <2> QED BY <1>1, <2>1, <2>2, ForwardElsewhere DEF Base, Moves, Goes, Rest
  <1>4. CASE /\ held[p] # 0 /\ pc' = [pc EXCEPT ![p] = "drop"] /\ result' = [result EXCEPT ![p] = "err"]
             /\ UNCHANGED <<usb, held>> /\ (UNCHANGED adbVars \/ RemoveForward(p, {p}))
    <2>1. Moves(p, {"drop"}) /\ Answers(p, {"closed", "err"})
      BY <1>4, Went, Answered DEF Base, Moves, Answers
    <2>2. CASE RemoveForward(p, {p})
      <3>1. FwdInv'
        BY <1>1, <1>4, <2>1, <2>2, RemoveForwardKeeps DEF Base, Moves
      <3> QED BY <1>1, <2>1, <3>1, ForwardElsewhere DEF Base, Moves, Goes, Rest
    <2>3. CASE UNCHANGED adbVars
      <3>1. Walk(p)
        BY <1>1, <2>1, <2>3, WalkFrom DEF Keeps, adbVars, Rest, HeldPcs
      <3> QED BY <1>1, <2>1, <3>1, WalkKeeps DEF Base, Moves, Goes
    <2> QED BY <1>4, <2>2, <2>3
  <1> QED BY <1>2, <1>3, <1>4 DEF cleanup, adbVars

-----------------------------------------------------------------------------
\* The forwards do not depend on a sweep.
LEMMA SweepLeavesForwards ==
    ASSUME Base, NEW p \in Procs, UNCHANGED <<op, fwd, before, held, blind, stole>>,
           pc[p] \in Rest, Goes(p, Rest)
    PROVE  FwdInv'
  <1>1. \A f \in fwd : Seen(f) => Seen(f)'
    BY DEF Base, FwdInv, Seen, Goes, Rest
  <1>2. \A q \in Procs : OwnOK(q)'
    BY <1>1 DEF Base, FwdInv, OwnOK, Goes, Rest, HeldPcs
  <1> QED BY <1>1, <1>2 DEF Base, FwdInv

\* A transport that is asked, or not requested, or that fails.
LEMMA SweepsFacts ==
    ASSUME Base, NEW p \in Procs, NEW t \in Transports, op[p].do = "discover", Sweeps(p, t, online)
    PROVE  /\ found' \in [Procs -> Finds] /\ \A q \in Procs \ {p} : found'[q] = found[q]
           /\ found'[p].devices = found'[p].heard
           /\ found'[p].asked = found[p].asked \cup (op[p].include \cap {t})
  <1>1. found \in [Procs -> Finds] /\ found[p] \in Finds /\ found[p].devices = found[p].heard
    BY DEF Base, SweepInv, SweepOK
  <1>2. {descriptor(t, u) : u \in online} \in SUBSET (Transports \X Phones)
    BY DEF descriptor, Base, PlaceInv
  <1>3. {descriptor(t, u) : u \in online} = {<<t, u>> : u \in online}
    BY DEF descriptor
  <1>4. PICK D \in SUBSET (Transports \X Phones) : D = {<<t, u>> : u \in online} /\ D = {descriptor(t, u) : u \in online}
    BY <1>2, <1>3
  <1>5. CASE t \notin op[p].include
    BY <1>1, <1>5 DEF Sweeps, Finds
  <1>6. CASE t \in op[p].include /\ found' = [found EXCEPT ![p].devices = @ \cup D, ![p].heard = @ \cup D, ![p].asked = @ \cup {t}]
    BY <1>1, <1>6, ZenonT(60) DEF Finds
  <1>7. CASE t \in op[p].include /\ found' = [found EXCEPT ![p].warnings = @ \cup {t}, ![p].asked = @ \cup {t}]
    BY <1>1, <1>7, ZenonT(60) DEF Finds
  <1> QED BY <1>4, <1>5, <1>6, <1>7 DEF Sweeps

\* A sweep that has asked for what its place says.
LEMMA SweepMoved ==
    ASSUME Base, NEW p \in Procs, op[p].do = "discover", UNCHANGED op, found' \in [Procs -> Finds],
           \A q \in Procs \ {p} : found'[q] = found[q], found'[p].devices = found'[p].heard,
           \/ /\ Goes(p, {"browse"}) /\ Answers(p, {"none"})
              /\ found'[p].asked = op[p].include \cap {"Adb"}
           \/ /\ Goes(p, {"usb"}) /\ Answers(p, {"none"})
              /\ found'[p].asked = op[p].include \cap {"Adb", "Wifi"}
           \/ /\ Goes(p, {"ended"}) /\ Answers(p, {"ok"})
              /\ found'[p].asked = op[p].include
    PROVE  SweepInv'
  <1>1. \A q \in Procs \ {p} : SweepOK(q)'
    BY DEF Base, SweepInv, SweepOK, AskedBy, Goes, Answers
  <1>2. SweepOK(p)'
    BY DEF SweepOK, AskedBy, Goes, Answers
  <1> QED BY <1>1, <1>2 DEF SweepInv

\* discover_devices: ADB first.
LEMMA SweepAdbKeeps ==
    ASSUME Base, NEW p \in Procs, SweepAdb(p)
    PROVE  Base' /\ pc[p] = "start" /\ Goes(p, {"browse"}) /\ Answers(p, {result[p]})
  <1>1. /\ op[p].do = "discover" /\ pc[p] = "start" /\ Sweeps(p, "Adb", online)
        /\ UNCHANGED <<op, online, fwd, before, held, blind, stole, result, usb>>
    BY DEF SweepAdb, Goto, list_devices, keepSweep, adbVars
  <1>2. Goes(p, {"browse"}) /\ Answers(p, {result[p]}) /\ result[p] = "none" /\ found[p].asked = {}
    BY <1>1, Went, Silent DEF SweepAdb, Goto, Base, Pcs, SweepInv, SweepOK, AskedBy
  <1>3. SweepInv'
    BY <1>1, <1>2, SweepsFacts, SweepMoved DEF Transports
  <1>4. FwdInv'
    BY <1>1, <1>2, SweepLeavesForwards DEF Rest, Goes
  <1>5. PlaceInv' /\ UsbInv'
    BY <1>1, <1>2 DEF Base, PlaceInv, UsbInv, Goes, Answers
  <1> QED BY <1>1, <1>2, <1>3, <1>4, <1>5 DEF Base

\* A service is resolved: it replaces an earlier entry of the same phone and no other.
LEMMA WifiResolvedKeeps ==
    ASSUME Base, NEW p \in Procs, WifiResolved(p)
    PROVE  Base' /\ UNCHANGED <<pc, result, storeVars, phoneVars, op>>
  <1>1. UNCHANGED <<pc, result, usb, storeVars, phoneVars, op, online, fwd, before, held, blind, stole>>
    BY DEF WifiResolved, keepSweep, adbVars
  <1>2. PICK u \in Phones :
          found' = [found EXCEPT ![p].devices = {d \in @ : d[1] # "Wifi" \/ host_key(d[2]) # host_key(u)} \cup {descriptor("Wifi", u)},
                                 ![p].heard = @ \cup {<<"Wifi", u>>}]
    BY DEF WifiResolved
  <1>3. found \in [Procs -> Finds] /\ found[p] \in Finds /\ found[p].devices = found[p].heard
    BY DEF Base, SweepInv, SweepOK
  <1>4. /\ found'[p].devices = {d \in found[p].devices : d[1] # "Wifi" \/ d[2] # u} \cup {<<"Wifi", u>>}
        /\ found'[p].heard = found[p].heard \cup {<<"Wifi", u>>}
        /\ found'[p].asked = found[p].asked /\ \A q \in Procs \ {p} : found'[q] = found[q]
    BY <1>2, <1>3 DEF Finds, host_key, descriptor
  <1>5. \A d \in found[p].devices : d[1] = "Wifi" /\ d[2] = u => d = <<"Wifi", u>>
    BY <1>3 DEF Finds
  <1>6. found'[p].devices = found'[p].heard
    BY <1>3, <1>4, <1>5
  <1>7. found' \in [Procs -> Finds]
    <2>1. <<"Wifi", u>> \in Transports \X Phones /\ descriptor("Wifi", u) \in Transports \X Phones
      BY DEF Transports, descriptor
    <2> QED BY <1>2, <1>3, <2>1, ZenonT(60) DEF Finds
  <1>8. SweepInv'
    <2>1. found'[p].asked = found[p].asked /\ \A q \in Procs \ {p} : found'[q] = found[q]
      BY <1>4
    <2>2. \A q \in Procs \ {p} : SweepOK(q)'
      BY <1>1, <2>1 DEF Base, SweepInv, SweepOK, AskedBy
    <2>3. SweepOK(p)'
      BY <1>1, <1>6, <2>1 DEF Base, SweepInv, SweepOK, AskedBy
    <2> QED BY <1>7, <2>2, <2>3 DEF SweepInv
  <1>9. PlaceInv' /\ UsbInv' /\ FwdInv'
    BY <1>1 DEF Base, PlaceInv, UsbInv, FwdInv, OwnOK, Seen
  <1> QED BY <1>1, <1>8, <1>9 DEF Base

\* The browse ends.
LEMMA BrowseEndsKeeps ==
    ASSUME Base, NEW p \in Procs, BrowseEnds(p)
    PROVE  Base' /\ pc[p] = "browse" /\ Goes(p, {"usb"}) /\ Answers(p, {result[p]})
  <1>1. /\ pc[p] = "browse"
        /\ UNCHANGED <<op, online, fwd, before, held, blind, stole, result, usb>>
    BY DEF BrowseEnds, Goto, keepSweep, adbVars
  <1>2. /\ op[p].do = "discover" /\ result[p] = "none" /\ found[p].asked = op[p].include \cap {"Adb"}
        /\ Goes(p, {"usb"}) /\ Answers(p, {result[p]})
    BY <1>1, Went, Silent DEF BrowseEnds, Goto, Base, Pcs, SweepInv, SweepOK, AskedBy
  <1>3. found \in [Procs -> Finds] /\ found[p] \in Finds /\ found[p].devices = found[p].heard
    BY DEF Base, SweepInv, SweepOK
  <1>4. /\ found' \in [Procs -> Finds] /\ \A q \in Procs \ {p} : found'[q] = found[q]
        /\ found'[p].devices = found'[p].heard
        /\ found'[p].asked = found[p].asked \cup (op[p].include \cap {"Wifi"})
    BY <1>3 DEF BrowseEnds, Finds, Transports
  <1>5. SweepInv'
    BY <1>1, <1>2, <1>4, SweepMoved
  <1>6. FwdInv'
    BY <1>1, <1>2, SweepLeavesForwards DEF Rest, Goes
  <1>7. PlaceInv' /\ UsbInv'
    BY <1>1, <1>2 DEF Base, PlaceInv, UsbInv, Goes, Answers
  <1> QED BY <1>1, <1>2, <1>5, <1>6, <1>7 DEF Base

\* USB last; the sweep is over.
LEMMA SweepUsbKeeps ==
    ASSUME Base, NEW p \in Procs, SweepUsb(p)
    PROVE  Base' /\ pc[p] = "usb" /\ Goes(p, {"ended"}) /\ Answers(p, {"ok"}) /\ op[p].do = "discover"
  <1>1. /\ pc[p] = "usb" /\ Sweeps(p, "Usb", online) /\ End(p, "ok")
        /\ UNCHANGED <<op, online, fwd, before, held, blind, stole>>
    BY DEF SweepUsb, list_accessories, keepSweep, adbVars
  <1>2. Goes(p, {"ended"}) /\ Answers(p, {"ok"}) /\ DropStream(p)
    BY <1>1, Ended DEF Base, Results
  <1>3. /\ op[p].do = "discover" /\ op[p].include \subseteq Transports
        /\ found[p].asked = op[p].include \cap {"Adb", "Wifi"}
    BY <1>1 DEF Base, PlaceInv, OpOK, SweepInv, SweepOK, AskedBy
  <1>4. SweepInv'
    <2>1. /\ found' \in [Procs -> Finds] /\ \A q \in Procs \ {p} : found'[q] = found[q]
          /\ found'[p].devices = found'[p].heard
          /\ found'[p].asked = found[p].asked \cup (op[p].include \cap {"Usb"})
      BY <1>1, <1>3, SweepsFacts DEF Transports
    <2>2. found'[p].asked = op[p].include
      BY <1>3, <2>1 DEF Transports
    <2> QED BY <1>1, <1>2, <1>3, <2>1, <2>2, SweepMoved
  <1>5. FwdInv'
    BY <1>1, <1>2, SweepLeavesForwards DEF Rest, Goes
  <1>6. UsbInv'
    BY <1>2, DropKeepsUsb DEF Base
  <1>7. PlaceInv'
    BY <1>1, <1>2 DEF Base, PlaceInv, Goes, Answers
  <1> QED BY <1>1, <1>2, <1>3, <1>4, <1>5, <1>6, <1>7 DEF Base

-----------------------------------------------------------------------------
\* A process is killed: it loses sight of its forward, and its sweep has no result.
LEMMA CrashKeeps ==
    ASSUME Base, NEW p \in Procs, Crash(p)
    PROVE  Base' /\ pc[p] \notin {"start", "ended", "crashed"} /\ Goes(p, {"crashed"}) /\ Answers(p, {result[p]})
  <1>1. /\ UNCHANGED <<op, online, found, fwd, before, stole, result>> /\ pc[p] \notin {"start", "ended", "crashed"}
        /\ blind' = blind \cup {p} /\ held' = [held EXCEPT ![p] = 0]
    BY DEF Crash
  <1>2. Goes(p, {"crashed"}) /\ Answers(p, {result[p]})
    BY Went, Silent DEF Crash, Base, Pcs
  <1>3. UsbInv'
    BY CrashKeepsUsb DEF Crash, Base
  <1>4. PlaceInv'
    BY <1>1, <1>2 DEF Base, PlaceInv, Goes, Answers
  <1>5. SweepInv'
    <2>1. \A q \in Procs : SweepOK(q)'
      BY <1>1, <1>2 DEF Base, SweepInv, SweepOK, AskedBy, Goes, Answers
    <2> QED BY <1>1, <2>1 DEF Base, SweepInv
  <1>6. FwdInv'
    <2>1. /\ held' \in [Procs -> Ports \cup {0}] /\ held'[p] = 0
          /\ \A q \in Procs \ {p} : held'[q] = held[q]
      BY <1>1 DEF Base, FwdInv
    <2>2. \A f \in fwd : f.of # p => (Seen(f) => Seen(f)')
      BY <1>1, <1>2, <2>1 DEF Base, FwdInv, Seen, Goes
    <2>3. \A q \in Procs : OwnOK(q)'
      BY <1>1, <1>2, <2>1, <2>2 DEF Base, FwdInv, OwnOK, Goes, HeldPcs
    <2> QED BY <1>1, <2>1, <2>2, <2>3 DEF Base, FwdInv
  <1> QED BY <1>1, <1>2, <1>3, <1>4, <1>5, <1>6 DEF Base

\* A phone's user, a cable pulled or plugged in: adb drops the forwards of the phone.
LEMMA PhoneStepsKeep ==
    ASSUME Base, NEW u \in Phones, Revoke(u) \/ Unplug(u) \/ Plug(u)
    PROVE  Base' /\ UNCHANGED <<pc, result, op, storeVars>>
  <1>1. UNCHANGED <<pc, result, op, storeVars, found, usb, held, before, stole>>
    BY DEF Revoke, Unplug, Plug, adbVars, usbVars
  <1>2. PlaceInv' /\ UsbInv' /\ SweepInv'
    BY <1>1 DEF Revoke, Unplug, Plug, Base, PlaceInv, UsbInv, SweepInv, SweepOK, AskedBy
  <1>3. CASE UNCHANGED <<fwd, blind>>
    BY <1>1, <1>2, <1>3 DEF Base, FwdInv, OwnOK, Seen
  <1>4. CASE Unplug(u)
    <2> DEFINE lost == {f.of : f \in {g \in fwd : g.phone = u}}
    <2>1. /\ blind' = blind \cup lost /\ lost \subseteq Procs
          /\ fwd' = {f \in fwd : f.phone # u} /\ \A f \in fwd : f \in fwd' \/ f.of \in lost
      BY <1>4 DEF Unplug, Base, FwdInv
    <2> HIDE DEF lost
    <2>2. \A f \in fwd : Seen(f) => Seen(f)'
      BY <1>1 DEF Seen
    <2>3. \A q \in Procs : OwnOK(q)'
      BY <1>1, <2>1, <2>2 DEF Base, FwdInv, OwnOK
    <2>4. IsFiniteSet({f.port : f \in fwd'})
      <3>1. {f.port : f \in fwd'} \subseteq {f.port : f \in fwd}
        BY <2>1
      <3> QED BY <3>1, FS_Subset DEF Base, FwdInv
    <2> QED BY <1>1, <1>2, <2>1, <2>2, <2>3, <2>4 DEF Base, FwdInv
  <1> QED BY <1>3, <1>4 DEF Revoke, Plug, adbVars

-----------------------------------------------------------------------------
(***************************************************************************)
(* The state file and the keys.                                            *)
(***************************************************************************)
\* What only grows: the keys issued, the phones that forgot a host, the history.
Grows ==
  /\ trusts' \in [Phones -> [Hosts -> 0..MaxKeys]]
  /\ issued' \in Keys /\ \A u \in Phones : issued[u] <= issued'[u]
  /\ cleared' \in [Procs -> SUBSET Phones] /\ \A q \in Procs : cleared[q] \subseteq cleared'[q]
  /\ raced' \in BOOLEAN /\ (raced => raced')
  /\ broken' \in BOOLEAN /\ (broken => broken')

\* A call moves on and changes neither the file nor what anyone knows of it.
LEMMA TrustMove ==
    ASSUME TrustInv, NEW p \in Procs, NEW Xs, Goes(p, Xs), Answers(p, Results), Grows,
           UNCHANGED <<op, file, mem, edit, why, got>>,
           pc[p] # "ended", pc[p] = "write" => broken', Xs \cap {"save", "write", "upsert"} = {},
           "forget" \in Xs => op[p].do = "connect",
           "compare" \in Xs => op[p].to \in cleared'[p],
           got[p] # NoKey => Xs \subseteq {"info", "ready", "cleanup", "drop", "ended", "crashed"},
           got[p] = NoKey \/ pc[p] = "info" \/ Xs \cap {"info", "ready"} = {},
           result'[p] = "trust_failed" => /\ Xs \subseteq {"ended"}
                                          /\ broken' \/ raced' \/ file.state.trust[op[p].to] = NoKey,
           op[p].do = "reset" /\ result'[p] = "ok" => op[p].expect \in cleared'[p]
    PROVE  TrustInv'
  <1>1. TrustTypes'
    BY DEF TrustInv, TrustTypes, Grows
  <1>2. \A u \in Phones : IssuedOK(u)'
    BY DEF TrustInv, TrustTypes, IssuedOK, Grows, Keys, State
  <1>3. \A q \in Procs : SecretOK(q)'
    BY DEF TrustInv, SecretOK, Unsaved, Goes
  <1>4. \A q \in Procs : EditOK(q)'
    BY DEF TrustInv, EditOK, Goes, Grows
  <1>5. FileOK'
    <2>1. \A q \in Procs : q \in Editing' => q \in Editing
      BY DEF Editing, Goes
    <2>2. ASSUME NEW q \in Procs, pc'[q] = "write", ~raced' PROVE Editing' = {q}
      BY <2>1, <2>2 DEF TrustInv, FileOK, Goes, Grows, Editing
    <2>3. file.st = "empty" => broken' \/ \E q \in Procs : pc'[q] = "write"
      BY DEF TrustInv, FileOK, Goes, Grows
    <2> QED BY <2>2, <2>3 DEF TrustInv, FileOK, Goes, Grows
  <1>6. ASSUME NEW q \in Procs PROVE KeyOK(q)'
    <2>1. CASE q = p
      BY <2>1 DEF TrustInv, KeyOK, Goes, Answers, Grows, Rivals, derived_key
    <2>2. CASE q # p
      BY <2>2 DEF TrustInv, KeyOK, Goes, Answers, Grows, Rivals, derived_key
    <2> QED BY <2>1, <2>2
  <1> QED BY <1>1, <1>2, <1>3, <1>4, <1>5, <1>6 DEF TrustInv

\* Steps that leave the place of every call alone.
LEMMA TrustSame ==
    ASSUME TrustInv, UNCHANGED <<pc, result, op, file, mem, edit, why, got>>, Grows, UNCHANGED <<raced, broken>>
    PROVE  TrustInv'
  <1>1. TrustTypes'
    BY DEF TrustInv, TrustTypes, Grows
  <1>2. \A u \in Phones : IssuedOK(u)'
    BY DEF TrustInv, TrustTypes, IssuedOK, Grows, Keys, State
  <1>3. FileOK' /\ \A q \in Procs : SecretOK(q)' /\ EditOK(q)'
    BY DEF TrustInv, FileOK, Editing, SecretOK, Unsaved, EditOK
  <1>4. \A q \in Procs : KeyOK(q)'
    BY DEF TrustInv, KeyOK, Grows, Rivals, derived_key
  <1> QED BY <1>1, <1>2, <1>3, <1>4 DEF TrustInv

\* An edit begins with the file as it is, or with no file.
LEMMA EditBegins ==
    ASSUME TrustInv, NEW p \in Procs, NEW e \in State, NEW w \in {"create", "upsert", "forget", "remove"},
           PlaceInv, Goes(p, {"save"}), UNCHANGED <<result, op, file, mem, trusts, issued, got, cleared, raced, broken>>,
           edit' = [edit EXCEPT ![p] = e], why' = [why EXCEPT ![p] = w],
           file.st \in {"ok", "absent"}, pc[p] \notin {"save", "write", "ended"},
           e.host = Old <=> file.state.host = Old,
           w = "create" => e = Fresh(p) /\ file.state.trust = NoTrust,
           w \in {"upsert", "forget"} => op[p].do = "connect", w = "remove" => op[p].do = "remove",
           w = "upsert" <=> pc[p] = "upsert", got[p] # NoKey => w = "upsert",
           w # "create" => /\ e.trust[op[p].to] = (IF w = "upsert" THEN got[p] ELSE NoKey)
                           /\ \A u \in Phones \ {op[p].to} : e.trust[u] = file.state.trust[u]
    PROVE  TrustInv'
  <1>1. TrustTypes'
    BY DEF TrustInv, TrustTypes
  <1>2. /\ edit'[p] = e /\ why'[p] = w
        /\ \A q \in Procs \ {p} : edit'[q] = edit[q] /\ why'[q] = why[q]
    BY DEF TrustInv, TrustTypes
  <1>3. \A u \in Phones : e.trust[u] \in {NoKey, file.state.trust[u]} \/ (w = "upsert" /\ u = op[p].to /\ e.trust[u] = got[p])
    BY DEF NoTrust, Fresh
  <1>4. \A u \in Phones : IssuedOK(u)'
    <2>1. ASSUME NEW u \in Phones PROVE e.trust[u] <= issued[u]
      <3>1. issued[u] \in Nat /\ NoKey <= issued[u]
        BY ConnectAssumption DEF TrustInv, TrustTypes, Keys, NoKey
      <3>2. file.state.trust[u] <= issued[u] /\ (op[p].to = u => got[p] <= issued[u])
        BY DEF TrustInv, IssuedOK
      <3> QED BY <1>3, <3>1, <3>2
    <2> QED BY <1>2, <2>1 DEF TrustInv, IssuedOK
  <1>5. ASSUME NEW q \in Procs PROVE SecretOK(q)'
    <2>0. op[q].to \in Phones
      BY DEF PlaceInv, OpOK
    <2>1. CASE q = p
      BY <1>2, <2>1 DEF TrustInv, SecretOK, Unsaved, Goes
    <2>2. CASE q # p
      <3>1. Unsaved(q) => e.trust[op[q].to] # got[q]
        BY <1>3, <2>0, <2>2 DEF TrustInv, SecretOK
      <3> QED BY <1>2, <2>2, <3>1 DEF TrustInv, SecretOK, Unsaved, Goes
    <2> QED BY <2>1, <2>2
  <1>6. \A q \in Procs : EditOK(q)'
    BY <1>2 DEF TrustInv, EditOK, Goes
  <1>7. FileOK'
    BY DEF TrustInv, FileOK, Goes, Editing
  <1>8. \A q \in Procs : KeyOK(q)'
    BY <1>2 DEF TrustInv, KeyOK, Goes, Rivals, derived_key
  <1> QED BY <1>1, <1>4, <1>5, <1>6, <1>7, <1>8 DEF TrustInv

\* The file is truncated: another edit under way makes it a race.
LEMMA SaveOpensKeeps ==
    ASSUME Base, TrustInv, NEW p \in Procs, SaveOpens(p)
    PROVE  TrustInv'
  <1>1. /\ pc[p] = "save" /\ Goes(p, {"write"}) /\ raced' = (raced \/ Editing # {p})
        /\ file' = [file EXCEPT !.st = "empty"]
        /\ UNCHANGED <<result, op, mem, edit, why, broken, trusts, issued, got, cleared>>
    BY SaveOpensWalks DEF SaveOpens, Goto, Moves, phoneVars, envVars
  <1>2. file'.st = "empty" /\ file'.state = file.state /\ (raced => raced') /\ raced' \in BOOLEAN
    BY <1>1 DEF TrustInv, TrustTypes
  <1>3. TrustTypes'
    BY <1>1, <1>2 DEF TrustInv, TrustTypes
  <1>4. \A u \in Phones : IssuedOK(u)'
    BY <1>1, <1>2 DEF TrustInv, IssuedOK
  <1>5. \A q \in Procs : SecretOK(q)' /\ EditOK(q)'
    BY <1>1, <1>2 DEF TrustInv, SecretOK, Unsaved, EditOK, Goes
  <1>6. Editing' = Editing
    BY <1>1 DEF Editing, Goes
  <1>7. FileOK'
    <2>1. ASSUME NEW q \in Procs, pc'[q] = "write", ~raced' PROVE Editing' = {q}
      BY <1>1, <1>6, <2>1 DEF Editing, Goes
    <2> QED BY <1>1, <1>2, <2>1 DEF FileOK, Goes
  <1>8. \A q \in Procs : KeyOK(q)'
    BY <1>1, <1>2 DEF TrustInv, KeyOK, Goes, Rivals, derived_key
  <1> QED BY <1>3, <1>4, <1>5, <1>7, <1>8 DEF TrustInv

\* What a process that saved does next, part by part.
LEMMA AfterSaveFacts ==
    ASSUME Base, TrustInv, NEW p \in Procs, pc[p] = "write", AfterSave(p, TRUE)
    PROVE  /\ UNCHANGED <<edit, why>>
           /\ mem' \in [Procs -> State] /\ \A q \in Procs \ {p} : mem'[q] = mem[q]
           /\ mem'[p] = mem[p] \/ (why[p] = "create" /\ mem'[p] = edit[p])
           /\ why[p] = "create" => Goes(p, {"dial", "ended"})
           /\ why[p] = "upsert" => Goes(p, {"info"}) /\ UNCHANGED mem
           /\ why[p] \in {"forget", "remove"} => Goes(p, {"ended"}) /\ UNCHANGED mem
           /\ Answers(p, Results) /\ (result'[p] = "trust_failed" => why[p] = "forget")
           /\ op[p].do = "reset" /\ result'[p] = "ok" => op[p].expect \in cleared[p]
  <1> USE DEF Pcs, Results
  <1>0. /\ result[p] \in Results /\ result[p] # "trust_failed" /\ op[p].do # "discover"
        /\ op[p].do = "reset" /\ result[p] = "ok" => op[p].expect \in cleared[p]
        /\ edit[p] \in State /\ why[p] \in {"create", "upsert", "forget", "remove"}
    BY BusyElsewhere DEF Base, PlaceInv, TrustInv, KeyOK, TrustTypes, Rest
  <1>1. CASE why[p] = "create"
    <2>1. AfterLoad(p, edit[p]) /\ edit[p] = Fresh(p)
      BY <1>1 DEF AfterSave, TrustInv, EditOK
    <2>2. op[p].do = "remove" => edit[p].trust[op[p].to] = NoKey
      BY <2>1 DEF Fresh, NoTrust, Base, PlaceInv, OpOK
    <2>3. CASE op[p].do \in {"connect", "reset"}
      <3>1. pc' = [pc EXCEPT ![p] = "dial"] /\ mem' = [mem EXCEPT ![p] = edit[p]] /\ UNCHANGED <<edit, why, result, usb>>
        BY <2>1, <2>3 DEF AfterLoad
      <3>2. Goes(p, {"dial"}) /\ Answers(p, {result[p]})
        BY <3>1, Went, Silent DEF Base
      <3> QED BY <1>0, <1>1, <3>1, <3>2 DEF TrustInv, TrustTypes, Goes, Answers
    <2>4. CASE op[p].do \in {"list", "remove"}
      <3>1. PICK how \in {"ok", "missing"} : End(p, how) /\ UNCHANGED <<mem, edit, why>>
        BY <2>1, <2>2, <2>4 DEF AfterLoad
      <3>2. Goes(p, {"ended"}) /\ Answers(p, {how})
        BY <3>1, Ended DEF Base
      <3> QED BY <1>0, <1>1, <2>4, <3>1, <3>2 DEF TrustInv, TrustTypes, Goes, Answers
    <2> QED BY <1>0, <2>3, <2>4 DEF Base, PlaceInv, OpOK
  <1>2. CASE why[p] = "upsert"
    <2>1. pc' = [pc EXCEPT ![p] = "info"] /\ UNCHANGED <<mem, edit, why, result, usb>>
      BY <1>2 DEF AfterSave
    <2>2. Goes(p, {"info"}) /\ Answers(p, {result[p]})
      BY <2>1, Went, Silent DEF Base
    <2> QED BY <1>0, <1>2, <2>1, <2>2 DEF TrustInv, TrustTypes, Answers
  <1>3. CASE why[p] \in {"forget", "remove"}
    <2>1. PICK how \in {"trust_failed", "removed"} :
            End(p, how) /\ UNCHANGED <<mem, edit, why>> /\ (how = "trust_failed" => why[p] = "forget")
      BY <1>3 DEF AfterSave
    <2>2. Goes(p, {"ended"}) /\ Answers(p, {how})
      BY <2>1, Ended DEF Base
    <2> QED BY <1>3, <2>1, <2>2 DEF TrustInv, TrustTypes, Answers
  <1> QED BY <1>0, <1>1, <1>2, <1>3

\* The file is written.  Without a race its other records are those it had.
LEMMA SaveWritesKeeps ==
    ASSUME Base, TrustInv, NEW p \in Procs, SaveWrites(p)
    PROVE  TrustInv'
  <1>0. pc[p] = "write" /\ AfterSave(p, TRUE)
    BY DEF SaveWrites
  <1>1. /\ UNCHANGED <<op, edit, why, trusts, issued, got, cleared, raced, broken>>
        /\ Goes(p, {"dial", "info", "ended"}) /\ Answers(p, Results)
        /\ mem' \in [Procs -> State] /\ \A q \in Procs \ {p} : mem'[q] = mem[q]
        /\ mem'[p] = mem[p] \/ mem'[p] = edit[p]
    BY <1>0, AfterSaveFacts DEF SaveWrites, phoneVars, envVars, TrustInv, TrustTypes, Goes
  <1>2. /\ EditOK(p) /\ SecretOK(p) /\ edit[p] \in State /\ op[p].to \in Phones
        /\ why[p] \in {"create", "upsert", "forget", "remove"}
        /\ ~raced => Editing = {p} /\ file.st = "empty"
    BY <1>0 DEF TrustInv, TrustTypes, FileOK, Base, PlaceInv, OpOK
  <1>3. \/ file'.st = "ok" /\ file'.state = edit[p] /\ file' = [st |-> "ok", state |-> edit[p]]
        \/ file'.st = "torn" /\ file'.state = file.state /\ raced /\ file' = [file EXCEPT !.st = "torn"]
    BY <1>2 DEF SaveWrites, TrustInv, TrustTypes
  <1>4. file'.state \in {edit[p], file.state} /\ (~raced => file'.state = edit[p]) /\ file'.st \in {"ok", "torn"}
    BY <1>3
  <1>5. TrustTypes'
    <2>1. file' \in [st : {"absent", "empty", "torn", "ok"}, state : [host : Hosts \cup {Nobody}, trust : Keys]]
      BY <1>2, <1>3 DEF TrustInv, TrustTypes, State, Keys
    <2> QED BY <1>1, <1>2, <1>3, <2>1 DEF TrustInv, TrustTypes
  <1>6. \A u \in Phones : IssuedOK(u)'
    BY <1>1, <1>4 DEF TrustInv, IssuedOK
  <1>7. ASSUME NEW q \in Procs PROVE SecretOK(q)'
    <2>1. CASE q = p
      BY <1>1, <2>1 DEF SecretOK, Unsaved, Goes
    <2>2. CASE q # p
      BY <1>1, <1>4, <2>2 DEF TrustInv, SecretOK, Unsaved, Goes
    <2> QED BY <2>1, <2>2
  <1>8. ASSUME NEW q \in Procs PROVE EditOK(q)'
    <2>1. CASE q = p
      BY <1>1, <2>1 DEF EditOK, Goes
    <2>2. CASE q # p
      <3>1. pc[q] \in {"save", "write"} => raced
        BY <1>0, <1>2, <2>2 DEF Editing
      <3> QED BY <1>0, <1>1, <1>2, <1>4, <2>2, <3>1 DEF TrustInv, EditOK, Goes
    <2> QED BY <2>1, <2>2
  <1>9. FileOK'
    <2>1. ASSUME NEW q \in Procs, pc'[q] = "write" PROVE raced
      BY <1>0, <1>1, <1>2, <2>1 DEF Goes, Editing
    <2> QED BY <1>1, <1>3, <2>1 DEF FileOK
  <1>10. ASSUME NEW q \in Procs PROVE KeyOK(q)'
    <2>0. KeyOK(q) /\ KeyOK(p) /\ op[q].to \in Phones
      BY DEF TrustInv, Base, PlaceInv, OpOK
    <2>1. CASE q = p
      <3>1. /\ got[p] # NoKey => why[p] = "upsert" /\ Goes(p, {"info"})
            /\ result'[p] = "trust_failed" => why[p] = "forget" /\ Goes(p, {"ended"})
            /\ op[p].do = "reset" /\ result'[p] = "ok" => op[p].expect \in cleared[p]
        BY <1>0, <2>0, AfterSaveFacts DEF KeyOK
      <3>2. ~raced /\ why[p] = "upsert" => file'.state.trust[op[p].to] = got[p]
        BY <1>0, <1>2, <1>4 DEF EditOK
      <3>3. ~raced /\ why[p] = "forget" => file'.state.trust[op[p].to] = NoKey
        BY <1>0, <1>2, <1>4 DEF EditOK
      <3>4. UNCHANGED <<op, got, cleared, raced, broken>> /\ pc'[p] \in {"dial", "info", "ended"}
        BY <1>1 DEF Goes
      <3>5. got[p] # NoKey => pc'[p] = "info"
        BY <3>1 DEF Goes
      <3>6. result'[p] = "trust_failed" => pc'[p] = "ended" /\ why[p] = "forget"
        BY <3>1 DEF Goes
      <3> QED BY <2>1, <3>1, <3>2, <3>3, <3>4, <3>5, <3>6 DEF KeyOK
    <2>2. CASE q # p
      <3>1. UNCHANGED <<op, got, cleared, raced, broken>> /\ pc'[q] = pc[q] /\ result'[q] = result[q] /\ mem'[q] = mem[q]
        BY <1>1, <2>2 DEF Goes, Answers
      <3>2. ASSUME got[q] # NoKey, file.state.trust[op[q].to] = got[q], ~raced, Rivals(q) = {}
            PROVE  edit[p].trust[op[q].to] = got[q]
        <4>1. why[p] # "create"
          BY <1>0, <1>2, <2>0, <3>2 DEF EditOK, NoTrust
        <4>2. op[p].do \in {"connect", "remove"}
          BY <1>0, <1>2, <4>1 DEF EditOK
        <4>3. op[q].to # op[p].to
          BY <2>2, <3>2, <4>2 DEF Rivals
        <4> QED BY <1>0, <1>2, <2>0, <3>2, <4>1, <4>3 DEF EditOK
      <3>3. ASSUME derived_key(q) # NoKey, file.state.trust[op[q].to] # derived_key(q), ~raced
            PROVE  edit[p].trust[op[q].to] # derived_key(q)
        <4>1. CASE why[p] = "create"
          BY <1>0, <1>2, <2>0, <3>3, <4>1 DEF EditOK, Fresh, NoTrust
        <4>2. CASE why[p] # "create" /\ op[q].to # op[p].to
          BY <1>0, <1>2, <2>0, <3>3, <4>2 DEF EditOK
        <4>3. CASE why[p] = "upsert" /\ op[q].to = op[p].to
          BY <1>0, <1>2, <3>3, <4>3 DEF EditOK, SecretOK, Unsaved, derived_key
        <4>4. CASE why[p] \in {"forget", "remove"} /\ op[q].to = op[p].to
          BY <1>0, <1>2, <3>3, <4>4 DEF EditOK
        <4> QED BY <1>2, <4>1, <4>2, <4>3, <4>4
      <3>4. derived_key(q)' = derived_key(q) /\ Rivals(q)' = Rivals(q)
        BY <3>1 DEF derived_key, Rivals
      <3>5. got[q] # NoKey /\ pc[q] \in {"info", "ready"} /\ ~raced /\ Rivals(q) = {} =>
               file'.state.trust[op[q].to] = got[q]
        BY <1>4, <2>0, <3>2 DEF KeyOK
      <3>6. result[q] = "trust_failed" /\ derived_key(q) # NoKey /\ ~raced /\ ~broken =>
               file'.state.trust[op[q].to] # derived_key(q)
        BY <1>4, <2>0, <3>3 DEF KeyOK
      <3>7. why'[q] = why[q]
        BY <1>1
      <3> QED BY <2>0, <3>1, <3>4, <3>5, <3>6, <3>7 DEF KeyOK
    <2> QED BY <2>1, <2>2
  <1> QED BY <1>5, <1>6, <1>7, <1>8, <1>9, <1>10 DEF TrustInv

\* The phone's user trusts the host for good: the key is new.
LEMMA KeyIssued ==
    ASSUME TrustInv, PlaceInv, NEW p \in Procs, pc[p] = "trust", op[p].do = "connect", Goes(p, {"upsert"}),
           TrustAlways(p), got' = [got EXCEPT ![p] = issued[op[p].to] + 1],
           UNCHANGED <<result, op, file, mem, edit, why, cleared, raced, broken>>
    PROVE  TrustInv'
  <1> DEFINE u == op[p].to  k == issued[u] + 1
  <1>1. /\ u \in Phones /\ issued \in Keys /\ k \in 1..MaxKeys /\ mem[p].host \in Hosts
        /\ issued' = [issued EXCEPT ![u] = k] /\ trusts' = [trusts EXCEPT ![u][mem[p].host] = k]
    BY ConnectAssumption DEF TrustAlways, PlaceInv, OpOK, TrustInv, TrustTypes, Keys, State
  <1>2. /\ \A v \in Phones : issued'[v] = IF v = u THEN k ELSE issued[v]
        /\ got'[p] = k /\ \A q \in Procs \ {p} : got'[q] = got[q]
    BY <1>1 DEF TrustInv, TrustTypes, Keys
  <1>3. TrustTypes'
    <2>1. trusts' \in [Phones -> [Hosts -> 0..MaxKeys]] /\ issued' \in Keys /\ got' \in [Procs -> 0..MaxKeys]
      BY <1>1 DEF TrustInv, TrustTypes, Keys
    <2> QED BY <2>1 DEF TrustInv, TrustTypes
  <1>4. /\ file.state.trust[u] < k /\ NoKey < k
        /\ \A q \in Procs : mem[q].trust[u] < k /\ edit[q].trust[u] < k /\ (op[q].to = u => got[q] < k)
    BY <1>1, ConnectAssumption DEF TrustInv, TrustTypes, IssuedOK, Keys, State, NoKey
  <1>5. \A q \in Procs : op[q].to \in Phones
    BY DEF PlaceInv, OpOK
  <1>6. ASSUME NEW v \in Phones PROVE IssuedOK(v)'
    <2>1. issued[v] \in Nat /\ issued'[v] \in Nat /\ issued[v] <= issued'[v]
      BY <1>1, <1>2, ConnectAssumption DEF Keys
    <2>2. /\ file.state.trust[v] \in Nat /\ file.state.trust[v] <= issued[v]
          /\ \A q \in Procs : /\ mem[q].trust[v] \in Nat /\ mem[q].trust[v] <= issued[v]
                              /\ edit[q].trust[v] \in Nat /\ edit[q].trust[v] <= issued[v]
                              /\ got[q] \in Nat /\ (op[q].to = v => got[q] <= issued[v])
      BY ConnectAssumption DEF TrustInv, TrustTypes, IssuedOK, Keys, State
    <2>3. u = v => issued'[v] = k
      BY <1>2
    <2> HIDE DEF u, k
    <2>4. k \in Nat /\ (op[p].to = v => u = v)
      BY <1>1 DEF u
    <2> QED BY <1>2, <2>1, <2>2, <2>3, <2>4 DEF IssuedOK
  <1>7. ASSUME NEW q \in Procs PROVE SecretOK(q)'
    <2>1. CASE q = p
      <3>1. /\ got'[p] # NoKey /\ file.state.trust[u] # k
            /\ \A r \in Procs : mem[r].trust[u] # k /\ edit[r].trust[u] # k /\ (op[r].to = u => got[r] # k)
        BY <1>1, <1>2, <1>4, ConnectAssumption DEF TrustInv, TrustTypes, Keys, State, NoKey
      <3> QED BY <1>2, <2>1, <3>1 DEF SecretOK
    <2>2. CASE q # p
      <3>1. Unsaved(q) /\ op[q].to = u => k # got[q]
        BY <1>1, <1>4 DEF TrustInv, TrustTypes, Keys
      <3> QED BY <1>2, <2>2, <3>1 DEF TrustInv, SecretOK, Unsaved, Goes
    <2> QED BY <2>1, <2>2
  <1>8. \A q \in Procs : EditOK(q)'
    BY <1>2 DEF TrustInv, EditOK, Goes
  <1>9. FileOK'
    BY DEF TrustInv, FileOK, Goes, Editing
  <1>10. \A q \in Procs : KeyOK(q)'
    BY <1>2 DEF TrustInv, KeyOK, Goes, Rivals, derived_key
  <1> QED BY <1>3, <1>6, <1>7, <1>8, <1>9, <1>10 DEF TrustInv

\* A history that stays as it is.
LEMMA GrowsSame ==
    ASSUME TrustInv, UNCHANGED <<trusts, issued, cleared, raced, broken>>
    PROVE  Grows
  <1>1. \A u \in Phones : issued[u] \in Nat
    BY ConnectAssumption DEF TrustInv, TrustTypes, Keys
  <1> QED BY <1>1 DEF Grows, TrustInv, TrustTypes

\* A call that has no key yet and touches no file.
LEMMA TrustPlain ==
    ASSUME Base, TrustInv, NEW p \in Procs, NEW Xs, Goes(p, Xs), UNCHANGED <<op, storeVars, phoneVars>>,
           pc[p] \in Pcs \ {"write", "ended"},
           Xs \cap {"save", "write", "upsert", "forget", "compare"} = {},
           Answers(p, {result[p], "err", "closed", "missing", "configuration", "mismatch"}) \/ (Answers(p, {"ok"}) /\ op[p].do # "reset"),
           got[p] = NoKey \/ Xs \subseteq {"cleanup", "drop", "ended", "crashed"} \/ (pc[p] = "info" /\ Xs \subseteq {"ready", "drop"})
    PROVE  TrustInv'
  <1>1. Grows
    BY GrowsSame DEF storeVars, phoneVars
  <1>2. result[p] # "trust_failed" /\ result'[p] # "trust_failed" /\ Answers(p, Results)
    BY DEF TrustInv, KeyOK, Answers, Results, Base, PlaceInv
  <1>3. op[p].do = "reset" /\ result'[p] = "ok" => op[p].expect \in cleared'[p]
    BY DEF TrustInv, KeyOK, Answers, phoneVars
  <1> QED BY <1>1, <1>2, <1>3, TrustMove DEF storeVars, phoneVars

\* upsert_trust and remove_trust load the file.
LEMMA LoadForEditKeeps ==
    ASSUME Base, TrustInv, NEW p \in Procs, LoadForEdit(p)
    PROVE  TrustInv'
  <1> USE DEF Pcs, Results
  <1> DEFINE u == op[p].to
  <1>0. /\ pc[p] \in {"upsert", "forget"} /\ op[p].do = "connect" /\ u \in Phones
        /\ UNCHANGED <<op, file, mem, broken, trusts, issued, got, cleared>> /\ raced' = (raced \/ Unreadable)
    BY LoadForEditWalks DEF LoadForEdit, phoneVars, envVars, TrustInv, KeyOK, Base, PlaceInv, OpOK
  <1>1. Grows
    <2>1. \A v \in Phones : issued[v] \in Nat
      BY ConnectAssumption DEF TrustInv, TrustTypes, Keys
    <2> QED BY <1>0, <2>1 DEF Grows, TrustInv, TrustTypes
  <1>2. /\ pc[p] = "upsert" => got[p] # NoKey
        /\ pc[p] = "forget" => got[p] = NoKey
        /\ result[p] # "trust_failed"
    BY <1>0 DEF TrustInv, SecretOK, Unsaved, KeyOK
  <1>3. CASE pc[p] = "upsert" /\ Unreadable /\ pc' = [pc EXCEPT ![p] = "drop"] /\ UNCHANGED <<edit, why, result, usb>>
    <2>1. Goes(p, {"drop"}) /\ Answers(p, {result[p]}) /\ result'[p] = result[p]
      BY <1>3, Went, Silent DEF Base
    <2>2. op[p].do # "reset" /\ result'[p] # "trust_failed" /\ Answers(p, Results)
      BY <1>0, <1>2, <2>1 DEF Answers
    <2> QED BY <1>0, <1>1, <1>3, <2>1, <2>2, TrustMove
  <1>4. CASE pc[p] = "forget" /\ (Unreadable \/ file.state.trust[u] = NoKey) /\ End(p, "trust_failed") /\ UNCHANGED <<edit, why>>
    <2>1. Goes(p, {"ended"}) /\ Answers(p, {"trust_failed"})
      BY <1>4, Ended DEF Base
    <2>2. Answers(p, Results) /\ (raced' \/ file.state.trust[op[p].to] = NoKey)
      BY <1>0, <1>4, <2>1 DEF Answers
    <2> QED BY <1>0, <1>1, <1>2, <1>4, <2>1, <2>2, TrustMove
  <1>5. ASSUME NEW key \in 0..MaxKeys, NEW w \in {"upsert", "forget"}, Readable,
               edit' = [edit EXCEPT ![p] = [file.state EXCEPT !.trust[u] = key]],
               why' = [why EXCEPT ![p] = w], pc' = [pc EXCEPT ![p] = "save"], UNCHANGED result,
               w = "upsert" => pc[p] = "upsert" /\ key = got[p], w = "forget" => pc[p] = "forget" /\ key = NoKey
        PROVE  TrustInv'
    <2> DEFINE e == [file.state EXCEPT !.trust[u] = key]
    <2>1. file.st = "ok" /\ file.state \in State /\ UNCHANGED raced
      BY <1>0, <1>5 DEF Readable, Unreadable, TrustInv, TrustTypes
    <2>2. /\ e \in State /\ e.host = file.state.host /\ e.trust[u] = key
          /\ \A v \in Phones \ {u} : e.trust[v] = file.state.trust[v]
      BY <1>0, <2>1 DEF State
    <2>3. Goes(p, {"save"})
      BY <1>5, Went DEF Base
    <2>4. edit' = [edit EXCEPT ![p] = e]
      BY <1>5
    <2>5. /\ w = "upsert" <=> pc[p] = "upsert"
          /\ key = IF w = "upsert" THEN got[p] ELSE NoKey
          /\ got[p] # NoKey => w = "upsert"
      BY <1>0, <1>2, <1>5
    <2> HIDE DEF e
    <2> QED BY <1>0, <1>5, <2>1, <2>2, <2>3, <2>4, <2>5, EditBegins DEF Base
  <1>6. got[p] \in 0..MaxKeys /\ NoKey \in 0..MaxKeys
    BY ConnectAssumption DEF TrustInv, TrustTypes, NoKey
  <1> QED BY <1>3, <1>4, <1>5, <1>6, SMTT(40) DEF LoadForEdit

\* load_or_create: the state is loaded, or created where there is no file.
LEMMA load_or_createKeeps ==
    ASSUME Base, TrustInv, NEW p \in Procs, load_or_create(p)
    PROVE  TrustInv'
  <1> USE DEF Pcs, Results
  <1>0. /\ pc[p] = "start" /\ op[p].do # "discover" /\ OpOK(op[p])
        /\ UNCHANGED <<op, file, trusts, issued, got, cleared, raced, broken>>
    BY DEF load_or_create, phoneVars, envVars, Base, PlaceInv
  <1>1. Grows /\ got[p] = NoKey /\ result[p] # "trust_failed"
    BY <1>0, GrowsSame DEF TrustInv, KeyOK
  <1>2. ASSUME NEW how \in {"ok", "missing", "configuration"}, End(p, how), UNCHANGED <<mem, edit, why>>,
               how = "ok" => op[p].do = "list"
        PROVE  TrustInv'
    <2>1. Goes(p, {"ended"}) /\ Answers(p, {how}) /\ result'[p] = how /\ Answers(p, Results)
      BY <1>2, Ended DEF Base, Answers
    <2> QED BY <1>0, <1>1, <1>2, <2>1, TrustMove
  <1>3. CASE /\ file.st = "absent" /\ edit' = [edit EXCEPT ![p] = Fresh(p)] /\ why' = [why EXCEPT ![p] = "create"]
             /\ pc' = [pc EXCEPT ![p] = "save"] /\ UNCHANGED <<mem, result, usb>>
    <2>1. Fresh(p) \in State /\ Fresh(p).host # Old /\ file.state.host # Old /\ file.state.trust = NoTrust
      <3>1. file.state = [host |-> Nobody, trust |-> NoTrust]
        BY <1>3 DEF TrustInv, FileOK, Absent
      <3>2. NoTrust \in [Phones -> 0..MaxKeys]
        BY ConnectAssumption DEF NoTrust, NoKey
      <3>3. Nobody # Old
        BY DEF Old, Nobody
      <3>4. p \in Hosts /\ p # Old
        BY ConnectAssumption DEF Hosts
      <3> QED BY <3>1, <3>2, <3>3, <3>4 DEF Fresh, State
    <2>2. Goes(p, {"save"})
      BY <1>3, Went DEF Base
    <2> QED BY <1>0, <1>1, <1>3, <2>1, <2>2, EditBegins DEF Base
  <1>4. CASE Readable /\ AfterLoad(p, file.state)
    <2>0. file.st = "ok" /\ file.state \in State
      BY <1>4 DEF Readable, TrustInv, TrustTypes
    <2>1. CASE op[p].do \in {"connect", "reset"}
      <3>1. pc' = [pc EXCEPT ![p] = "dial"] /\ mem' = [mem EXCEPT ![p] = file.state] /\ UNCHANGED <<edit, why, result, usb>>
        BY <1>4, <2>1 DEF AfterLoad
      <3>2. Goes(p, {"dial"})
        BY <3>1, Went DEF Base
      <3>3. TrustTypes' /\ mem'[p] = file.state /\ \A q \in Procs \ {p} : mem'[q] = mem[q]
        BY <1>0, <2>0, <3>1 DEF TrustInv, TrustTypes
      <3>4. (\A v \in Phones : IssuedOK(v)') /\ \A q \in Procs : SecretOK(q)'
        BY <1>0, <3>1, <3>2, <3>3 DEF TrustInv, IssuedOK, SecretOK, Unsaved, Goes
      <3>5. (\A q \in Procs : EditOK(q)') /\ FileOK'
        BY <1>0, <3>1, <3>2 DEF TrustInv, EditOK, FileOK, Editing, Goes
      <3>6. \A q \in Procs : KeyOK(q)'
        BY <1>0, <1>1, <3>1, <3>2, <3>3 DEF TrustInv, KeyOK, Goes, Rivals, derived_key
      <3> QED BY <3>3, <3>4, <3>5, <3>6 DEF TrustInv
    <2>2. CASE op[p].do = "list"
      BY <1>2, <1>4, <2>2 DEF AfterLoad
    <2>3. CASE op[p].do = "remove" /\ file.state.trust[op[p].to] = NoKey
      BY <1>2, <1>4, <2>3 DEF AfterLoad
    <2>4. CASE op[p].do = "remove" /\ file.state.trust[op[p].to] # NoKey
      <3> DEFINE e == [file.state EXCEPT !.trust[op[p].to] = NoKey]
      <3>1. /\ pc' = [pc EXCEPT ![p] = "save"] /\ edit' = [edit EXCEPT ![p] = e]
            /\ why' = [why EXCEPT ![p] = "remove"] /\ UNCHANGED <<mem, result, usb>>
        BY <1>4, <2>4 DEF AfterLoad
      <3>2. /\ e \in State /\ e.host = file.state.host /\ e.trust[op[p].to] = NoKey
            /\ \A v \in Phones \ {op[p].to} : e.trust[v] = file.state.trust[v]
        BY <1>0, <2>0, ConnectAssumption DEF State, OpOK, NoKey
      <3>3. Goes(p, {"save"})
        BY <3>1, Went DEF Base
      <3> HIDE DEF e
      <3> QED BY <1>0, <1>1, <2>0, <2>4, <3>1, <3>2, <3>3, EditBegins DEF Base
    <2> QED BY <1>0, <2>1, <2>2, <2>3, <2>4 DEF OpOK
  <1> QED BY <1>2, <1>3, <1>4 DEF load_or_create

\* The answer of the phone's user.
LEMMA Response02Keeps ==
    ASSUME Base, TrustInv, NEW p \in Procs, Response02(p)
    PROVE  TrustInv'
  <1> USE DEF Pcs, Results
  <1>0. /\ pc[p] = "trust" /\ op[p].do = "connect" /\ got[p] = NoKey /\ result[p] # "trust_failed"
        /\ UNCHANGED <<op, file, mem, edit, why, cleared, raced, broken>>
    BY DEF Response02, keepShake, storeVars, envVars, TrustInv, KeyOK
  <1>1. ASSUME NEW x \in {"info", "forget"}, pc' = [pc EXCEPT ![p] = x], UNCHANGED <<result, usb, trusts, issued, got>>
        PROVE  TrustInv'
    <2>1. Goes(p, {x}) /\ Answers(p, Results) /\ result'[p] = result[p] /\ Grows
      BY <1>0, <1>1, Went, Silent, GrowsSame DEF Base, Answers
    <2> QED BY <1>0, <1>1, <2>1, TrustMove
  <1>2. CASE TrustAlways(p) /\ got' = [got EXCEPT ![p] = issued[op[p].to] + 1] /\ pc' = [pc EXCEPT ![p] = "upsert"] /\ UNCHANGED <<result, usb>>
    BY <1>0, <1>2, Went, KeyIssued DEF Base
  <1>3. CASE End(p, "err") /\ (TrustAlways(p) \/ UNCHANGED <<trusts, issued>>) /\ UNCHANGED got
    <2>1. Goes(p, {"ended"}) /\ Answers(p, Results) /\ result'[p] = "err"
      BY <1>3, Ended DEF Base, Answers
    <2>2. Grows
      <3>1. CASE UNCHANGED <<trusts, issued>>
        BY <1>0, <3>1, GrowsSame
      <3>2. CASE TrustAlways(p)
        <4>1. /\ op[p].to \in Phones /\ issued \in Keys /\ issued[op[p].to] + 1 \in 0..MaxKeys
              /\ \A u \in Phones : issued[u] \in Nat
          BY <3>2, ConnectAssumption DEF TrustAlways, Base, PlaceInv, OpOK, TrustInv, TrustTypes, Keys
        <4>2. /\ issued' \in Keys /\ \A u \in Phones : issued[u] <= issued'[u]
          BY <3>2, <4>1 DEF TrustAlways, Keys
        <4>3. trusts' \in [Phones -> [Hosts -> 0..MaxKeys]]
          BY <3>2, <4>1 DEF TrustAlways, TrustInv, TrustTypes
        <4> QED BY <1>0, <4>2, <4>3 DEF Grows, TrustInv, TrustTypes
      <3> QED BY <1>3, <3>1, <3>2
    <2> QED BY <1>0, <1>3, <2>1, <2>2, TrustMove
  <1> QED BY <1>1, <1>2, <1>3 DEF Response02

\* The answer to TRUST_REMOVE.
LEMMA TrustRemoveAnsweredKeeps ==
    ASSUME Base, TrustInv, NEW p \in Procs, TrustRemoveAnswered(p)
    PROVE  TrustInv'
  <1> USE DEF Pcs, Results
  <1>0. /\ pc[p] = "trust" /\ op[p].do = "reset" /\ got[p] = NoKey /\ result[p] # "trust_failed"
        /\ UNCHANGED <<op, file, mem, edit, why, issued, got, raced, broken, result>> /\ op[p].to \in Phones
    BY DEF TrustRemoveAnswered, read_normal_direct_fails, keepShake, storeVars, envVars, TrustInv, KeyOK, Base, PlaceInv, OpOK
  <1>1. Grows /\ (TrustRemove(p) => op[p].to \in cleared'[p])
    <2>1. CASE UNCHANGED <<trusts, cleared>> /\ ~TrustRemove(p)
      BY <1>0, <2>1, GrowsSame
    <2>2. CASE TrustRemove(p)
      <3>1. /\ cleared' \in [Procs -> SUBSET Phones] /\ \A q \in Procs : cleared[q] \subseteq cleared'[q]
            /\ op[p].to \in cleared'[p]
        BY <1>0, <2>2 DEF TrustRemove, TrustInv, TrustTypes
      <3>2. trusts' \in [Phones -> [Hosts -> 0..MaxKeys]]
        BY <1>0, <2>2, ConnectAssumption DEF TrustRemove, TrustInv, TrustTypes, NoKey
      <3>3. \A u \in Phones : issued[u] \in Nat
        BY ConnectAssumption DEF TrustInv, TrustTypes, Keys
      <3> QED BY <1>0, <3>1, <3>2, <3>3 DEF Grows, TrustInv, TrustTypes
    <2> QED BY <2>1, <2>2 DEF TrustRemoveAnswered
  <1>2. Answers(p, Results) /\ result'[p] = result[p]
    BY <1>0, Silent DEF Base, Answers
  <1>3. op[p].do = "reset" /\ result'[p] = "ok" => op[p].expect \in cleared'[p]
    BY <1>0, <1>1, <1>2 DEF TrustInv, KeyOK, Grows
  <1>4. CASE TrustRemove(p) /\ pc' = [pc EXCEPT ![p] = "compare"]
    <2>1. Goes(p, {"compare"})
      BY <1>4, Went DEF Base
    <2> QED BY <1>0, <1>1, <1>2, <1>3, <1>4, <2>1, TrustMove
  <1>5. CASE pc' = [pc EXCEPT ![p] = "drop"]
    <2>1. Goes(p, {"drop"})
      BY <1>5, Went DEF Base
    <2> QED BY <1>0, <1>1, <1>2, <1>3, <1>5, <2>1, TrustMove
  <1> QED BY <1>4, <1>5 DEF TrustRemoveAnswered, read_normal_direct_fails

\* A save that fails leaves the file as it is, or truncated.
LEMMA SaveFailsKeeps ==
    ASSUME Base, TrustInv, NEW p \in Procs, SaveFails(p)
    PROVE  TrustInv'
  <1> USE DEF Pcs, Results
  <1>0. /\ pc[p] \in {"save", "write"} /\ broken' = TRUE /\ AfterSave(p, FALSE)
        /\ UNCHANGED <<op, file, raced, trusts, issued, got, cleared>> /\ why[p] \in {"create", "upsert", "forget", "remove"}
        /\ result[p] # "trust_failed" /\ (got[p] # NoKey => why[p] = "upsert")
    BY DEF SaveFails, phoneVars, TrustInv, TrustTypes, KeyOK
  <1>1. Grows
    <2>1. \A u \in Phones : issued[u] \in Nat
      BY ConnectAssumption DEF TrustInv, TrustTypes, Keys
    <2> QED BY <1>0, <2>1 DEF Grows, TrustInv, TrustTypes
  <1>2. CASE why[p] = "upsert"
    <2>1. pc' = [pc EXCEPT ![p] = "drop"] /\ UNCHANGED <<mem, edit, why, result, usb>>
      BY <1>0, <1>2 DEF AfterSave
    <2>2. Goes(p, {"drop"}) /\ Answers(p, Results) /\ result'[p] = result[p]
      BY <2>1, Went, Silent DEF Base, Answers
    <2>3. op[p].do = "reset" /\ result'[p] = "ok" => op[p].expect \in cleared'[p]
      BY <1>0, <2>2 DEF TrustInv, KeyOK
    <2> QED BY <1>0, <1>1, <2>1, <2>2, <2>3, TrustMove
  <1>3. CASE why[p] # "upsert"
    <2>1. PICK how \in {"configuration", "trust_failed"} : End(p, how) /\ UNCHANGED <<mem, edit, why>>
      BY <1>0, <1>3 DEF AfterSave
    <2>2. Goes(p, {"ended"}) /\ Answers(p, Results) /\ result'[p] = how
      BY <2>1, Ended DEF Base, Answers
    <2> QED BY <1>0, <1>1, <1>3, <2>1, <2>2, TrustMove
  <1> QED BY <1>2, <1>3

\* A process is killed, perhaps while it writes the file.
LEMMA CrashKeepsTrust ==
    ASSUME Base, TrustInv, NEW p \in Procs, Crash(p)
    PROVE  TrustInv'
  <1>0. /\ pc[p] # "ended" /\ Goes(p, {"crashed"}) /\ Answers(p, {result[p]}) /\ broken' = (broken \/ pc[p] = "write")
        /\ UNCHANGED <<op, file, mem, edit, why, raced, trusts, issued, got, cleared, result>>
    BY CrashKeeps DEF Crash, phoneVars
  <1>1. Grows
    <2>1. \A u \in Phones : issued[u] \in Nat
      BY ConnectAssumption DEF TrustInv, TrustTypes, Keys
    <2> QED BY <1>0, <2>1 DEF Grows, TrustInv, TrustTypes
  <1>2. Answers(p, Results) /\ result'[p] = result[p] /\ result[p] # "trust_failed"
    BY <1>0 DEF Answers, Base, PlaceInv, TrustInv, KeyOK
  <1>3. op[p].do = "reset" /\ result'[p] = "ok" => op[p].expect \in cleared'[p]
    BY <1>0 DEF TrustInv, KeyOK
  <1> QED BY <1>0, <1>1, <1>2, <1>3, TrustMove

\* Where a call can be before it has a key.
LEMMA NoKeyYet ==
    ASSUME TrustInv, NEW p \in Procs,
           pc[p] \in {"start", "dial", "before", "forward", "sweep", "tcp", "handshake", "hello", "trust",
                      "compare", "claim", "browse", "usb"}
    PROVE  got[p] = NoKey
  BY DEF TrustInv, KeyOK

\* The steps of the transports and handshakes that concern neither the file nor a key.
LEMMA TransportKeepsTrust ==
    ASSUME Base, TrustInv, NEW p \in Procs,
           \/ AdbSelects(p) \/ AdbConnects(p) \/ close(p) \/ AdbRawKeyExchange(p) \/ WifiConnects(p)
           \/ Request02(p) \/ trust_timeout(p) \/ fetch_device_info(p) \/ UsbSelects(p)
    PROVE  TrustInv'
  <1> USE DEF Pcs
  <1>1. ASSUME NEW Xs, Goes(p, Xs), UNCHANGED <<op, storeVars, phoneVars>>,
               Answers(p, {result[p], "err"}), pc[p] \in {"dial", "tcp", "handshake", "hello", "trust"},
               Xs \cap {"save", "write", "upsert", "forget", "compare"} = {}
        PROVE  TrustInv'
    <2>1. Answers(p, {result[p], "err", "closed", "missing", "configuration", "mismatch"})
      BY <1>1 DEF Answers
    <2> QED BY <1>1, <2>1, NoKeyYet, TrustPlain
  <1>2. ASSUME UNCHANGED result PROVE Answers(p, {result[p], "err"})
    BY <1>2, Silent DEF Base, Answers
  <1>3. ASSUME End(p, "err") PROVE Answers(p, {result[p], "err"})
    BY <1>3, Ended DEF Base, Answers, Results
  <1>4. CASE AdbSelects(p)
    <2>1. Goes(p, {"before", "ended"}) /\ pc[p] = "dial"
      BY <1>4, AdbSelectsWalks DEF Moves
    <2>2. Answers(p, {result[p], "err"})
      BY <1>2, <1>3, <1>4 DEF AdbSelects, run_adb_fails
    <2> QED BY <1>1, <1>4, <2>1, <2>2 DEF AdbSelects, keepAdb, envVars
  <1>5. CASE AdbConnects(p)
    <2>1. Goes(p, {"handshake", "drop"}) /\ pc[p] = "tcp"
      BY <1>5, AdbConnectsWalks DEF Moves
    <2>2. Answers(p, {result[p], "err"})
      BY <1>2, <1>5 DEF AdbConnects
    <2> QED BY <1>1, <1>5, <2>1, <2>2 DEF AdbConnects, keepAdb, envVars
  <1>6. CASE close(p)
    <2>1. Goes(p, {"cleanup"}) /\ pc[p] = "ready" /\ UNCHANGED <<op, storeVars, phoneVars>>
      BY <1>6, closeWalks DEF Moves, close, keepAdb, envVars
    <2>2. Answers(p, {result[p], "err", "closed", "missing", "configuration", "mismatch"})
      BY <1>2, <1>6 DEF close, Answers
    <2> QED BY <2>1, <2>2, TrustPlain
  <1>7. CASE AdbRawKeyExchange(p)
    <2>1. Goes(p, {"info", "drop"}) /\ pc[p] = "handshake"
      BY <1>7, AdbRawKeyExchangeWalks DEF Moves
    <2>2. Answers(p, {result[p], "err"})
      BY <1>2, <1>7 DEF AdbRawKeyExchange, read_normal_direct_fails
    <2> QED BY <1>1, <1>7, <2>1, <2>2 DEF AdbRawKeyExchange, keepShake, envVars
  <1>8. CASE WifiConnects(p)
    <2>1. Goes(p, {"hello", "ended"}) /\ pc[p] = "dial"
      BY <1>8, WifiConnectsWalks DEF Moves
    <2>2. Answers(p, {result[p], "err"})
      BY <1>2, <1>3, <1>8 DEF WifiConnects
    <2> QED BY <1>1, <1>8, <2>1, <2>2 DEF WifiConnects, keepShake, envVars
  <1>9. CASE Request02(p)
    <2>1. Goes(p, {"trust", "drop"}) /\ pc[p] = "hello"
      BY <1>9, Request02Walks DEF Moves
    <2>2. Answers(p, {result[p], "err"})
      BY <1>2, <1>9 DEF Request02, read_normal_direct_fails
    <2> QED BY <1>1, <1>9, <2>1, <2>2 DEF Request02, keepShake, envVars
  <1>10. CASE trust_timeout(p)
    <2>1. Goes(p, {"ended"}) /\ pc[p] = "trust"
      BY <1>10, trust_timeoutWalks DEF Moves
    <2>2. Answers(p, {result[p], "err"})
      BY <1>3, <1>10 DEF trust_timeout
    <2> QED BY <1>1, <1>10, <2>1, <2>2 DEF trust_timeout, keepShake, envVars
  <1>11. CASE fetch_device_info(p)
    <2>1. Goes(p, {"ready", "drop"}) /\ pc[p] = "info" /\ UNCHANGED <<op, storeVars, phoneVars>>
      BY <1>11, fetch_device_infoWalks DEF Moves, fetch_device_info, keepShake, envVars
    <2>2. Answers(p, {result[p], "err", "closed", "missing", "configuration", "mismatch"})
      BY <1>2, <1>11 DEF fetch_device_info, Answers
    <2> QED BY <2>1, <2>2, TrustPlain
  <1>12. CASE UsbSelects(p)
    <2>1. Goes(p, {"claim", "dial", "ended"}) /\ pc[p] = "dial"
      BY <1>12, UsbSelectsWalks DEF Moves
    <2>2. Answers(p, {result[p], "err"})
      BY <1>2, <1>3, <1>12 DEF UsbSelects, UsbFails
    <2> QED BY <1>1, <1>12, <2>1, <2>2 DEF UsbSelects, keepUsb
  <1> QED BY <1>4, <1>5, <1>6, <1>7, <1>8, <1>9, <1>10, <1>11, <1>12

\* The steps that move a forward, claim the interface or sweep.
LEMMA ForwardKeepsTrust ==
    ASSUME Base, TrustInv, NEW p \in Procs,
           \/ UsbClaims(p) \/ AdbListsForwards(p) \/ AdbForwards(p) \/ cleanup_new_forwards(p)
           \/ DropForward(p) \/ cleanup(p) \/ SweepAdb(p) \/ BrowseEnds(p) \/ SweepUsb(p)
    PROVE  TrustInv'
  <1> USE DEF Pcs
  <1>0. UNCHANGED <<op, storeVars, phoneVars>>
    BY DEF UsbClaims, AdbListsForwards, AdbForwards, cleanup_new_forwards, DropForward, cleanup,
           SweepAdb, BrowseEnds, SweepUsb, keepUsb, keepAdb, keepSweep, envVars
  <1>1. ASSUME NEW Xs, Goes(p, Xs), Answers(p, {result[p], "err"}) \/ Answers(p, {"closed", "err"}) \/ Answers(p, {result[p]}),
               pc[p] \in {"start", "before", "forward", "sweep", "claim", "browse", "drop", "cleanup"},
               Xs \cap {"save", "write", "upsert", "forget", "compare"} = {},
               pc[p] \in {"drop", "cleanup"} => Xs \subseteq {"drop", "ended"}
        PROVE  TrustInv'
    <2>1. Answers(p, {result[p], "err", "closed", "missing", "configuration", "mismatch"})
      BY <1>1 DEF Answers
    <2>2. got[p] = NoKey \/ Xs \subseteq {"cleanup", "drop", "ended", "crashed"}
      BY <1>1, NoKeyYet
    <2> QED BY <1>0, <1>1, <2>1, <2>2, TrustPlain
  <1>2. CASE UsbClaims(p)
    BY <1>1, <1>2, UsbClaimsKeeps
  <1>3. CASE AdbListsForwards(p)
    BY <1>1, <1>3, AdbListsForwardsKeeps
  <1>4. CASE AdbForwards(p)
    BY <1>1, <1>4, AdbForwardsKeeps
  <1>5. CASE cleanup_new_forwards(p)
    BY <1>1, <1>5, cleanup_new_forwardsKeeps
  <1>6. CASE DropForward(p)
    BY <1>1, <1>6, DropForwardKeeps
  <1>7. CASE cleanup(p)
    BY <1>1, <1>7, cleanupKeeps
  <1>8. CASE SweepAdb(p)
    BY <1>1, <1>8, SweepAdbKeeps
  <1>9. CASE BrowseEnds(p)
    BY <1>1, <1>9, BrowseEndsKeeps
  <1>10. CASE SweepUsb(p)
    <2>1. pc[p] = "usb" /\ Goes(p, {"ended"}) /\ Answers(p, {"ok"}) /\ op[p].do # "reset"
      BY <1>10, SweepUsbKeeps
    <2> QED BY <1>0, <2>1, TrustPlain
  <1> QED BY <1>2, <1>3, <1>4, <1>5, <1>6, <1>7, <1>8, <1>9, <1>10

\* reset_wifi_trust succeeds for the phone that was cleared.
LEMMA reset_wifi_trustKeeps ==
    ASSUME Base, TrustInv, NEW p \in Procs, reset_wifi_trust(p)
    PROVE  TrustInv'
  <1> USE DEF Pcs, Results
  <1>1. /\ pc[p] = "compare" /\ Goes(p, {"ended"}) /\ op[p].to \in cleared[p] /\ got[p] = NoKey
        /\ UNCHANGED <<op, file, mem, edit, why, got, trusts, issued, cleared, raced, broken>>
    BY reset_wifi_trustWalks, NoKeyYet DEF Moves, reset_wifi_trust, keepShake, envVars, storeVars, phoneVars, TrustInv, KeyOK
  <1>2. Grows
    BY <1>1, GrowsSame
  <1>3. PICK how \in {"ok", "mismatch", "err"} : End(p, how) /\ (how = "ok" => op[p].to = op[p].expect)
    BY DEF reset_wifi_trust
  <1>4. Answers(p, Results) /\ result'[p] = how
    BY <1>3, Ended DEF Base, Answers
  <1> QED BY <1>1, <1>2, <1>3, <1>4, TrustMove

\* The phones: a user revokes the trust, a cable is pulled or plugged in.
LEMMA PhoneKeepsTrust ==
    ASSUME Base, TrustInv, NEW u \in Phones, Revoke(u) \/ Unplug(u) \/ Plug(u)
    PROVE  TrustInv'
  <1>1. UNCHANGED <<pc, result, op, file, mem, edit, why, raced, broken, got, issued, cleared>>
    BY DEF Revoke, Unplug, Plug, storeVars, phoneVars
  <1>2. \A v \in Phones : issued[v] \in Nat
    BY ConnectAssumption DEF TrustInv, TrustTypes, Keys
  <1>3. trusts' \in [Phones -> [Hosts -> 0..MaxKeys]]
    <2>1. trusts \in [Phones -> [Hosts -> 0..MaxKeys]] /\ NoKey \in 0..MaxKeys
      BY ConnectAssumption DEF TrustInv, TrustTypes, NoKey
    <2>2. CASE Revoke(u)
      <3>1. PICK h \in Hosts : trusts' = [trusts EXCEPT ![u][h] = NoKey]
        BY <2>2 DEF Revoke
      <3> QED BY <2>1, <3>1
    <2>3. CASE Unplug(u) \/ Plug(u)
      BY <2>1, <2>3 DEF Unplug, Plug, phoneVars
    <2> QED BY <2>2, <2>3
  <1>4. Grows
    BY <1>1, <1>2, <1>3 DEF Grows, TrustInv, TrustTypes
  <1> QED BY <1>1, <1>4, TrustSame

\* A step that leaves the calls, the file and the phones alone.
LEMMA BystanderKeepsTrust ==
    ASSUME TrustInv, UNCHANGED <<pc, result, storeVars, phoneVars, op>>
    PROVE  TrustInv'
  BY GrowsSame, TrustSame DEF storeVars, phoneVars

-----------------------------------------------------------------------------
(***************************************************************************)
(* The inductive invariant.                                                *)
(***************************************************************************)
\* The scenarios begin in states that satisfy the invariant.
LEMMA InitInv == Init => IndInv
  <1> SUFFICES ASSUME Init PROVE IndInv
    OBVIOUS
  <1>0. /\ StoreOK(file) /\ \A p \in Procs : OpOK(op[p])
    BY ConnectAssumption DEF Init
  <1>1. PlaceInv
    BY <1>0 DEF Init, PlaceInv, Pcs, Results
  <1>2. UsbInv
    BY FreshStream DEF Init, UsbInv
  <1>3. SweepInv
    <2>1. \A p \in Procs : /\ found[p] \in Finds /\ found[p].devices = {} /\ found[p].heard = {} /\ found[p].asked = {}
                           /\ pc[p] = "start" /\ result[p] = "none"
      BY DEF Init, Finds
    <2>2. found \in [Procs -> Finds]
      BY <2>1 DEF Init
    <2> QED BY <2>1, <2>2 DEF SweepInv, SweepOK, AskedBy
  <1>4. FwdInv
    <2>1. {f.port : f \in fwd} = {} /\ fwd = {}
      BY DEF Init
    <2> QED BY <2>1, FS_EmptySet DEF Init, FwdInv, OwnOK
  <1>5. TrustInv
    <2>1. NoTrust \in Keys /\ (\A u \in Phones : NoTrust[u] = NoKey) /\ NoKey \in 0..MaxKeys
      BY ConnectAssumption DEF NoTrust, NoKey, Keys
    <2>2. file.st \in {"absent", "ok"} /\ file.state.trust \in Keys /\ file.state.host \in Hosts \cup {Nobody}
      BY <1>0, <2>1 DEF StoreOK, Absent, Hosts, Keys
    <2>3. /\ file \in [st : {"absent", "empty", "torn", "ok"}, state : [host : Hosts \cup {Nobody}, trust : Keys]]
          /\ file.st = "ok" => file.state \in State
          /\ file.st = "absent" => file.state = Absent.state
      BY <1>0, <2>1 DEF StoreOK, Absent, Hosts, Keys, State
    <2>4. \A p \in Procs : Fresh(p) \in State /\ Fresh(p).trust = NoTrust
      BY <2>1 DEF Fresh, State, Hosts, Keys
    <2>5. mem \in [Procs -> State] /\ edit = mem /\ \A p \in Procs : mem[p].trust = NoTrust
      BY <2>4 DEF Init
    <2>6. trusts \in [Phones -> [Hosts -> 0..MaxKeys]] /\ issued \in Keys /\ \A u \in Phones : issued[u] = file.state.trust[u]
      BY <2>1, <2>2 DEF Init, Keys
    <2>7. TrustTypes
      BY <2>1, <2>3, <2>5, <2>6 DEF TrustTypes, Init
    <2>8. /\ raced = FALSE /\ broken = FALSE
          /\ \A p \in Procs : pc[p] = "start" /\ result[p] = "none" /\ got[p] = NoKey
      BY DEF Init
    <2>9. FileOK /\ \A p \in Procs : SecretOK(p) /\ EditOK(p) /\ KeyOK(p)
      BY <2>2, <2>3, <2>8 DEF FileOK, SecretOK, Unsaved, EditOK, KeyOK
    <2>10. ASSUME NEW u \in Phones PROVE IssuedOK(u)
      <3>1. issued[u] \in Nat /\ file.state.trust[u] = issued[u] /\ NoKey <= issued[u]
        BY <2>2, <2>6, ConnectAssumption DEF Keys, NoKey
      <3> QED BY <2>1, <2>5, <2>8, <3>1 DEF IssuedOK
    <2> QED BY <2>7, <2>9, <2>10 DEF TrustInv
  <1> QED BY <1>1, <1>2, <1>3, <1>4, <1>5 DEF IndInv

\* The steps of a call leave the streams, the sweep and the forwards in order.
LEMMA StepBase ==
    ASSUME Base, TrustTypes, NEW p \in Procs, Step(p) \/ Answer(p) \/ close(p)
    PROVE  Base'
  <1>1. ASSUME Walk(p) PROVE Base'
    BY <1>1, WalkKeeps DEF Base
  <1>2. CASE load_or_create(p) \/ SaveOpens(p) \/ SaveWrites(p) \/ SaveFails(p) \/ LoadForEdit(p)
    BY <1>1, <1>2, load_or_createWalks, SaveOpensWalks, SaveWritesWalks, SaveFailsWalks, LoadForEditWalks
  <1>3. CASE AdbSelects(p) \/ AdbConnects(p) \/ close(p) \/ AdbRawKeyExchange(p) \/ WifiConnects(p)
    BY <1>1, <1>3, AdbSelectsWalks, AdbConnectsWalks, closeWalks, AdbRawKeyExchangeWalks, WifiConnectsWalks
  <1>4. CASE Request02(p) \/ trust_timeout(p) \/ reset_wifi_trust(p) \/ fetch_device_info(p) \/ UsbSelects(p)
    BY <1>1, <1>4, Request02Walks, trust_timeoutWalks, reset_wifi_trustWalks, fetch_device_infoWalks, UsbSelectsWalks
  <1>5. CASE Answer(p)
    BY <1>1, <1>5, Response02Walks, TrustRemoveAnsweredWalks DEF Answer
  <1>6. CASE UsbClaims(p) \/ AdbListsForwards(p) \/ AdbForwards(p) \/ cleanup_new_forwards(p) \/ DropForward(p) \/ cleanup(p)
    BY <1>6, UsbClaimsKeeps, AdbListsForwardsKeeps, AdbForwardsKeeps, cleanup_new_forwardsKeeps, DropForwardKeeps, cleanupKeeps
  <1>7. CASE SweepAdb(p) \/ BrowseEnds(p) \/ SweepUsb(p)
    BY <1>7, SweepAdbKeeps, BrowseEndsKeeps, SweepUsbKeeps
  <1> QED BY <1>2, <1>3, <1>4, <1>5, <1>6, <1>7 DEF Step

\* They keep the file and the keys as they should be, too.
LEMMA StepTrust ==
    ASSUME Base, TrustInv, NEW p \in Procs, Step(p) \/ Answer(p) \/ close(p)
    PROVE  TrustInv'
  <1>1. CASE load_or_create(p) \/ SaveOpens(p) \/ SaveWrites(p) \/ SaveFails(p) \/ LoadForEdit(p)
    BY <1>1, load_or_createKeeps, SaveOpensKeeps, SaveWritesKeeps, SaveFailsKeeps, LoadForEditKeeps
  <1>2. CASE \/ AdbSelects(p) \/ AdbConnects(p) \/ close(p) \/ AdbRawKeyExchange(p) \/ WifiConnects(p)
             \/ Request02(p) \/ trust_timeout(p) \/ fetch_device_info(p) \/ UsbSelects(p)
    BY <1>2, TransportKeepsTrust
  <1>3. CASE reset_wifi_trust(p) \/ Answer(p)
    BY <1>3, reset_wifi_trustKeeps, Response02Keeps, TrustRemoveAnsweredKeeps DEF Answer
  <1>4. CASE \/ UsbClaims(p) \/ AdbListsForwards(p) \/ AdbForwards(p) \/ cleanup_new_forwards(p)
             \/ DropForward(p) \/ cleanup(p) \/ SweepAdb(p) \/ BrowseEnds(p) \/ SweepUsb(p)
    BY <1>4, ForwardKeepsTrust
  <1> QED BY <1>1, <1>2, <1>3, <1>4 DEF Step

\* Every step keeps the invariant.
LEMMA NextInv == IndInv /\ [Next]_vars => IndInv'
  <1> SUFFICES ASSUME IndInv, [Next]_vars PROVE IndInv'
    OBVIOUS
  <1>0. Base /\ TrustInv /\ TrustTypes
    BY DEF IndInv, Base, TrustInv
  <1>1. ASSUME Base', TrustInv' PROVE IndInv'
    BY <1>1 DEF IndInv, Base
  <1>2. CASE UNCHANGED vars
    <2>1. /\ UNCHANGED <<op, pc, result, file, mem, edit, why, trusts, issued, got, cleared, raced, broken>>
          /\ UNCHANGED <<fwd, before, held, blind, stole, online, usb, found>>
      BY <1>2 DEF vars
    <2>2. PlaceInv' /\ UsbInv'
      BY <2>1 DEF IndInv, PlaceInv, UsbInv
    <2>3. SweepInv'
      BY <2>1 DEF IndInv, SweepInv, SweepOK, AskedBy
    <2>4. FwdInv'
      BY <2>1 DEF IndInv, FwdInv, OwnOK, Seen
    <2>5. TrustInv'
      BY <1>0, <2>1, BystanderKeepsTrust DEF storeVars, phoneVars
    <2> QED BY <2>2, <2>3, <2>4, <2>5 DEF IndInv
  <1>3. ASSUME NEW p \in Procs, Step(p) \/ Answer(p) \/ close(p) PROVE IndInv'
    BY <1>0, <1>1, <1>3, StepBase, StepTrust
  <1>4. ASSUME NEW p \in Procs, Reader(p) \/ poll_read(p) \/ WifiResolved(p) PROVE IndInv'
    BY <1>0, <1>1, <1>4, StreamStepsKeep, WifiResolvedKeeps, BystanderKeepsTrust
  <1>5. ASSUME NEW p \in Procs, Crash(p) PROVE IndInv'
    BY <1>0, <1>1, <1>5, CrashKeeps, CrashKeepsTrust
  <1>6. ASSUME NEW u \in Phones, Revoke(u) \/ Unplug(u) \/ Plug(u) PROVE IndInv'
    BY <1>0, <1>1, <1>6, PhoneStepsKeep, PhoneKeepsTrust
  <1> QED BY <1>2, <1>3, <1>4, <1>5, <1>6 DEF Next

\* The inductive invariant holds in every state of every behaviour: the streams
\* are in order, the sweeps accounted for, the forwards in sight of their owners,
\* and the file, the edits and the keys consistent (Connect as a whole).
THEOREM ConnectInvariant == Spec => []IndInv
  BY InitInv, NextInv, PTL DEF Spec

\* UsbStream::poll_read delivers the bytes in the order in which the phone sent
\* them, none of them twice, whatever the sizes of the reads and of the channel.
THEOREM UsbIsInOrder == Spec => []UsbInOrder
  <1>1. IndInv => UsbInOrder
    <2> SUFFICES ASSUME IndInv, NEW p \in Procs, NEW i \in 1..(Len(usb[p].bytes) - 1)
                 PROVE  usb[p].bytes[i] < usb[p].bytes[i + 1]
      BY DEF UsbInOrder
    <2>1. usb[p].bytes \in Seq(Nat) /\ Increasing(usb[p].bytes)
      BY DEF IndInv, UsbInv, StreamOK, Streams
    <2>2. i \in DOMAIN usb[p].bytes /\ i + 1 \in DOMAIN usb[p].bytes /\ i < i + 1
      BY <2>1
    <2> QED BY <2>1, <2>2 DEF Increasing
  <1> QED BY <1>1, ConnectInvariant, PTL

\* discover_devices: a sweep that returned asked every transport it was to ask,
\* and reports every device that any of them named.
THEOREM SweepsAreComplete == Spec => []SweepComplete
  <1>1. IndInv => SweepComplete
    BY DEF IndInv, SweepInv, SweepOK, SweepComplete
  <1> QED BY <1>1, ConnectInvariant, PTL

\* AdbForward: however many callers share the ADB server, a call that is over
\* left no forward behind unless it lost sight of it, and only a caller that lost
\* sight of its own forward ever removes that of another.
THEOREM ForwardsAreOwned == Spec => []ForwardsOwned
  <1>1. IndInv => ForwardsOwned
    <2> SUFFICES ASSUME IndInv PROVE ForwardsOwned
      OBVIOUS
    <2>1. ASSUME NEW f \in fwd, pc[f.of] = "ended" PROVE f.of \in blind
      <3>1. f.of \in Procs /\ f.port # 0 /\ (f.of \notin blind => Seen(f)) /\ OwnOK(f.of)
        BY ConnectAssumption DEF IndInv, FwdInv
      <3> QED BY <2>1, <3>1 DEF Seen, OwnOK, HeldPcs
    <2> QED BY <2>1 DEF ForwardsOwned, ForwardsRemoved, OthersForwardsKept, IndInv, FwdInv
  <1> QED BY <1>1, ConnectInvariant, PTL

\* The state of StateStore that a step leaves behind has the identity it found.
LEMMA StepKeepsIdentity ==
    ASSUME IndInv, [Next]_vars, file.state.host = Old
    PROVE  file'.state.host = Old
  <1>1. CASE file' = file
    BY <1>1
  <1>2. ASSUME NEW p \in Procs, SaveOpens(p) PROVE file'.state.host = Old
    BY <1>2 DEF SaveOpens, IndInv, TrustInv, TrustTypes
  <1>3. ASSUME NEW p \in Procs, SaveWrites(p) PROVE file'.state.host = Old
    <2>1. pc[p] = "write" /\ edit[p].host = Old
      BY <1>3 DEF SaveWrites, IndInv, TrustInv, EditOK
    <2> QED BY <1>3, <2>1 DEF SaveWrites, IndInv, TrustInv, TrustTypes
  <1>4. CASE UNCHANGED vars
    BY <1>4 DEF vars
  <1>5. ASSUME NEW p \in Procs, Step(p), ~SaveOpens(p), ~SaveWrites(p) PROVE file' = file
    BY <1>5, Zenon DEF Step, load_or_create, SaveFails, LoadForEdit, AdbSelects, AdbListsForwards, AdbForwards,
                cleanup_new_forwards, AdbConnects, DropForward, cleanup, AdbRawKeyExchange, WifiConnects, Request02,
                trust_timeout, reset_wifi_trust, fetch_device_info, UsbSelects, UsbClaims, SweepAdb, BrowseEnds,
                SweepUsb, keepAdb, keepShake, keepUsb, keepSweep, storeVars
  <1>6. ASSUME NEW p \in Procs, Answer(p) \/ Reader(p) \/ close(p) \/ poll_read(p) \/ WifiResolved(p) \/ Crash(p)
        PROVE  file' = file
    BY <1>6, Zenon DEF Answer, Response02, TrustRemoveAnswered, Reader, ReaderGetsChunk, ReaderTimesOut, ReaderFails,
                ReaderExits, close, poll_read, WifiResolved, Crash, keepStream, keepAdb, keepShake, keepUsb,
                keepSweep, storeVars
  <1>7. ASSUME NEW u \in Phones, Revoke(u) \/ Unplug(u) \/ Plug(u) PROVE file' = file
    BY <1>7 DEF Revoke, Unplug, Plug, storeVars
  <1> QED BY <1>1, <1>2, <1>3, <1>4, <1>5, <1>6, <1>7 DEF Next

\* What the invariant says of the state file and of the trust operations.
LEMMA TrustParts == IndInv => TypeOK /\ StoreReadable /\ KeysNotLost /\ StaleKeyDropped /\ ResetClears
  <1> SUFFICES ASSUME IndInv PROVE TypeOK /\ StoreReadable /\ KeysNotLost /\ StaleKeyDropped /\ ResetClears
    OBVIOUS
  <1>1. TypeOK
    <2>1. \A p \in Procs : Len(usb[p].q) <= QueueCap /\ usb[p].reader \in {"off", "run", "exit"}
      BY DEF IndInv, UsbInv, StreamOK, Streams
    <2>2. /\ held \in [Procs -> Ports \cup {0}] /\ blind \subseteq Procs /\ stole \subseteq Procs
      BY DEF IndInv, FwdInv
    <2> QED BY <2>1, <2>2 DEF IndInv, TrustInv, TrustTypes, TypeOK, Keys
  <1>2. StoreReadable
    BY DEF IndInv, TrustInv, FileOK, StoreReadable
  <1>3. KeysNotLost
    <2> SUFFICES ASSUME NEW p \in Procs, got[p] # NoKey, pc[p] \in {"info", "ready"}, ~raced,
                        file.state.trust[op[p].to] # got[p]
                 PROVE  \E q \in Procs \ {p} : op[q].do \in {"connect", "remove"} /\ op[q].to = op[p].to
      BY DEF KeysNotLost
    <2>1. Rivals(p) # {}
      BY DEF IndInv, TrustInv, KeyOK
    <2> QED BY <2>1 DEF Rivals
  <1>4. StaleKeyDropped /\ ResetClears
    BY DEF IndInv, TrustInv, KeyOK, StaleKeyDropped, ResetClears
  <1> QED BY <1>1, <1>2, <1>3, <1>4

\* StateStore and the trust operations: the file is readable whenever no save is
\* under way, no saved key is lost, a stale one is dropped, a reset that succeeds
\* cleared the phone it was meant for, and the host never changes its identity,
\* but for the crashes and overlapping edits that each part names.
THEOREM TrustIsKept == Spec => TrustKept
  <1>1. IndInv /\ [Next]_vars => (file.state.host = Old => file'.state.host = Old)
    BY StepKeepsIdentity
  <1> QED BY <1>1, TrustParts, ConnectInvariant, PTL DEF Spec, TrustKept, IdentityKept
=============================================================================
