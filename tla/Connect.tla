------------------------------ MODULE Connect ------------------------------
(***************************************************************************)
(* Connecting to a phone: HandShakerClient::connect_with_state over ADB,   *)
(* WiFi or USB, the WiFi trust handshake, the state file that keeps the    *)
(* host's identity and the trust records, the trust operations of the      *)
(* runtime, and the discovery sweep.                                       *)
(*                                                                         *)
(* A process p of Procs is one call of the runtime or one run of the       *)
(* command line client; all of them share the state file, the ADB server   *)
(* and the phones.  What each one does is its record in `op':              *)
(*   [do |-> "connect", by |-> "Adb" | "Wifi" | "Usb", to |-> a phone]     *)
(*   [do |-> "reset", by |-> "Wifi", to |-> the phone that answers at the  *)
(*                    endpoint, expect |-> the phone the caller means]     *)
(*   [do |-> "remove", to |-> a phone], [do |-> "list"],                   *)
(*   [do |-> "discover", include |-> transports].                          *)
(***************************************************************************)
EXTENDS Naturals, Sequences, FiniteSets

CONSTANTS Procs,        \* the concurrent callers
          Phones,       \* the phones, each standing for its device uuid
          Scenarios,    \* what the callers do, and the state file they start from
          Ports,        \* the local ports adb can hand out
          UsbInterfaces,\* the vendor interfaces of the gadget, in order
          QueueCap,     \* capacity of the USB stream's channel (128)
          MaxChunks,    \* bulk reads of a USB stream
          MaxKeys,      \* trust keys a phone issues
          MaxFaults     \* crashes, revocations on a phone and unplugged cables

NoKey == 0
Old == "old host"       \* the host identity of a state file that existed
Hosts == Procs \cup {Old}
Transports == {"Adb", "Wifi", "Usb"}

VARIABLES op,           \* what each process does
          pc,           \* where it is
          result,       \* how it ended
          file,         \* the state file
          mem,          \* the State a process loaded when it began
          edit,         \* the State a process is about to save
          why,          \* what it saves it for
          trusts,       \* the phones' side: the key each accepts from each host
          issued,       \* the number of keys each phone has issued
          got,          \* the derived key the handshake brought
          fwd,          \* the forwards of the ADB server
          before,       \* the forwards a process saw before it added its own
          held,         \* the local port its AdbForward guards (0: none)
          online,       \* the phones plugged in
          accessory,    \* the phones in accessory mode
          attempt,      \* USB attempts made
          usb,          \* the UsbStream of each process
          found,        \* what a discovery sweep collected, and what it was told
          faults,       \* faults so far
          raced,        \* history: two edits of the state file overlapped
          broken,       \* history: a save failed or was cut short
          blind,        \* history: processes that lost sight of a forward
          stole,        \* history: processes that removed the forward of another
          cleared       \* history: the phones a reset made forget the host

vars == <<op, pc, result, file, mem, edit, why, trusts, issued, got, fwd, before, held,
          online, accessory, attempt, usb, found, faults, raced, broken, blind, stole, cleared>>

storeVars == <<file, mem, edit, why, raced, broken>>
phoneVars == <<trusts, issued, got, cleared>>
adbVars == <<fwd, before, held, blind, stole>>
usbVars == <<accessory, attempt, usb>>
envVars == <<op, online, faults, found>>

NoTrust == [u \in Phones |-> NoKey]
State == [host : Hosts, trust : [Phones -> 0..MaxKeys]]
Fresh(p) == [host |-> p, trust |-> NoTrust]
Nobody == "nobody"      \* no host identity yet
Absent == [st |-> "absent", state |-> [host |-> Nobody, trust |-> NoTrust]]
NoStream == [open |-> FALSE, reader |-> "off", q |-> <<>>, pending |-> <<>>, bytes |-> <<>>, next |-> 1]

\* What the scenarios may be: known calls on known phones, from a state file that
\* was never written or that an earlier run wrote and nothing cut short.  A port
\* is a number other than 0, and no process has the identity of an earlier run.
OpOK(o) == /\ o.do \in {"connect", "reset", "remove", "list", "discover"} /\ o.to \in Phones
           /\ o.do = "discover" => o.include \subseteq Transports
StoreOK(f) == f \in {Absent} \cup [st : {"ok"}, state : [host : {Old}, trust : [Phones -> 0..MaxKeys]]]
ASSUME ConnectAssumption ==
  /\ Old \notin Procs /\ Ports \subseteq Nat \ {0} /\ QueueCap \in Nat /\ MaxKeys \in Nat
  /\ \A s \in Scenarios : StoreOK(s.store) /\ \A p \in Procs : OpOK(s.ops[p])

Init == /\ \E s \in Scenarios : op = s.ops /\ file = s.store
        /\ pc = [p \in Procs |-> "start"]
        /\ result = [p \in Procs |-> "none"]
        /\ mem = [p \in Procs |-> Fresh(p)]
        /\ edit = mem
        /\ why = [p \in Procs |-> "create"]
        \* a stored record is one the phone still honours
        /\ trusts = [u \in Phones |-> [h \in Hosts |-> IF h = Old THEN file.state.trust[u] ELSE NoKey]]
        /\ issued = [u \in Phones |-> file.state.trust[u]]
        /\ got = [p \in Procs |-> NoKey]
        /\ fwd = {} /\ before = [p \in Procs |-> {}] /\ held = [p \in Procs |-> 0]
        /\ online = Phones /\ accessory = {} /\ attempt = [p \in Procs |-> 1]
        /\ usb = [p \in Procs |-> NoStream]
        /\ found = [p \in Procs |-> [devices |-> {}, warnings |-> {}, heard |-> {}, asked |-> {}]]
        /\ faults = 0 /\ raced = FALSE /\ broken = FALSE
        /\ blind = {} /\ stole = {} /\ cleared = [p \in Procs |-> {}]

Goto(p, from, to) == pc[p] = from /\ pc' = [pc EXCEPT ![p] = to]

\* The call returns; a client it still owns is dropped with it, and with the
\* client its stream: the USB reader finds the channel closed.
DropStream(p) == usb' = [usb EXCEPT ![p].open = FALSE]
End(p, how) == /\ pc' = [pc EXCEPT ![p] = "ended"]
               /\ result' = [result EXCEPT ![p] = how]
               /\ DropStream(p)

(***************************************************************************)
(* The state file (StateStore).  There is no lock on it: an edit is a load *)
(* (LoadForEdit), then a save, and a save truncates the file (SaveOpens)   *)
(* before it writes it (SaveWrites).                                       *)
(***************************************************************************)

\* Where a process goes once its state is loaded or created.
AfterLoad(p, s) ==
  CASE op[p].do \in {"connect", "reset"} -> /\ pc' = [pc EXCEPT ![p] = "dial"]
                                           /\ mem' = [mem EXCEPT ![p] = s]
                                           /\ UNCHANGED <<edit, why, result, usb>>
    [] op[p].do = "list" -> End(p, "ok") /\ UNCHANGED <<mem, edit, why>>
    [] op[p].do = "remove" /\ s.trust[op[p].to] = NoKey -> End(p, "missing") /\ UNCHANGED <<mem, edit, why>>
    [] OTHER -> /\ pc' = [pc EXCEPT ![p] = "save"]
                /\ edit' = [edit EXCEPT ![p] = [s EXCEPT !.trust[op[p].to] = NoKey]]
                /\ why' = [why EXCEPT ![p] = "remove"]
                /\ UNCHANGED <<mem, result, usb>>

\* What load_or_create answers: a state, no file, or a file that does not parse.
Readable == file.st = "ok"
Unreadable == file.st \in {"empty", "torn"}

\* Mutant: a file that does not parse is replaced by a fresh one.
load_or_recreate(p) ==
  /\ pc[p] = "start" /\ op[p].do # "discover"
  /\ \/ Readable /\ AfterLoad(p, file.state)
     \/ /\ ~Readable
        /\ edit' = [edit EXCEPT ![p] = Fresh(p)]
        /\ why' = [why EXCEPT ![p] = "create"]
        /\ pc' = [pc EXCEPT ![p] = "save"]
        /\ UNCHANGED <<mem, result, usb>>
  /\ UNCHANGED <<file, raced, broken, phoneVars, adbVars, accessory, attempt, envVars>>

load_or_create(p) ==
  /\ pc[p] = "start" /\ op[p].do # "discover"
  /\ \/ Readable /\ AfterLoad(p, file.state)
     \/ /\ file.st = "absent"
        /\ edit' = [edit EXCEPT ![p] = Fresh(p)]
        /\ why' = [why EXCEPT ![p] = "create"]
        /\ pc' = [pc EXCEPT ![p] = "save"]
        /\ UNCHANGED <<mem, result, usb>>
     \/ Unreadable /\ End(p, "configuration") /\ UNCHANGED <<mem, edit, why>>
  /\ UNCHANGED <<file, raced, broken, phoneVars, adbVars, accessory, attempt, envVars>>

\* A process whose edit of the state file is under way.
Editing == {p \in Procs : pc[p] \in {"save", "write"}}

\* The first half of StateStore::save: the file is opened and truncated.
SaveOpens(p) ==
  /\ Goto(p, "save", "write")
  /\ file' = [file EXCEPT !.st = "empty"]
  /\ raced' = (raced \/ Editing # {p})
  /\ UNCHANGED <<mem, edit, why, broken, result, phoneVars, adbVars, usbVars, envVars>>

\* What the process does next: with its state saved, or with the error.
AfterSave(p, saved) ==
  CASE why[p] = "create" -> IF saved THEN AfterLoad(p, edit[p])
                            ELSE End(p, "configuration") /\ UNCHANGED <<mem, edit, why>>
    [] why[p] = "upsert" -> /\ pc' = [pc EXCEPT ![p] = IF saved THEN "info" ELSE "drop"]
                            /\ UNCHANGED <<mem, edit, why, result, usb>>
    \* the handshake ignores what remove_trust answers
    [] why[p] = "forget" -> End(p, "trust_failed") /\ UNCHANGED <<mem, edit, why>>
    [] why[p] = "remove" -> /\ End(p, IF saved THEN "removed" ELSE "configuration")
                            /\ UNCHANGED <<mem, edit, why>>

\* The second half: the bytes are written at the start of the file.  If
\* another save wrote since this one truncated, a longer text leaves its tail.
SaveWrites(p) ==
  /\ pc[p] = "write"
  /\ \/ file' = [st |-> "ok", state |-> edit[p]]
     \/ file.st # "empty" /\ file' = [file EXCEPT !.st = "torn"]
  /\ AfterSave(p, TRUE)
  /\ UNCHANGED <<raced, broken, phoneVars, adbVars, accessory, attempt, envVars>>

\* The directory, its permissions or the file refuse and nothing is changed, or
\* the write fails after the truncation.
SaveFails(p) ==
  /\ pc[p] \in {"save", "write"} /\ faults < MaxFaults /\ faults' = faults + 1
  /\ broken' = TRUE
  /\ AfterSave(p, FALSE)
  /\ UNCHANGED <<file, raced, phoneVars, adbVars, accessory, attempt, op, online, found>>

\* Mutant: the record is added to the state loaded when the call began.
EditStale(p) ==
  LET u == op[p].to
      Save(key, reason) == /\ edit' = [edit EXCEPT ![p] = [mem[p] EXCEPT !.trust[u] = key]]
                           /\ why' = [why EXCEPT ![p] = reason]
                           /\ pc' = [pc EXCEPT ![p] = "save"]
  IN  /\ \/ pc[p] = "upsert" /\ Save(got[p], "upsert")
         \/ pc[p] = "forget" /\ Save(NoKey, "forget")
      /\ UNCHANGED <<file, mem, raced, broken, result, usb, phoneVars, adbVars, accessory, attempt, envVars>>

\* StateStore::upsert_trust and remove_trust load the file again.
LoadForEdit(p) ==
  LET u == op[p].to
      Save(key, reason) == /\ edit' = [edit EXCEPT ![p] = [file.state EXCEPT !.trust[u] = key]]
                           /\ why' = [why EXCEPT ![p] = reason]
                           /\ pc' = [pc EXCEPT ![p] = "save"]
                           /\ UNCHANGED <<result, usb>>
  IN  /\ \/ pc[p] = "upsert" /\ Readable /\ Save(got[p], "upsert")
         \/ pc[p] = "upsert" /\ Unreadable /\ pc' = [pc EXCEPT ![p] = "drop"] /\ UNCHANGED <<edit, why, result, usb>>
         \/ pc[p] = "forget" /\ Readable /\ file.state.trust[u] # NoKey /\ Save(NoKey, "forget")
         \/ /\ pc[p] = "forget" /\ (Unreadable \/ file.state.trust[u] = NoKey)
            /\ End(p, "trust_failed") /\ UNCHANGED <<edit, why>>
      /\ raced' = (raced \/ Unreadable)
      /\ UNCHANGED <<file, mem, broken, phoneVars, adbVars, accessory, attempt, envVars>>

(***************************************************************************)
(* ADB: AdbConnector::connect and the AdbForward guard.                    *)
(***************************************************************************)
Adb(p) == op[p].do = "connect" /\ op[p].by = "Adb"
keepAdb == UNCHANGED <<storeVars, phoneVars, accessory, attempt, envVars>>

\* The phones adb reports as ready, and the choice of the requested one.
list_devices == online
select_device(p) == op[p].to \in list_devices

\* An adb command that cannot be started, fails, or does not answer in time.
run_adb_fails(p) == End(p, "err")

\* list_devices, select_device and the startservice command.
AdbSelects(p) ==
  /\ pc[p] = "dial" /\ Adb(p)
  /\ \/ select_device(p) /\ pc' = [pc EXCEPT ![p] = "before"] /\ UNCHANGED <<result, usb>>
     \/ ~select_device(p) /\ End(p, "err")
     \/ run_adb_fails(p)
  /\ UNCHANGED adbVars /\ keepAdb

\* The local ports forwarded to the service of one phone.
list_forward_ports(u) == {f.port : f \in {g \in fwd : g.phone = u}}

AdbListsForwards(p) ==
  /\ pc[p] = "before"
  /\ \/ before' = [before EXCEPT ![p] = list_forward_ports(op[p].to)] /\ pc' = [pc EXCEPT ![p] = "forward"] /\ UNCHANGED <<result, usb>>
     \/ run_adb_fails(p) /\ UNCHANGED before
  /\ UNCHANGED <<fwd, held, blind, stole>> /\ keepAdb

\* `adb forward tcp:0': it answers the port; or something that does not parse
\* as one; or it fails; or it times out after the server added the forward.
AdbForwards(p) ==
  /\ pc[p] = "forward"
  /\ \/ run_adb_fails(p) /\ UNCHANGED <<fwd, held, blind>>
     \/ \E port \in Ports \ {f.port : f \in fwd} :
          /\ fwd' = fwd \cup {[port |-> port, phone |-> op[p].to, of |-> p]}
          /\ \/ held' = [held EXCEPT ![p] = port] /\ pc' = [pc EXCEPT ![p] = "tcp"] /\ UNCHANGED <<result, usb, blind>>
             \* a port that was listed before: cleanup_new_forwards will not see it
             \/ /\ pc' = [pc EXCEPT ![p] = "sweep"] /\ blind' = blind \cup {q \in {p} : port \in before[p]}
                /\ UNCHANGED <<result, usb, held>>
             \/ run_adb_fails(p) /\ blind' = blind \cup {p} /\ UNCHANGED held
  /\ UNCHANGED <<before, stole>> /\ keepAdb

\* cleanup_new_forwards: the one forward that was not there before is removed
\* (as by "drop"); with none there is nothing to do, with several it gives up.
unique_added_forward(b, after) == IF Cardinality(after \ b) = 1 THEN CHOOSE x \in after \ b : TRUE ELSE 0

cleanup_new_forwards(p) ==
  LET port == unique_added_forward(before[p], list_forward_ports(op[p].to))
  IN  /\ pc[p] = "sweep"
      /\ \/ /\ port # 0 /\ held' = [held EXCEPT ![p] = port] /\ pc' = [pc EXCEPT ![p] = "drop"]
            /\ UNCHANGED <<result, usb, blind>>
         \/ port = 0 /\ End(p, "err") /\ blind' = blind \cup {p} /\ UNCHANGED held
         \* the second `forward --list' fails
         \/ run_adb_fails(p) /\ blind' = blind \cup {p} /\ UNCHANGED held
      /\ UNCHANGED <<fwd, before, stole>> /\ keepAdb

\* Mutant: the deadline returns before the guard exists.
AdbConnectsUnguarded(p) ==
  /\ \/ Goto(p, "tcp", "handshake") /\ UNCHANGED <<result, usb>>
     \/ pc[p] = "tcp" /\ End(p, "err")
  /\ UNCHANGED adbVars /\ keepAdb

\* The TCP connection through the forward, retried until the deadline.
AdbConnects(p) ==
  /\ \/ Goto(p, "tcp", "handshake")
     \/ Goto(p, "tcp", "drop")
  /\ UNCHANGED <<result, usb, adbVars>> /\ keepAdb

\* `adb -s <serial> forward --remove tcp:<port>' at the server.
RemoveForward(p, lost) ==
  LET gone == {f \in fwd : f.port = held[p] /\ f.phone = op[p].to}
      robbed == {f.of : f \in gone} \ {p}
  IN  /\ fwd' = fwd \ gone
      /\ stole' = stole \cup {q \in {p} : robbed # {}}
      /\ blind' = blind \cup lost \cup robbed

\* What is dropped with an error: the AdbForward guard tries once to remove
\* its forward, and forgets it whatever the outcome.
DropForward(p) ==
  /\ pc[p] = "drop"
  /\ End(p, IF result[p] = "none" THEN "err" ELSE result[p])
  /\ held' = [held EXCEPT ![p] = 0]
  /\ \/ held[p] # 0 /\ RemoveForward(p, {})
     \/ held[p] = 0 /\ UNCHANGED <<fwd, stole, blind>>
     \/ held[p] # 0 /\ blind' = blind \cup {p} /\ UNCHANGED <<fwd, stole>>   \* adb fails
  /\ UNCHANGED before /\ keepAdb

\* HandShakerClient::close: the session quits, then the cleanup runs once.
close(p) ==
  /\ Goto(p, "ready", "cleanup")
  /\ DropStream(p)
  /\ UNCHANGED <<result, adbVars>> /\ keepAdb

\* TransportCleanup::cleanup: an error leaves the guard uncleaned, so its drop
\* tries again; the command may have been carried out all the same.
cleanup(p) ==
  /\ pc[p] = "cleanup"
  /\ \/ held[p] = 0 /\ End(p, "closed") /\ UNCHANGED adbVars
     \/ /\ held[p] # 0 /\ RemoveForward(p, {}) /\ End(p, "closed")
        /\ held' = [held EXCEPT ![p] = 0] /\ UNCHANGED before
     \/ /\ held[p] # 0 /\ pc' = [pc EXCEPT ![p] = "drop"]
        /\ result' = [result EXCEPT ![p] = "err"] /\ UNCHANGED <<usb, adbVars>>
     \/ /\ held[p] # 0 /\ RemoveForward(p, {p}) /\ pc' = [pc EXCEPT ![p] = "drop"]
        /\ result' = [result EXCEPT ![p] = "err"]
        /\ UNCHANGED <<usb, before, held>>
  /\ keepAdb

(***************************************************************************)
(* The handshakes.                                                         *)
(***************************************************************************)
keepShake == UNCHANGED <<storeVars, adbVars, accessory, attempt, envVars>>

\* An answer of another sid, with a length out of bounds, or cut off: the call
\* fails and what it holds is dropped.
read_normal_direct_fails(p) == pc' = [pc EXCEPT ![p] = "drop"] /\ UNCHANGED <<result, usb>>

\* AdbRawKeyExchange (ADB and USB): one round.  Only an answer that decrypts
\* to "ok" goes on; refused, locked, unparsable or late answers end the call.
AdbRawKeyExchange(p) ==
  /\ pc[p] = "handshake"
  /\ \/ pc' = [pc EXCEPT ![p] = "info"] /\ UNCHANGED <<result, usb>>
     \/ read_normal_direct_fails(p)
  /\ UNCHANGED phoneVars /\ keepShake

\* WifiConnector::connect.
WifiConnects(p) ==
  /\ pc[p] = "dial" /\ op[p].by = "Wifi"
  /\ \/ pc' = [pc EXCEPT ![p] = "hello"] /\ UNCHANGED <<result, usb>>
     \/ End(p, "err")
  /\ UNCHANGED phoneVars /\ keepShake

\* REQUEST_01 and RESPONSE_01: the phone names itself, and REQUEST_02 goes out
\* with the derived key of the state loaded when the call began.
Request02(p) ==
  /\ \/ Goto(p, "hello", "trust") /\ UNCHANGED <<result, usb>>
     \/ pc[p] = "hello" /\ read_normal_direct_fails(p)      \* or no answer in time, or no uuid in it
  /\ UNCHANGED phoneVars /\ keepShake

derived_key(p) == IF op[p].do = "reset" THEN NoKey ELSE mem[p].trust[op[p].to]

\* The phone's side of RESPONSE_02 for an ordinary connect (external): with
\* the key it issued it says ok, with another it says failed; without one its
\* user is asked, and trusts the host for good, for once, or not at all.
Accepts(p) == derived_key(p) # NoKey /\ trusts[op[p].to][mem[p].host] = derived_key(p)
Asks(p) == derived_key(p) = NoKey
Refuses(p) == (derived_key(p) # NoKey /\ ~Accepts(p)) \/ Asks(p)
TrustAlways(p) ==
  LET u == op[p].to
  IN  /\ Asks(p) /\ issued[u] < MaxKeys
      /\ issued' = [issued EXCEPT ![u] = @ + 1]
      /\ trusts' = [trusts EXCEPT ![u][mem[p].host] = issued[u] + 1]

\* The loop of WifiTrustHandshake::establish for a connect.  Rounds without a
\* result are only waited through, until TRUST_WAIT_TIMEOUT.
Response02(p) ==
  /\ pc[p] = "trust" /\ op[p].do = "connect"
  /\ \/ (Accepts(p) \/ Asks(p)) /\ pc' = [pc EXCEPT ![p] = "info"] /\ UNCHANGED <<result, usb, trusts, issued, got>>
     \/ /\ TrustAlways(p) /\ got' = [got EXCEPT ![p] = issued[op[p].to] + 1]
        /\ pc' = [pc EXCEPT ![p] = "upsert"] /\ UNCHANGED <<result, usb>>
     \* "failed": the stale record is dropped so that a later connect can re-trust
     \/ Refuses(p) /\ pc' = [pc EXCEPT ![p] = "forget"] /\ UNCHANGED <<result, usb, trusts, issued, got>>
     \* "locked", "needauth", a result that is not ok, an oversized key, a
     \* connection lost; the key may have been issued all the same
     \/ End(p, "err") /\ (TrustAlways(p) \/ UNCHANGED <<trusts, issued>>) /\ UNCHANGED got
  /\ UNCHANGED cleared /\ keepShake

\* The phone forgets the host that asks for TRUST_REMOVE (external).
TrustRemove(p) ==
  /\ trusts' = [trusts EXCEPT ![op[p].to][mem[p].host] = NoKey]
  /\ cleared' = [cleared EXCEPT ![p] = @ \cup {op[p].to}]

\* The same loop for a reset: it completes on a TRUST_WAITING round or on a
\* result that decrypts to "ok".
TrustRemoveAnswered(p) ==
  /\ pc[p] = "trust" /\ op[p].do = "reset"
  /\ \/ TrustRemove(p) /\ pc' = [pc EXCEPT ![p] = "compare"] /\ UNCHANGED <<result, usb>>
     \/ TrustRemove(p) /\ read_normal_direct_fails(p)                    \* the answer is lost
     \/ read_normal_direct_fails(p) /\ UNCHANGED <<trusts, cleared>>     \* refused or locked
  /\ UNCHANGED <<issued, got>> /\ keepShake

\* What reset_wifi_trust does with the session it got: the phone that answered
\* is compared with the one that was meant, and the session is closed.
reset_wifi_trust(p) ==
  /\ pc[p] = "compare"
  /\ \/ End(p, IF op[p].to = op[p].expect THEN "ok" ELSE "mismatch")
     \/ op[p].to = op[p].expect /\ End(p, "err")       \* closing fails
  /\ UNCHANGED phoneVars /\ keepShake

\* Mutant: the reset's loop continues without looking at the deadline.
connect_timeout(p) ==
  /\ pc[p] = "trust" /\ op[p].do = "connect" /\ End(p, "err")
  /\ UNCHANGED phoneVars /\ keepShake

\* TRUST_WAIT_TIMEOUT: one deadline for all the rounds of either loop.
trust_timeout(p) ==
  /\ pc[p] = "trust" /\ End(p, "err")
  /\ UNCHANGED phoneVars /\ keepShake

\* The device information that completes a connect.
fetch_device_info(p) ==
  /\ \/ Goto(p, "info", "ready")
     \/ Goto(p, "info", "drop")
  /\ UNCHANGED <<result, usb, phoneVars>> /\ keepShake

(***************************************************************************)
(* USB: UsbConnector::connect, tried twice, and the UsbStream.             *)
(***************************************************************************)
keepUsb == UNCHANGED <<storeVars, phoneVars, adbVars, op, online, faults, found>>

\* The vendor interface with exactly one bulk IN and a bulk OUT endpoint, else
\* the first one that has both directions; 0 if there is none.
accessory_endpoints(ifs) ==
  LET both == {i \in DOMAIN ifs : ifs[i].bulk_in >= 1 /\ ifs[i].bulk_out >= 1}
      data == {i \in both : ifs[i].bulk_in = 1}
      First(S) == CHOOSE i \in S : \A j \in S : i <= j
  IN  IF data # {} THEN First(data) ELSE IF both # {} THEN First(both) ELSE 0

\* A failed attempt is made once more after a pause; the first error is kept.
UsbFails(p) ==
  \/ attempt[p] = 1 /\ attempt' = [attempt EXCEPT ![p] = 2] /\ pc' = [pc EXCEPT ![p] = "dial"] /\ UNCHANGED <<result, usb>>
  \/ attempt[p] = 2 /\ End(p, "err") /\ UNCHANGED attempt

\* The phone is looked up at its location; a plain one is sent the accessory
\* identification and re-enumerates (wait_for_accessory), or does not in time.
list_accessories == online
send_accessory_identification(u) == accessory' = accessory \cup {u}

UsbSelects(p) ==
  /\ pc[p] = "dial" /\ op[p].by = "Usb"
  /\ \/ /\ op[p].to \in list_accessories
        /\ send_accessory_identification(op[p].to)
        /\ pc' = [pc EXCEPT ![p] = "claim"] /\ UNCHANGED <<result, usb, attempt>>
     \/ UsbFails(p) /\ UNCHANGED accessory
  /\ keepUsb

\* A claimed interface is held by the stream's reader thread until it exits.
Claimed == {q \in Procs : usb[q].reader # "off"}

UsbClaims(p) ==
  /\ pc[p] = "claim"
  /\ \/ /\ op[p].to \in online \cap accessory /\ accessory_endpoints(UsbInterfaces) # 0
        /\ \A q \in Claimed : op[q].to # op[p].to
        /\ usb' = [usb EXCEPT ![p] = [NoStream EXCEPT !.open = TRUE, !.reader = "run"]]
        /\ pc' = [pc EXCEPT ![p] = "handshake"] /\ UNCHANGED <<result, attempt>>
     \/ UsbFails(p)
  /\ UNCHANGED accessory /\ keepUsb

keepStream == UNCHANGED <<pc, result, accessory, attempt>> /\ keepUsb

\* A bulk read brings the n-th chunk, of two bytes.
Chunk(n) == <<2 * n - 1, 2 * n>>

try_send(p, item) == IF Len(usb[p].q) < QueueCap THEN Append(usb[p].q, item) ELSE usb[p].q

\* One round of the reader thread: a chunk for the channel, which drops it when
\* it is full; a timeout, which looks whether the stream is gone; the end.
ReaderGetsChunk(p) ==
  /\ usb[p].reader = "run" /\ op[p].to \in online /\ pc[p] \in {"ready", "cleanup", "drop", "ended"}
  /\ usb[p].next <= MaxChunks
  /\ usb' = [usb EXCEPT ![p].next = @ + 1,
                        ![p].q = IF usb[p].open THEN try_send(p, Chunk(usb[p].next)) ELSE @,
                        ![p].reader = IF usb[p].open THEN @ ELSE "exit"]
  /\ keepStream

ReaderTimesOut(p) ==
  /\ usb[p].reader = "run" /\ ~usb[p].open
  /\ usb' = [usb EXCEPT ![p].reader = "exit"]
  /\ keepStream

ReaderFails(p) ==
  /\ usb[p].reader = "run" /\ op[p].to \notin online
  /\ usb' = [usb EXCEPT ![p].q = IF usb[p].open THEN try_send(p, <<>>) ELSE @, ![p].reader = "exit"]
  /\ keepStream

\* The thread releases the interface and resets the device as it exits.
ReaderExits(p) ==
  /\ usb[p].reader = "exit"
  /\ usb' = [usb EXCEPT ![p].reader = "off"]
  /\ keepStream

\* fill_buffer with room for n bytes: leftovers first, the surplus is kept.
Min(a, b) == IF a < b THEN a ELSE b
\* Mutant: the leftovers are not drained.
fill_again(p, from, n) ==
  [usb EXCEPT ![p].bytes = @ \o SubSeq(from, 1, Min(n, Len(from))), ![p].pending = IF n < Len(from) THEN from ELSE <<>>]

fill_buffer(p, from, n) ==
  LET k == Min(n, Len(from))
  IN  [usb EXCEPT ![p].bytes = @ \o SubSeq(from, 1, k), ![p].pending = SubSeq(from, k + 1, Len(from))]

poll_read(p) ==
  /\ pc[p] = "ready" /\ usb[p].open
  /\ \E n \in 1..2 :
       \/ usb[p].pending # <<>> /\ usb' = fill_buffer(p, usb[p].pending, n)
       \/ /\ usb[p].pending = <<>> /\ usb[p].q # <<>>
          /\ usb' = [fill_buffer(p, Head(usb[p].q), n) EXCEPT ![p].q = Tail(@)]
  /\ keepStream

(***************************************************************************)
(* discover_devices: every requested transport in turn.  A transport that  *)
(* fails leaves a warning and the sweep goes on.                           *)
(***************************************************************************)
keepSweep == UNCHANGED <<storeVars, phoneVars, adbVars, accessory, attempt, op, online, faults>>

\* The entry of a device: its transport and its id there.  Two entries with
\* both the same are one.
descriptor(t, u) == <<t, u>>

Sweeps(p, t, ids) ==
  \/ t \notin op[p].include /\ UNCHANGED found
  \/ t \in op[p].include /\ found' = [found EXCEPT ![p].devices = @ \cup {descriptor(t, u) : u \in ids},
                                                   ![p].heard = @ \cup {<<t, u>> : u \in ids},
                                                   ![p].asked = @ \cup {t}]
  \/ t \in op[p].include /\ found' = [found EXCEPT ![p].warnings = @ \cup {t}, ![p].asked = @ \cup {t}]

SweepAdb(p) == /\ op[p].do = "discover" /\ Goto(p, "start", "browse")
               /\ Sweeps(p, "Adb", list_devices) /\ UNCHANGED <<result, usb>> /\ keepSweep

\* Mutant: services keyed by their instance name, which all phones share.
instance_key(u) == "handshaker_ssp_"

\* The mDNS browse: resolved services are keyed by host name, because every
\* phone registers the same instance name; the latest of a host wins.
host_key(u) == u
WifiResolved(p) ==
  /\ pc[p] = "browse" /\ "Wifi" \in op[p].include
  /\ \E u \in Phones :
       found' = [found EXCEPT ![p].devices = {d \in @ : d[1] # "Wifi" \/ host_key(d[2]) # host_key(u)} \cup {descriptor("Wifi", u)},
                              ![p].heard = @ \cup {<<"Wifi", u>>}]
  /\ UNCHANGED <<pc, result, usb>> /\ keepSweep

\* The deadline of the browse, or a daemon that does not start.
BrowseEnds(p) ==
  /\ Goto(p, "browse", "usb")
  /\ \/ "Wifi" \notin op[p].include /\ UNCHANGED found
     \/ "Wifi" \in op[p].include /\ found' = [found EXCEPT ![p].asked = @ \cup {"Wifi"}]
     \/ /\ "Wifi" \in op[p].include /\ \A d \in found[p].heard : d[1] # "Wifi"
        /\ found' = [found EXCEPT ![p].warnings = @ \cup {"Wifi"}, ![p].asked = @ \cup {"Wifi"}]
  /\ UNCHANGED <<result, usb>> /\ keepSweep

\* The USB accessories, then deduplication and the stable order.
SweepUsb(p) == /\ pc[p] = "usb" /\ End(p, "ok")
               /\ Sweeps(p, "Usb", list_accessories) /\ keepSweep

(***************************************************************************)
(* The environment: a process is killed, a phone's user revokes the trust, *)
(* a cable is pulled or plugged in.                                        *)
(***************************************************************************)
Fault == faults < MaxFaults /\ faults' = faults + 1

Crash(p) ==
  /\ Fault /\ pc[p] \notin {"start", "ended", "crashed"}
  /\ pc' = [pc EXCEPT ![p] = "crashed"]
  /\ broken' = (broken \/ pc[p] = "write")
  /\ blind' = blind \cup {p} /\ held' = [held EXCEPT ![p] = 0]
  /\ usb' = [usb EXCEPT ![p].open = FALSE, ![p].reader = "off"]
  /\ UNCHANGED <<file, mem, edit, why, raced, phoneVars, fwd, before, stole, accessory, attempt, op, online, found, result>>

Revoke(u) ==
  /\ Fault /\ \E h \in Hosts : trusts[u][h] # NoKey /\ trusts' = [trusts EXCEPT ![u][h] = NoKey]
  /\ UNCHANGED <<pc, result, storeVars, issued, got, cleared, adbVars, usbVars, op, online, found>>

\* adb drops the forwards of a phone that goes away.
Unplug(u) ==
  /\ Fault /\ u \in online /\ online' = online \ {u} /\ accessory' = accessory \ {u}
  /\ blind' = blind \cup {f.of : f \in {g \in fwd : g.phone = u}}
  /\ fwd' = {f \in fwd : f.phone # u}
  /\ UNCHANGED <<pc, result, storeVars, phoneVars, before, held, stole, attempt, usb, op, found>>

Plug(u) ==
  /\ u \notin online /\ online' = online \cup {u}
  /\ UNCHANGED <<pc, result, storeVars, phoneVars, adbVars, usbVars, op, found, faults>>

\* What a process does by itself, every wait of it bounded by a timeout.
Step(p) == \/ load_or_create(p) \/ SaveOpens(p) \/ SaveWrites(p) \/ SaveFails(p) \/ LoadForEdit(p)
           \/ AdbSelects(p) \/ AdbListsForwards(p) \/ AdbForwards(p) \/ cleanup_new_forwards(p)
           \/ AdbConnects(p) \/ DropForward(p) \/ cleanup(p)
           \/ AdbRawKeyExchange(p) \/ WifiConnects(p) \/ Request02(p) \/ trust_timeout(p)
           \/ reset_wifi_trust(p) \/ fetch_device_info(p)
           \/ UsbSelects(p) \/ UsbClaims(p)
           \/ SweepAdb(p) \/ BrowseEnds(p) \/ SweepUsb(p)

\* Answers that depend on the phone's user.
Answer(p) == Response02(p) \/ TrustRemoveAnswered(p)

Reader(p) == ReaderGetsChunk(p) \/ ReaderTimesOut(p) \/ ReaderFails(p) \/ ReaderExits(p)

Next == \/ \E p \in Procs : Step(p) \/ Answer(p) \/ Reader(p) \/ close(p) \/ poll_read(p) \/ WifiResolved(p) \/ Crash(p)
        \/ \E u \in Phones : Revoke(u) \/ Unplug(u) \/ Plug(u)

\* A call keeps running until it returns, and the reader thread until it exits;
\* closing a client, and everything the phones' users do, may never happen.
Fairness == \A p \in Procs : WF_vars(Step(p)) /\ WF_vars(Reader(p))
Spec == Init /\ [][Next]_vars /\ Fairness

(***************************************************************************)
(* Properties.                                                             *)
(***************************************************************************)

\* The types of the state.
TypeOK ==
  /\ file.st \in {"absent", "empty", "torn", "ok"} /\ file.state.trust \in [Phones -> 0..MaxKeys]
  /\ file.state.host \in Hosts \cup {Nobody} /\ (file.st = "ok" => file.state \in State)
  /\ mem \in [Procs -> State] /\ edit \in [Procs -> State]
  /\ trusts \in [Phones -> [Hosts -> 0..MaxKeys]] /\ got \in [Procs -> 0..MaxKeys]
  /\ held \in [Procs -> Ports \cup {0}] /\ blind \subseteq Procs /\ stole \subseteq Procs
  /\ \A p \in Procs : Len(usb[p].q) <= QueueCap /\ usb[p].reader \in {"off", "run", "exit"}

\* AdbForward: a call that is over has left no forward behind, on whichever of
\* its error paths it ended, unless it lost sight of it: adb failed it, its phone
\* or its forward was taken away, it was killed, or adb reused a port it had
\* listed before and then answered with something that is not a port.
ForwardsRemoved == \A f \in fwd : pc[f.of] = "ended" => f.of \in blind

\* A forward is removed only by the connection that made it; a port number that
\* adb has since given to another connection is removed only by a process that
\* lost sight of its own.
OthersForwardsKept == stole \subseteq blind

\* A connection removes its own forward on every path and nobody else's
\* (AdbForward: connect, cleanup, drop).
ForwardsOwned == ForwardsRemoved /\ OthersForwardsKept

\* StateStore::load_or_create answers an error for a file it cannot parse and
\* never starts afresh: the host keeps the identity every phone trusts it by.
IdentityKept == [][file.state.host = Old => file'.state.host = Old]_vars

\* The state file can be read whenever no save is under way, unless a save was
\* cut short or two of them overlapped.
StoreReadable ==
  /\ file.st = "torn" => raced
  /\ file.st = "empty" => broken \/ \E p \in Procs : pc[p] = "write"

\* upsert_trust works on the file as it is, not as it was when the call began:
\* calls whose edits did not overlap keep each other's records.
KeysNotLost ==
  \A p \in Procs :
    (got[p] # NoKey /\ pc[p] \in {"info", "ready"} /\ ~raced /\ ~broken /\ file.st = "ok")
      => \/ file.state.trust[op[p].to] = got[p]
         \/ \E q \in Procs \ {p} : op[q].do \in {"connect", "remove"} /\ op[q].to = op[p].to

\* A phone that answers "failed" to a stored key takes that key out of the
\* state file, so the next connect asks its user again and does not fail forever.
StaleKeyDropped ==
  \A p \in Procs :
    (result[p] = "trust_failed" /\ derived_key(p) # NoKey /\ ~raced /\ ~broken /\ file.st = "ok")
      => file.state.trust[op[p].to] # derived_key(p)

\* reset_wifi_trust returns success only when the phone it was meant for has
\* forgotten this host.
ResetClears == \A p \in Procs : (op[p].do = "reset" /\ result[p] = "ok") => op[p].expect \in cleared[p]

\* The state file, with all values of their types: readable, with the identity
\* it began with, every key that was saved and none that was revoked or reset,
\* but for the crashes and overlapping edits each part names (StateStore, trust).
TrustKept ==
  /\ [](TypeOK /\ StoreReadable /\ KeysNotLost /\ StaleKeyDropped /\ ResetClears)
  /\ IdentityKept

\* UsbStream: leftovers of a short read come before the next chunk and nothing
\* is delivered twice.
UsbInOrder == \A p \in Procs : \A i \in 1..(Len(usb[p].bytes) - 1) : usb[p].bytes[i] < usb[p].bytes[i + 1]

\* "Bounded channel provides backpressure; retry when full": what the session
\* reads is what the phone sent, without a gap.
UsbNoGap == \A p \in Procs : \A i \in DOMAIN usb[p].bytes : usb[p].bytes[i] = i

\* discover_devices asks every requested transport whatever the others answer,
\* and reports every device they name.
SweepComplete ==
  \A p \in Procs : (op[p].do = "discover" /\ result[p] = "ok")
    => found[p].asked = op[p].include /\ found[p].devices = found[p].heard

\* Every call returns or has its session: each wait has a deadline.
ConnectEnds == \A p \in Procs : pc[p] = "dial" ~> pc[p] \in {"ready", "cleanup", "ended", "crashed"}

\* The reader thread of a dropped stream releases the interface even if the
\* phone keeps the endpoint open and silent, so a later connect can claim it.
InterfaceReleased == \A p \in Procs : (usb[p].reader = "run" /\ ~usb[p].open) ~> usb[p].reader = "off"

\* Neither a call nor the reader thread of a stream waits for ever on a phone
\* (wifi_handshake timeouts, UsbStream's read timeout).
WaitsBounded == ConnectEnds /\ InterfaceReleased

====
