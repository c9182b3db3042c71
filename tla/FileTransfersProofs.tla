------------------------ MODULE FileTransfersProofs ------------------------
(***************************************************************************)
(* Proofs about FileTransfers.                                             *)
(***************************************************************************)
EXTENDS FileTransfers, FiniteSetTheorems, WellFoundedInduction, TLAPS

(***************************************************************************)
(* The inductive invariant.                                                *)
(***************************************************************************)

Paths == Seq(STRING)
PlanItems == [src : Paths, dst : Paths, isDir : BOOLEAN]
Codes == {"none", "Interrupted", "LocalIo", "RemoteIo", "Transport", "Protocol"}
BatchItems == [src : Paths, dst : Paths, st : ItemStates, head : Entries, body : Entries,
               md5 : BOOLEAN, code : Codes]
Remotes == [DOMAIN RemoteInit -> Entries]
Locals == [DOMAIN LocalInit -> Entries]
Plans == [phase : {"none", "planning", "planned", "error"}, dir : Directions,
          todo : Seq(Paths), dest : Paths, count : Nat, destIsDir : BOOLEAN,
          recursive : BOOLEAN, overwrite : BOOLEAN, items : Seq(PlanItems),
          conflicts : SUBSET [kind : ConflictKinds, overridable : BOOLEAN], checked : BOOLEAN]
Numbered(S) == UNION {[I -> S] : I \in SUBSET Nat}
Phases == {"none", "start", "mkdir", "list", "collect", "mkremote", "batch", "items", "report",
           "ended"}
Execs == [phase : Phases, background : BOOLEAN, overwrite : BOOLEAN, concurrency : Nat,
          trees : SUBSET Nat, files : SUBSET Nat, dirs : SUBSET Paths,
          then : Numbered(PlanItems), tree : BOOLEAN, failures : SUBSET Codes,
          completed : Nat, failed : Nat]

Typed ==
    /\ remote \in Remotes /\ local \in Locals /\ alive \in BOOLEAN
    /\ plan \in Plans /\ exec \in Execs
    /\ batch \in Numbered(BatchItems) /\ temps \subseteq DOMAIN batch
    /\ xfer \in Terminal \cup {"none", "Queued", "Running"}
    /\ token \in BOOLEAN /\ cancelling \in BOOLEAN
    /\ others \in Nat /\ base \in [remote : Remotes, local : Locals]

\* The task works on one tree.
InTree == \/ exec.phase \in {"mkdir", "list", "collect", "mkremote"}
          \/ exec.phase \in {"batch", "items"} /\ exec.tree

\* Where the task is, and what it has left.
Staged ==
    /\ plan.phase = "none" => plan.items = <<>> /\ ~plan.checked /\ plan.dir = "Download"
    /\ exec.phase # "none" => plan.phase = "planned"
    /\ exec.phase = "none" => /\ exec.then = <<>> /\ exec.dirs = {} /\ exec.failures = {}
                              /\ exec.completed = 0 /\ exec.failed = 0
                              /\ xfer = "none" /\ ~token /\ ~cancelling
    /\ exec.phase # "items" => batch = <<>>
    /\ exec.phase = "items" =>
         /\ DOMAIN batch = DOMAIN exec.then
         /\ \A i \in DOMAIN batch : batch[i].src = exec.then[i].src /\ batch[i].dst = exec.then[i].dst
    /\ exec.phase # "none" => exec.trees \subseteq Trees(plan.items) /\ exec.files \subseteq Files(plan.items)
    /\ exec.phase # "none" =>
         exec.completed + exec.failed + Cardinality(exec.trees) + Cardinality(exec.files)
            <= Len(plan.items)
    /\ InTree => exec.trees # {}
    /\ exec.phase \in {"batch", "items"} /\ ~exec.tree =>
         exec.trees = {} /\ exec.then = [i \in exec.files |-> plan.items[i]]
    /\ exec.phase = "report" => exec.trees = {} /\ exec.files = {}
    /\ exec.phase \in {"mkdir", "list"} => plan.dir = "Download"
    /\ exec.phase \in {"collect", "mkremote"} => plan.dir = "Upload"
    /\ exec.phase = "mkremote" => exec.tree

\* Nothing partial reaches a download, and a checked body is the described one.
Received ==
    /\ NeverPartial /\ VerifiedBodies /\ TempsOwned
    /\ plan.dir = "Download" =>
         /\ \A p \in DOMAIN remote : remote[p] # "partial"
         /\ \A i \in DOMAIN batch : batch[i].head # "partial" /\ batch[i].body # "partial"

\* The end of the task.
Told ==
    /\ exec.phase # "none" /\ exec.background => xfer # "none"
    /\ token /\ ~cancelling => xfer \in Terminal
    /\ EndedIsTerminal

\* Everything the task is going to write lies below a destination of the plan.
Aimed ==
    /\ \A k \in DOMAIN exec.then : \E i \in DOMAIN plan.items :
          IsPrefix(plan.items[i].dst, exec.then[k].dst)
    /\ \A d \in exec.dirs : \E i \in DOMAIN plan.items : IsPrefix(plan.items[i].dst, d)

\* Items that have passed the question whether their target exists.
Writing == {"asked", "receive", "rest", "got", "hash", "header", "send", "complete"}
Kept(side, p) == IsFile(base[side][p]) /\ <<side, p>> \notin touched
Looked ==
    ~exec.overwrite =>
        \A i \in DOMAIN batch : batch[i].st \in Writing =>
            /\ plan.dir = "Download" /\ batch[i].dst \in DOMAIN local => ~Kept("local", batch[i].dst)
            /\ plan.dir = "Upload" /\ batch[i].dst \in DOMAIN remote => ~Kept("remote", batch[i].dst)

\* While nobody else acts, the sources are the ones of the beginning.
SrcInit == IF plan.dir = "Download" THEN RemoteInit ELSE LocalInit
DstInit == IF plan.dir = "Download" THEN LocalInit ELSE RemoteInit
Quiet ==
    others = 0 =>
        /\ base = [remote |-> RemoteInit, local |-> LocalInit]
        /\ Src = SrcInit
        /\ exec.phase = "none" => remote = RemoteInit /\ local = LocalInit

\* What preflight knows of the items.
Duplicate == Conflict("DuplicateDestination", FALSE)
Mismatch == Conflict("DestinationTypeMismatch", FALSE)
Preflight ==
    plan.checked =>
        /\ Len(plan.items) + Len(plan.todo) <= plan.count
        /\ plan.count > 1 => \A i \in DOMAIN plan.items : Len(plan.items[i].dst) = Len(plan.dest) + 1
        /\ plan.dir = "Download" => \A i \in DOMAIN plan.items : plan.items[i].dst # <<>>
        /\ plan.phase = "planned" /\ Duplicate \notin plan.conflicts =>
             \A i, j \in DOMAIN plan.items : i # j => plan.items[i].dst # plan.items[j].dst
        /\ exec.phase # "none" => Duplicate \notin plan.conflicts /\ Mismatch \notin plan.conflicts
        /\ others = 0 => \A i \in DOMAIN plan.items :
             LET it == plan.items[i]
             IN  /\ At(SrcInit, it.src) # "none" /\ it.isDir = (At(SrcInit, it.src) = "dir")
                 /\ it.isDir /\ IsFile(At(DstInit, it.dst)) => Mismatch \in plan.conflicts

\* One entry of an item, and the whole item, is at its destination.
target(it, p) == it.dst \o strip_prefix(it.src, p)
EntryAt(src, dst, dir, old, it, p) ==
    \/ At(dst, target(it, p)) = At(src, p)
    \/ /\ dir = "Upload" /\ p # it.src
       /\ At(src, p) = "dir" /\ IsFile(At(old, target(it, p)))
EntriesOf(src, it) == {it.src} \cup Below(src, it.src)
ItemAt(src, dst, dir, old, it) == \A p \in EntriesOf(src, it) : EntryAt(src, dst, dir, old, it, p)
EntryCopied(it, p) == EntryAt(Src, Dst, plan.dir, base.remote, it, p)
ItemCopied(it) == ItemAt(Src, Dst, plan.dir, base.remote, it)

\* How far an undisturbed transfer without failures has come.
Careful == plan.checked /\ others = 0 /\ exec.phase # "none"
DoneCopied ==
    Careful /\ exec.failures = {} /\ exec.phase # "ended" =>
        \A i \in DOMAIN plan.items : i \notin exec.trees \cup exec.files => ItemCopied(plan.items[i])
TreeWalked ==
    Careful /\ InTree /\ exec.phase \in {"mkremote", "batch", "items"} =>
        /\ \A p \in EntriesOf(Src, Tree) : At(Src, p) = "dir" =>
              \/ EntryCopied(Tree, p)
              \/ exec.phase = "mkremote" /\ target(Tree, p) \in exec.dirs
        /\ \A p \in EntriesOf(Src, Tree) : At(Src, p) # "dir" =>
              \E k \in DOMAIN exec.then : exec.then[k].src = p /\ exec.then[k].dst = target(Tree, p)
        /\ \A k \in DOMAIN exec.then :
              exec.then[k].src \in Below(Src, Tree.src)
                /\ exec.then[k].dst = target(Tree, exec.then[k].src)
RootMade ==
    Careful /\ exec.phase = "list" => At(local, Tree.dst) = "dir"
BatchCopied ==
    Careful /\ exec.phase = "items" =>
        \A i \in DOMAIN batch :
            LET b == batch[i]
                e == At(Src, b.src)
            IN  /\ b.st \in {"receive", "rest", "got"} => b.head = e
                /\ b.st \in {"rest", "got", "complete"} => b.body = e
                /\ b.st \in {"receive", "rest", "got", "complete"} => IsFile(e)
                /\ Failures = {} /\ b.st = "ok" => At(Dst, b.dst) = e
\* Below a tree that is still to be uploaded there are no files but the ones of
\* the beginning.
Fresh ==
    Careful /\ plan.dir = "Upload" /\ exec.phase # "ended" =>
        \A j \in exec.trees :
            \/ exec.phase \in {"batch", "items"} /\ exec.tree /\ j = Min(exec.trees)
            \/ \A q \in DOMAIN remote :
                  IsPrefix(plan.items[j].dst, q) /\ IsFile(remote[q]) => IsFile(base.remote[q])
Reported ==
    xfer = "Completed" => exec.phase = "ended" /\ CompletedMeansCopied

CopyInv ==
    /\ Quiet /\ Preflight /\ DoneCopied /\ TreeWalked /\ RootMade /\ BatchCopied /\ Fresh
    /\ Reported

\* The three parts of the inductive invariant: the task and its items; what may
\* be written; what has been copied.
Core == Typed /\ Staged /\ Received /\ Told
Targets == Aimed /\ Looked /\ KeptUnlessOverwrite /\ Confined /\ InsideRoot
IndInv == Core /\ Targets /\ CopyInv
-----------------------------------------------------------------------------
(***************************************************************************)
(* Numbers and numbered items.                                             *)
(***************************************************************************)

\* A non-empty set of naturals has a least element, and Min is one of its
\* elements.
LEMMA Least ==
    ASSUME NEW T \in SUBSET Nat, T # {}
    PROVE  Min(T) \in T /\ \A n \in T : Min(T) <= n
<1> DEFINE R == OpToRel(<, Nat)
<1>1. IsWellFoundedOn(R, Nat)
  BY NatLessThanWellFounded, Zenon
<1>2. \A a, b \in Nat : a < b => <<a, b>> \in R
  BY DEF OpToRel
<1> HIDE DEF R
<1>3. PICK m \in T : \A n \in T : ~(<<n, m>> \in R)
  BY <1>1, WFMin, Zenon
<1>4. ASSUME NEW n \in T PROVE m <= n
  <2>1. n \in Nat /\ m \in Nat /\ ~(n < m)
    BY <1>2, <1>3
  <2> QED BY <2>1
<1>5. \E x \in T : \A y \in T : x =< y
  BY <1>4
<1> QED
  BY <1>5 DEF Min

LEMMA NumberedType ==
    ASSUME NEW S
    PROVE  /\ \A f \in Numbered(S) : DOMAIN f \subseteq Nat /\ f \in [DOMAIN f -> S]
           /\ \A I \in SUBSET Nat : \A f \in [I -> S] : f \in Numbered(S)
           /\ <<>> \in Numbered(S)
<1>1. \A f \in Numbered(S) : DOMAIN f \subseteq Nat /\ f \in [DOMAIN f -> S]
  BY DEF Numbered
<1>2. \A I \in SUBSET Nat : \A f \in [I -> S] : f \in Numbered(S)
  BY DEF Numbered
<1>3. <<>> \in [{} -> S]
  OBVIOUS
<1> QED
  BY <1>1, <1>2, <1>3, Zenon

\* The orders of a finite set: sequences of its elements that leave none out.
LEMMA Orders ==
    ASSUME NEW S, IsFiniteSet(S), NEW f \in SetToSeqs(S)
    PROVE  /\ DOMAIN f \subseteq Nat /\ f \in [DOMAIN f -> S]
           /\ \A x \in S : \E k \in DOMAIN f : f[k] = x
<1> DEFINE D == 1 .. Cardinality(S)
<1>1. Cardinality(S) \in Nat
  BY FS_CardinalityType
<1>2. f \in [D -> S] /\ \A i, j \in D : i # j => f[i] # f[j]
  BY DEF SetToSeqs
<1>3. ASSUME NEW x \in S, \A k \in D : f[k] # x PROVE FALSE
  <2>1. f \in [D -> S \ {x}]
    BY <1>2, <1>3
  <2>2. IsFiniteSet(S \ {x}) /\ Cardinality(S \ {x}) = Cardinality(S) - 1
    BY FS_RemoveElement
  <2>3. IsFiniteSet(D) /\ Cardinality(D) = Cardinality(S)
    <3>1. IsFiniteSet(1 .. Cardinality(S)) /\ Cardinality(1 .. Cardinality(S)) = Cardinality(S)
      BY <1>1, FS_Interval
    <3> QED BY <3>1
  <2>4. Cardinality(S \ {x}) < Cardinality(D)
    BY <1>1, <2>2, <2>3
  <2> HIDE DEF D
  <2>5. \E i, j \in D : i # j /\ f[i] = f[j]
    BY <2>1, <2>2, <2>3, <2>4, FS_PigeonHole
  <2> QED BY <1>2, <2>5
<1>4. DOMAIN f = D /\ D \subseteq Nat
  BY <1>1, <1>2
<1> QED
  BY <1>2, <1>3, <1>4

-----------------------------------------------------------------------------
(***************************************************************************)
(* Paths.                                                                  *)
(***************************************************************************)

LEMMA PrefixDef ==
    ASSUME NEW p \in Paths, NEW q \in Paths
    PROVE  IsPrefix(p, q) <=> Len(p) <= Len(q) /\ \A n \in 1 .. Len(p) : p[n] = q[n]
<1>1. Len(p) \in Nat /\ Len(q) \in Nat
  BY DEF Paths
<1>2. CASE Len(p) <= Len(q)
  <2> DEFINE s == SubSeq(p, 1, Len(p))
             t == SubSeq(q, 1, Len(p))
  <2>1. /\ s = [n \in 1 .. Len(p) |-> p[n]] /\ t = [n \in 1 .. Len(p) |-> q[n]]
    BY <1>1, <1>2 DEF Paths
  <2>2. s = t <=> \A n \in 1 .. Len(p) : p[n] = q[n]
    BY <2>1
  <2> QED BY <1>2, <2>2 DEF IsPrefix
<1>3. CASE ~(Len(p) <= Len(q))
  BY <1>3 DEF IsPrefix
<1> QED BY <1>2, <1>3

LEMMA SamePath ==
    ASSUME NEW p \in Paths, NEW q \in Paths, Len(p) = Len(q), \A n \in 1 .. Len(p) : p[n] = q[n]
    PROVE  p = q
BY DEF Paths

LEMMA PrefixRefl ==
    ASSUME NEW p \in Paths
    PROVE  IsPrefix(p, p)
BY PrefixDef DEF Paths

\* Of two prefixes of one path the shorter is a prefix of the longer.
LEMMA PrefixTotal ==
    ASSUME NEW p \in Paths, NEW q \in Paths, NEW r \in Paths, IsPrefix(p, r), IsPrefix(q, r)
    PROVE  /\ IsPrefix(p, q) \/ IsPrefix(q, p)
           /\ Len(p) = Len(q) => p = q
<1>1. Len(p) \in Nat /\ Len(q) \in Nat
  BY DEF Paths
<1>2. /\ \A n \in 1 .. Len(p) : p[n] = r[n]
      /\ \A n \in 1 .. Len(q) : q[n] = r[n]
  BY PrefixDef
<1>3. Len(p) <= Len(q) => IsPrefix(p, q)
  BY <1>1, <1>2, PrefixDef
<1>4. Len(q) <= Len(p) => IsPrefix(q, p)
  BY <1>1, <1>2, PrefixDef
<1>5. Len(p) = Len(q) => p = q
  BY <1>1, <1>2 DEF Paths
<1> QED BY <1>1, <1>3, <1>4, <1>5

LEMMA PrefixConcat ==
    ASSUME NEW p \in Paths, NEW s \in Paths
    PROVE  /\ p \o s \in Paths /\ Len(p \o s) = Len(p) + Len(s)
           /\ IsPrefix(p, p \o s) /\ (s = <<>> => p \o s = p)
<1>1. p \o s \in Paths /\ Len(p \o s) = Len(p) + Len(s) /\ Len(p) \in Nat /\ Len(s) \in Nat
  BY DEF Paths
<1>2. \A n \in 1 .. Len(p) : (p \o s)[n] = p[n]
  BY DEF Paths
<1>3. s = <<>> => p \o s = p
  BY DEF Paths
<1> DEFINE r == p \o s
<1>4. r \in Paths /\ Len(p) <= Len(r) /\ \A n \in 1 .. Len(p) : p[n] = r[n]
  BY <1>1, <1>2
<1> HIDE DEF r
<1>5. IsPrefix(p, r)
  BY <1>4, PrefixDef
<1> QED BY <1>1, <1>3, <1>5 DEF r

\* What is left of a path below a directory.
LEMMA StripType ==
    ASSUME NEW p \in Paths, NEW q \in Paths
    PROVE  strip_prefix(p, q) \in Paths
BY DEF strip_prefix, Paths

LEMMA StripSelf ==
    ASSUME NEW p \in Paths
    PROVE  strip_prefix(p, p) = <<>>
BY DEF strip_prefix, Paths

\* Strictly below a directory something is left.
LEMMA StripNotEmpty ==
    ASSUME NEW p \in Paths, NEW q \in Paths, IsStrictPrefix(p, q), NEW d \in Paths
    PROVE  d \o strip_prefix(p, q) # <<>>
<1>1. IsPrefix(p, q) /\ p # q /\ Len(p) \in Nat /\ Len(q) \in Nat /\ Len(d) \in Nat
  BY DEF IsStrictPrefix, Paths
<1>2. Len(p) <= Len(q) /\ \A n \in 1 .. Len(p) : p[n] = q[n]
  BY <1>1, PrefixDef
<1>3. Len(p) # Len(q)
  BY <1>1, <1>2 DEF Paths
<1> DEFINE s == strip_prefix(p, q)
<1>4. s \in Paths /\ Len(s) = Len(q) - Len(p)
  BY <1>1, <1>2 DEF strip_prefix, Paths
<1> HIDE DEF s
<1>5. Len(d \o s) = Len(d) + Len(s)
  BY <1>4, PrefixConcat
<1>6. Len(d \o s) # 0
  BY <1>1, <1>2, <1>3, <1>4, <1>5
<1>7. d \o s # <<>>
  BY <1>6
<1> QED BY <1>7 DEF s

\* A path below a directory is determined by what is left of it.
LEMMA StripInjective ==
    ASSUME NEW p \in Paths, NEW q \in Paths, NEW r \in Paths, IsPrefix(p, q), IsPrefix(p, r),
           NEW d \in Paths, d \o strip_prefix(p, q) = d \o strip_prefix(p, r)
    PROVE  q = r
<1> DEFINE s == strip_prefix(p, q)
           t == strip_prefix(p, r)
<1>1. Len(p) \in Nat /\ Len(q) \in Nat /\ Len(r) \in Nat /\ Len(p) <= Len(q) /\ Len(p) <= Len(r)
      /\ Len(d) \in Nat
  BY PrefixDef DEF Paths
<1>2. /\ s \in Seq(STRING) /\ Len(s) = Len(q) - Len(p) /\ \A n \in 1 .. Len(s) : s[n] = q[n + Len(p)]
  BY <1>1 DEF strip_prefix, Paths
<1>3. /\ t \in Seq(STRING) /\ Len(t) = Len(r) - Len(p) /\ \A n \in 1 .. Len(t) : t[n] = r[n + Len(p)]
  BY <1>1 DEF strip_prefix, Paths
<1> HIDE DEF s, t
<1>4. d \o s = d \o t
  BY DEF s, t
<1>5. Len(s) = Len(t)
  <2>1. Len(d \o s) = Len(d) + Len(s) /\ Len(d \o t) = Len(d) + Len(t)
    BY <1>2, <1>3, PrefixConcat DEF Paths
  <2> QED BY <1>1, <1>2, <1>3, <1>4, <2>1
<1>6. ASSUME NEW n \in 1 .. Len(s) PROVE s[n] = t[n]
  <2>1. (d \o s)[Len(d) + n] = s[n] /\ (d \o t)[Len(d) + n] = t[n]
    BY <1>1, <1>2, <1>3, <1>5 DEF Paths
  <2> QED BY <1>4, <2>1
<1>7. Len(q) = Len(r)
  BY <1>1, <1>2, <1>3, <1>5
<1>8. ASSUME NEW n \in 1 .. Len(q) PROVE q[n] = r[n]
  <2>1. CASE n <= Len(p)
    <3>1. q[n] = p[n] /\ r[n] = p[n]
      BY <1>1, <2>1, PrefixDef
    <3> QED BY <3>1
  <2>2. CASE ~(n <= Len(p))
    <3>1. n - Len(p) \in 1 .. Len(s) /\ n - Len(p) \in 1 .. Len(t) /\ (n - Len(p)) + Len(p) = n
      BY <1>1, <1>2, <1>5, <2>2
    <3> QED BY <1>2, <1>3, <1>6, <3>1
  <2> QED BY <2>1, <2>2
<1> QED BY <1>7, <1>8, SamePath

LEMMA AppendType ==
    ASSUME NEW S, NEW s \in Seq(S), NEW c \in S
    PROVE  /\ Append(s, c) \in Seq(S) /\ Len(Append(s, c)) = Len(s) + 1
           /\ \A n \in 1 .. Len(s) : Append(s, c)[n] = s[n]
           /\ Append(s, c)[Len(s) + 1] = c
OBVIOUS

\* What the stack of components holds is a path; one more component keeps it
\* one.
LEMMA PushType ==
    ASSUME NEW s \in Paths, NEW c \in STRING
    PROVE  push_component(s, c) \in Paths
<1>1. s # <<>> => Front(s) \in Paths
  BY DEF Front, Paths
<1>2. Append(s, c) \in Paths
  BY AppendType DEF Paths
<1> QED
  BY <1>1, <1>2 DEF push_component

\* normalize_remote_path is a walk over the components: there is one for every
\* length, so its value is a path.
LEMMA NormalizeType ==
    ASSUME NEW parts \in Paths
    PROVE  normalize_remote_path(parts) \in Paths
<1> DEFINE L == Len(parts)
           Walk(n, f) == f[0] = <<>> /\ \A k \in 1 .. n : f[k] = push_component(f[k - 1], parts[k])
           Bad == {n \in 0 .. L : ~ \E f \in [0 .. n -> Paths] : Walk(n, f)}
<1>1. L \in Nat /\ \A k \in 1 .. L : parts[k] \in STRING
  BY DEF Paths
<1> HIDE DEF L
<1>2. Bad = {}
  <2> SUFFICES ASSUME Bad # {} PROVE FALSE
    OBVIOUS
  <2>1. Bad \in SUBSET Nat
    BY <1>1
  <2> DEFINE m == Min(Bad)
  <2>2. m \in Bad /\ \A n \in Bad : m <= n
    BY <2>1, Least, Zenon
  <2> HIDE DEF m
  <2>3. m \in 0 .. L /\ ~ \E f \in [0 .. m -> Paths] : Walk(m, f)
    BY <2>2
  <2>4. m # 0
    <3> SUFFICES ASSUME m = 0 PROVE FALSE
      OBVIOUS
    <3> DEFINE g == [k \in 0 .. m |-> <<>>]
    <3>1. <<>> \in Paths
      BY DEF Paths
    <3>2. g \in [0 .. m -> Paths] /\ Walk(m, g)
      BY <3>1
    <3> QED BY <2>3, <3>2
  <2>5. m - 1 \in 0 .. L /\ m - 1 \in Nat /\ m \in Nat /\ m - 1 < m
    BY <1>1, <2>3, <2>4
  <2>6. m - 1 \notin Bad
    BY <2>2, <2>5
  <2>7. PICK f \in [0 .. m - 1 -> Paths] : Walk(m - 1, f)
    BY <2>5, <2>6
  <2> DEFINE last == push_component(f[m - 1], parts[m])
             g == [k \in 0 .. m |-> IF k = m THEN last ELSE f[k]]
  <2>8. last \in Paths
    <3>1. f[m - 1] \in Paths /\ parts[m] \in STRING
      BY <1>1, <2>3, <2>5, <2>7
    <3> QED BY <3>1, PushType
  <2>9. g \in [0 .. m -> Paths]
    BY <2>5, <2>7, <2>8
  <2>10. Walk(m, g)
    <3>1. g[0] = <<>>
      BY <2>4, <2>5, <2>7
    <3>2. ASSUME NEW k \in 1 .. m PROVE g[k] = push_component(g[k - 1], parts[k])
      <4>1. k - 1 \in 0 .. m - 1 /\ k - 1 # m
        BY <2>5
      <4>2. g[k - 1] = f[k - 1]
        BY <2>5, <4>1
      <4>3. CASE k = m
        BY <4>2, <4>3
      <4>4. CASE k # m
        <5>1. k \in 1 .. m - 1
          BY <2>5, <4>4
        <5>2. f[k] = push_component(f[k - 1], parts[k])
          BY <2>7, <5>1
        <5> QED BY <4>2, <4>4, <5>1, <5>2
      <4> QED BY <4>3, <4>4
    <3> QED BY <3>1, <3>2
  <2> QED BY <2>3, <2>9, <2>10
<1>3. PICK f \in [0 .. L -> Paths] : Walk(L, f)
  <2>1. L \in 0 .. L
    BY <1>1
  <2>2. L \notin Bad
    BY <1>2, Zenon
  <2> HIDE DEF Walk
  <2> QED BY <2>1, <2>2
<1> DEFINE Rec(g) == g = [n \in 0 .. L |->
                            IF n = 0 THEN <<>> ELSE push_component(g[n - 1], parts[n])]
           stack == CHOOSE g : Rec(g)
<1>4. Rec(f)
  BY <1>1, <1>3
<1>5. Rec(stack)
  BY <1>4
<1>6. normalize_remote_path(parts) = stack[L]
  BY DEF normalize_remote_path, L
<1> HIDE DEF stack
<1> DEFINE Wrong == {n \in 0 .. L : stack[n] \notin Paths}
<1>7. Wrong = {}
  <2> SUFFICES ASSUME Wrong # {} PROVE FALSE
    OBVIOUS
  <2> DEFINE m == Min(Wrong)
  <2>1. m \in Wrong /\ \A n \in Wrong : m <= n
    <3>1. Wrong \in SUBSET Nat
      BY <1>1
    <3> QED BY <3>1, Least, Zenon
  <2> HIDE DEF m
  <2>2. m \in 0 .. L /\ stack[m] \notin Paths
    BY <2>1
  <2>3. stack[0] = <<>>
    BY <1>1, <1>5
  <2>4. m # 0
    <3>1. <<>> \in Paths
      BY DEF Paths
    <3> QED BY <2>2, <2>3, <3>1
  <2>5. m \in Nat /\ m - 1 \in 0 .. L /\ m - 1 < m
    BY <1>1, <2>2, <2>4
  <2>6. stack[m - 1] \in Paths
    BY <2>1, <2>5
  <2>7. stack[m] = push_component(stack[m - 1], parts[m])
    BY <1>5, <2>2, <2>4
  <2>8. parts[m] \in STRING
    BY <1>1, <2>2, <2>4
  <2> QED BY <2>2, <2>6, <2>7, <2>8, PushType
<1>8. L \in 0 .. L
  BY <1>1
<1> QED BY <1>6, <1>7, <1>8

\* A request's path becomes a path of the phone, and a relative one a path
\* below the device root.
LEMMA ResolveType ==
    ASSUME NEW raw \in [abs : BOOLEAN, parts : Paths]
    PROVE  /\ resolve_remote_path(raw) \in Paths
           /\ ~raw.abs => IsPrefix(Root, resolve_remote_path(raw))
<1>1. Root \in Paths /\ IsPrefix(Root, Root)
  BY PathsAssumption, PrefixRefl DEF Paths
<1>2. raw.parts \in Paths /\ raw.abs \in BOOLEAN
  OBVIOUS
<1>3. Root \o raw.parts \in Paths
  BY <1>1, <1>2, PrefixConcat
<1>4. normalize_remote_path(Root \o raw.parts) \in Paths
  BY <1>3, NormalizeType
<1>5. CASE ~raw.abs
  BY <1>1, <1>4, <1>5 DEF resolve_remote_path
<1>6. CASE raw.abs
  <2>1. normalize_remote_path(raw.parts) \in Paths
    BY <1>2, NormalizeType
  <2>2. raw.parts # <<>> => normalize_remote_path(Root \o Tail(raw.parts)) \in Paths
    <3> SUFFICES ASSUME raw.parts # <<>> PROVE normalize_remote_path(Root \o Tail(raw.parts)) \in Paths
      OBVIOUS
    <3>1. Tail(raw.parts) \in Paths
      BY <1>2 DEF Paths
    <3>2. Root \o Tail(raw.parts) \in Paths
      BY <1>1, <3>1, PrefixConcat
    <3> QED BY <3>2, NormalizeType
  <2> QED BY <1>6, <2>1, <2>2 DEF resolve_remote_path
<1> QED BY <1>2, <1>5, <1>6

-----------------------------------------------------------------------------
(***************************************************************************)
(* File systems.                                                           *)
(***************************************************************************)

LEMMA EntryFacts ==
    /\ {"none", "dir", "torn", "partial"} \subseteq Entries /\ Contents \subseteq Entries
    /\ \A e \in Contents : IsFile(e) /\ e # "partial"
    /\ RemoteInit \in Remotes /\ LocalInit \in Locals
    /\ DOMAIN RemoteInit \subseteq Paths \ {<<>>} /\ DOMAIN LocalInit \subseteq Paths \ {<<>>}
    /\ IsFiniteSet(DOMAIN RemoteInit) /\ IsFiniteSet(DOMAIN LocalInit)
    /\ \A p \in DOMAIN RemoteInit : RemoteInit[p] # "partial"
    /\ \A p \in DOMAIN LocalInit : LocalInit[p] # "partial"
BY FilesAssumption DEF FileSystem, Entries, Remotes, Locals, Paths, Range1, IsFile

LEMMA AtType ==
    ASSUME NEW D, NEW fs \in [D -> Entries], NEW p
    PROVE  At(fs, p) \in Entries
BY EntryFacts DEF At

\* create_dir_all makes directories where nothing was, and nothing else.
Grown(fs, new) ==
    /\ new \in [DOMAIN fs -> Entries]
    /\ \A q \in DOMAIN fs : new[q] = fs[q] \/ (fs[q] = "none" /\ new[q] = "dir")

LEMMA CanMakeDirsPrefix ==
    ASSUME NEW fs, DOMAIN fs \subseteq Paths \ {<<>>}, NEW p \in Paths, CanMakeDirs(fs, p),
           NEW q \in DOMAIN fs, IsPrefix(q, p)
    PROVE  fs[q] \in {"none", "dir"}
<1>1. q \in Paths /\ q # <<>> /\ Len(q) \in Nat /\ Len(p) \in Nat
  BY DEF Paths
<1>2. Len(q) \in 1 .. Len(p)
  <2>1. Len(q) # 0
    BY <1>1 DEF Paths
  <2> QED BY <1>1, <2>1, PrefixDef
<1>3. SubSeq(p, 1, Len(q)) = q
  <2>1. \A n \in 1 .. Len(q) : q[n] = p[n]
    BY <1>1, PrefixDef
  <2> QED BY <1>1, <1>2, <2>1 DEF Paths
<1> QED BY <1>2, <1>3 DEF CanMakeDirs, IsFile

LEMMA MirrorGrows ==
    ASSUME NEW fs \in Locals, NEW P \in SUBSET Paths, \A p \in P : CanMakeDirs(fs, p)
    PROVE  Grown(fs, [q \in DOMAIN fs |-> IF \E p \in P : IsPrefix(q, p) THEN "dir" ELSE fs[q]])
<1>1. DOMAIN fs \subseteq Paths \ {<<>>} /\ "dir" \in Entries
  BY EntryFacts DEF Locals
<1>2. ASSUME NEW q \in DOMAIN fs, NEW p \in P, IsPrefix(q, p) PROVE fs[q] \in {"none", "dir"}
  BY <1>1, <1>2, CanMakeDirsPrefix
<1>3. \A q \in DOMAIN fs : fs[q] \in Entries
  BY DEF Locals
<1> DEFINE new == [q \in DOMAIN fs |-> IF \E p \in P : IsPrefix(q, p) THEN "dir" ELSE fs[q]]
<1>4. new \in [DOMAIN fs -> Entries]
  BY <1>1, <1>3
<1>5. ASSUME NEW q \in DOMAIN fs PROVE new[q] = fs[q] \/ (fs[q] = "none" /\ new[q] = "dir")
  <2>1. CASE \E p \in P : IsPrefix(q, p)
    <3>1. fs[q] \in {"none", "dir"}
      BY <1>2, <2>1, Zenon
    <3>2. new[q] = "dir"
      BY <2>1
    <3> QED BY <3>1, <3>2
  <2>2. CASE ~ \E p \in P : IsPrefix(q, p)
    <3>1. new[q] = IF \E p \in P : IsPrefix(q, p) THEN "dir" ELSE fs[q]
      OBVIOUS
    <3> HIDE DEF new
    <3>2. new[q] = fs[q]
      BY <2>2, <3>1, Zenon
    <3> QED BY <3>2
  <2> QED BY <2>1, <2>2
<1> HIDE DEF new
<1>6. Grown(fs, new)
  BY <1>4, <1>5 DEF Grown
<1> QED BY <1>6 DEF new

-----------------------------------------------------------------------------
(***************************************************************************)
(* The steps, by what they can disturb.                                    *)
(***************************************************************************)

LEMMA NoEscape ==
    ASSUME NEW S, S \subseteq [abs : BOOLEAN, parts : Paths], NoteEscape(S), InsideRoot
    PROVE  ~escaped'
BY ResolveType DEF NoteEscape, InsideRoot

LEMMA RelativeType ==
    ASSUME NEW p \in Paths
    PROVE  /\ Relative(p) \in [abs : BOOLEAN, parts : Paths] /\ ~Relative(p).abs
           /\ resolve_remote_path(Relative(p)) \in Paths
<1>1. Relative(p) \in [abs : BOOLEAN, parts : Paths] /\ ~Relative(p).abs
  BY DEF Relative
<1> QED BY <1>1, ResolveType

LEMMA PlanBeginsStep ==
    ASSUME Typed, InsideRoot, Staged,
           NEW dir \in Directions, NEW recursive \in BOOLEAN, NEW overwrite \in BOOLEAN,
           NEW sources \in Sources[dir], NEW dest \in Destinations[dir],
           PlanBegins(dir, sources, dest, recursive, overwrite)
    PROVE  /\ plan' \in Plans /\ ~escaped' /\ plan'.items = <<>> /\ plan'.conflicts = plan.conflicts
           /\ plan'.dir = dir /\ plan'.phase \in {"planning", "error"} /\ plan.phase = "none"
           /\ plan'.todo = sources /\ plan'.count = Len(sources) /\ plan'.checked
           /\ UNCHANGED <<files, alive, exec, batch, temps, transfer, others, touched, base, replied>>
<1>1. sources \in Seq(Paths) /\ dest \in Paths
  BY RequestsAssumption DEF Directions, Paths
<1>2. resolve_remote_path(Relative(dest)) \in Paths
  BY <1>1, RelativeType
<1>3. ~escaped'
  <2>1. CASE dir = "Upload"
    <3>1. NoteEscape({Relative(dest)})
      BY <2>1 DEF PlanBegins
    <3>2. {Relative(dest)} \subseteq [abs : BOOLEAN, parts : Paths]
      BY <1>1, RelativeType
    <3> QED BY <3>1, <3>2, NoEscape
  <2>2. CASE dir # "Upload"
    BY <2>2 DEF PlanBegins, InsideRoot
  <2> QED BY <2>1, <2>2
<1> DEFINE at == IF dir = "Upload" THEN resolve_remote_path(Relative(dest)) ELSE dest
           ph == IF dir = "Download" \/ stat_answered(at) THEN "planning" ELSE "error"
           isd == (dir = "Upload" /\ IsDir(remote, at))
<1>4. at \in Paths /\ isd \in BOOLEAN
  BY <1>1, <1>2
<1>5. plan' = [plan EXCEPT !.phase = ph, !.dir = dir, !.todo = sources, !.dest = at,
                  !.count = Len(sources), !.destIsDir = isd,
                  !.recursive = recursive, !.overwrite = overwrite, !.checked = TRUE]
  BY DEF PlanBegins
<1>6. plan \in Plans /\ plan.phase = "none" /\ Len(sources) \in Nat
  BY <1>1 DEF Typed, PlanBegins
<1>7. ph \in {"planning", "error"}
  OBVIOUS
<1> HIDE DEF at, ph, isd
<1>8. plan' \in Plans
  BY <1>1, <1>4, <1>5, <1>6, <1>7, ZenonT(60) DEF Plans
<1>9. /\ plan'.dir = dir /\ plan'.phase = ph /\ plan'.items = plan.items /\ plan'.conflicts = plan.conflicts
      /\ plan'.todo = sources /\ plan'.count = Len(sources) /\ plan'.checked
  BY <1>5, <1>6 DEF Plans
<1>10. UNCHANGED <<files, alive, exec, batch, temps, transfer, others, touched, base, replied>>
  BY DEF PlanBegins
<1> QED BY <1>3, <1>6, <1>7, <1>8, <1>9, <1>10 DEF Staged

LEMMA ResolveDestination ==
    ASSUME NEW dest \in Paths, NEW isDir \in BOOLEAN, NEW src \in Paths, NEW count \in Nat,
           NEW d \in resolve_destination(dest, isDir, src, count)
    PROVE  d \in Paths /\ (count > 1 => Len(d) = Len(dest) + 1) /\ (isDir \/ dest # <<>> => d # <<>>)
<1>1. CASE src = <<>>
  BY <1>1 DEF resolve_destination
<1>2. CASE src # <<>>
  <2>1. d = Append(dest, Last(src)) \/ (d = dest /\ ~(count > 1) /\ isDir = FALSE)
    <3>1. CASE isDir = TRUE
      <4>1. resolve_destination(dest, TRUE, src, count) = {Append(dest, Last(src))}
        BY <1>2, Zenon DEF resolve_destination
      <4> QED BY <3>1, <4>1
    <3>2. CASE isDir = FALSE
      BY <1>2, <3>2 DEF resolve_destination
    <3> QED BY <3>1, <3>2
  <2>2. Last(src) \in STRING
    BY <1>2 DEF Last, Paths
  <2>3. Append(dest, Last(src)) \in Paths /\ Len(Append(dest, Last(src))) = Len(dest) + 1
    BY <2>2, AppendType DEF Paths
  <2>4. Append(dest, Last(src)) # <<>>
    <3>1. Len(dest) \in Nat
      BY DEF Paths
    <3>2. Len(Append(dest, Last(src))) # 0
      BY <2>3, <3>1
    <3> QED BY <3>2
  <2> QED BY <2>1, <2>3, <2>4
<1> QED BY <1>1, <1>2

LEMMA InspectDestination ==
    ASSUME NEW e, NEW isDir \in BOOLEAN, NEW overwrite \in BOOLEAN
    PROVE  /\ inspect_destination(e, isDir, overwrite) \subseteq [kind : ConflictKinds, overridable : BOOLEAN]
           /\ isDir /\ IsFile(e) => Mismatch \in inspect_destination(e, isDir, overwrite)
<1>1. Mismatch \in [kind : ConflictKinds, overridable : BOOLEAN]
  BY DEF Mismatch, Conflict, ConflictKinds
<1>2. Conflict("DestinationExists", overwrite) \in [kind : ConflictKinds, overridable : BOOLEAN]
  BY DEF Conflict, ConflictKinds
<1>3. CASE e = "none"
  BY <1>3 DEF inspect_destination, IsFile
<1>4. CASE e # "none" /\ (e = "dir") # isDir
  <2>1. inspect_destination(e, isDir, overwrite) = {Mismatch}
    BY <1>4 DEF inspect_destination, Mismatch, IsFile
  <2> QED BY <1>1, <2>1
<1>5. CASE e # "none" /\ (e = "dir") = isDir
  BY <1>2, <1>5 DEF inspect_destination, IsFile
<1> QED BY <1>3, <1>4, <1>5

\* What one source adds to the plan.
LEMMA PlanSourceStep ==
    ASSUME Typed, InsideRoot, PlanSource
    PROVE  LET src == IF plan.dir = "Download" THEN resolve_remote_path(Relative(Head(plan.todo)))
                      ELSE Head(plan.todo)
               entry == At(Src, src)
           IN  /\ plan' \in Plans /\ ~escaped' /\ plan.phase = "planning" /\ plan'.phase # "planned"
               /\ plan'.dir = plan.dir /\ plan'.dest = plan.dest /\ plan'.count = plan.count
               /\ plan'.checked = plan.checked /\ plan'.phase # "none" /\ plan.conflicts \subseteq plan'.conflicts
               /\ \/ plan'.items = plan.items /\ Len(plan'.todo) <= Len(plan.todo)
                  \/ \E d \in Paths :
                       LET it == [src |-> src, dst |-> d, isDir |-> entry = "dir"]
                       IN  /\ plan'.items = Append(plan.items, it) /\ it \in PlanItems
                           /\ Len(plan'.todo) = Len(plan.todo) - 1 /\ plan'.phase = "planning"
                           /\ plan.count > 1 => Len(d) = Len(plan.dest) + 1
                           /\ plan.dir = "Download" => d # <<>>
                           /\ entry # "none"
                           /\ entry = "dir" /\ IsFile(At(Dst, d)) => Mismatch \in plan'.conflicts
               /\ UNCHANGED <<files, alive, exec, batch, temps, transfer, others, touched, base, replied>>
<1> DEFINE raw == Relative(Head(plan.todo))
           src == IF plan.dir = "Download" THEN resolve_remote_path(raw) ELSE Head(plan.todo)
           entry == At(Src, src)
           destIsDir == IF plan.dir = "Download" THEN IsDir(local, plan.dest) ELSE plan.destIsDir
           dst == resolve_destination(plan.dest, destIsDir, src, plan.count)
           recursion == IF entry = "dir" /\ ~plan.recursive
                        THEN {Conflict("RecursiveRequired", TRUE)} ELSE {}
           next == [plan EXCEPT !.todo = Tail(plan.todo)]
           it(d) == [src |-> src, dst |-> d, isDir |-> entry = "dir"]
           found(d) == inspect_destination(At(Dst, d), entry = "dir", plan.overwrite)
           Cs == [kind : ConflictKinds, overridable : BOOLEAN]
<1>1. /\ plan \in Plans /\ plan.phase = "planning" /\ plan.todo \in Seq(Paths) /\ plan.todo # <<>>
      /\ plan.dest \in Paths /\ plan.count \in Nat /\ plan.items \in Seq(PlanItems)
      /\ plan.conflicts \subseteq Cs
  BY DEF Typed, PlanSource, Plans
<1>2. /\ Head(plan.todo) \in Paths /\ Tail(plan.todo) \in Seq(Paths)
      /\ Len(Tail(plan.todo)) = Len(plan.todo) - 1 /\ Len(plan.todo) \in Nat
  BY <1>1
<1>3. src \in Paths
  BY <1>2, RelativeType
<1>4. ~escaped'
  <2>1. CASE plan.dir = "Download"
    <3>1. NoteEscape({raw}) /\ {raw} \subseteq [abs : BOOLEAN, parts : Paths]
      BY <1>2, <2>1, RelativeType DEF PlanSource
    <3> QED BY <3>1, NoEscape
  <2>2. CASE plan.dir # "Download"
    BY <2>2 DEF PlanSource, InsideRoot
  <2> QED BY <2>1, <2>2
<1>5. UNCHANGED <<files, alive, exec, batch, temps, transfer, others, touched, base, replied>>
  BY DEF PlanSource
<1>6. \A d \in dst : /\ d \in Paths /\ (plan.count > 1 => Len(d) = Len(plan.dest) + 1)
                     /\ plan.dir = "Download" => d # <<>>
  <2>1. destIsDir \in BOOLEAN
    BY <1>1 DEF Plans, IsDir
  <2>2. plan.dir = "Download" => destIsDir \/ plan.dest # <<>>
    BY DEF IsDir
  <2> HIDE DEF src, destIsDir
  <2> QED BY <1>1, <1>3, <2>1, <2>2, ResolveDestination
<1>7. /\ Mismatch \in Cs /\ Conflict("SourceMissing", FALSE) \in Cs /\ recursion \subseteq Cs
      /\ \A d : found(d) \subseteq Cs
  <2>1. Mismatch \in Cs /\ Conflict("SourceMissing", FALSE) \in Cs
        /\ Conflict("RecursiveRequired", TRUE) \in Cs
    BY DEF Conflict, ConflictKinds, Mismatch
  <2>2. recursion \subseteq Cs
    <3> HIDE DEF Cs, src
    <3> QED BY <2>1
  <2>3. plan.overwrite \in BOOLEAN
    BY <1>1 DEF Plans
  <2>4. ASSUME NEW d PROVE found(d) \subseteq Cs
    <3> HIDE DEF src
    <3> QED BY <2>3, InspectDestination
  <2> QED BY <2>1, <2>2, <2>4
<1>8. ASSUME NEW d, entry = "dir", IsFile(At(Dst, d)) PROVE Mismatch \in found(d)
  <2>1. plan.overwrite \in BOOLEAN
    BY <1>1 DEF Plans
  <2> HIDE DEF src
  <2> QED BY <1>8, <2>1, InspectDestination
<1> DEFINE P1 == plan' = [plan EXCEPT !.phase = "error"]
           P2 == plan' = [next EXCEPT !.conflicts = plan.conflicts \cup {Conflict("SourceMissing", FALSE)}]
           P3 == plan' = [next EXCEPT !.conflicts = plan.conflicts \cup recursion \cup {Mismatch}]
           P4(d) == plan' = [next EXCEPT !.conflicts = plan.conflicts \cup recursion \cup found(d),
                                         !.items = Append(plan.items, it(d))]
<1> DEFINE unanswered == \/ plan.dir = "Download" /\ ~stat_answered(src)
                         \/ plan.dir = "Upload" /\ entry # "none" /\ \E d \in dst : ~stat_answered(d)
<1>9. P1 \/ P2 \/ P3 \/ (entry # "none" /\ \E d \in dst : P4(d))
  <2>1. CASE unanswered
    BY <2>1, ZenonT(60) DEF PlanSource
  <2>2. CASE ~unanswered /\ entry = "none"
    BY <2>2 DEF PlanSource
  <2>3. CASE ~unanswered /\ entry # "none" /\ dst = {}
    BY <2>3 DEF PlanSource, Mismatch
  <2>4. CASE ~unanswered /\ entry # "none" /\ dst # {}
    <3>1. P4(CHOOSE d \in dst : TRUE)
      BY <2>4 DEF PlanSource
    <3> HIDE DEF P4, dst, src
    <3> QED BY <2>4, <3>1
  <2> HIDE DEF unanswered
  <2> QED BY <2>1, <2>2, <2>3, <2>4
<1> HIDE DEF raw, src, destIsDir, dst, recursion, found
<1>10. next \in Plans /\ next.todo = Tail(plan.todo) /\ next.items = plan.items /\ next.phase = "planning"
       /\ next.dir = plan.dir /\ next.dest = plan.dest /\ next.count = plan.count
       /\ next.checked = plan.checked /\ next.conflicts = plan.conflicts
  BY <1>1, <1>2 DEF Plans
<1> HIDE DEF next, Cs
<1> DEFINE Keeps == /\ plan' \in Plans /\ plan'.phase \in {"planning", "error"}
                    /\ plan'.dir = plan.dir /\ plan'.dest = plan.dest /\ plan'.count = plan.count
                    /\ plan'.checked = plan.checked /\ plan.conflicts \subseteq plan'.conflicts
<1>11. CASE P1
  <2>1. Keeps /\ plan'.items = plan.items /\ plan'.todo = plan.todo
    BY <1>1, <1>11 DEF Plans
  <2> QED BY <1>1, <1>2, <1>4, <1>5, <2>1 DEF src, raw
<1>12. CASE P2 \/ P3
  <2> PICK c : c \subseteq Cs /\ plan' = [next EXCEPT !.conflicts = plan.conflicts \cup c]
    <3>1. CASE P2
      BY <1>7, <3>1
    <3>2. CASE P3
      <4>1. recursion \cup {Mismatch} \subseteq Cs
            /\ plan.conflicts \cup recursion \cup {Mismatch} = plan.conflicts \cup (recursion \cup {Mismatch})
        BY <1>7
      <4> QED BY <3>2, <4>1
    <3> QED BY <1>12, <3>1, <3>2
  <2>0. plan.conflicts \cup c \subseteq Cs
    BY <1>1
  <2>1. Keeps /\ plan'.items = plan.items /\ plan'.todo = Tail(plan.todo)
    BY <1>10, <2>0 DEF Plans, Cs
  <2>2. Len(plan'.todo) <= Len(plan.todo)
    <3>1. plan'.todo = Tail(plan.todo)
      BY <2>1
    <3> QED BY ONLY <1>2, <3>1
  <2> QED BY <1>1, <1>4, <1>5, <2>1, <2>2 DEF src, raw
<1>13. CASE entry # "none" /\ \E d \in dst : P4(d)
  <2> PICK d \in dst : P4(d)
    BY <1>13
  <2>1. /\ d \in Paths /\ (plan.count > 1 => Len(d) = Len(plan.dest) + 1)
        /\ plan.dir = "Download" => d # <<>>
    BY <1>6
  <2>2. it(d) \in PlanItems
    BY <1>3, <2>1 DEF PlanItems
  <2>3. Append(plan.items, it(d)) \in Seq(PlanItems)
    BY <1>1, <2>2, AppendType
  <2>4. plan.conflicts \cup recursion \cup found(d) \subseteq Cs
    BY <1>1, <1>7
  <2>5. Keeps /\ plan'.items = Append(plan.items, it(d)) /\ plan'.todo = Tail(plan.todo)
        /\ plan'.phase = "planning" /\ plan'.conflicts = plan.conflicts \cup recursion \cup found(d)
    <3> HIDE DEF it
    <3> QED BY <1>10, <2>3, <2>4 DEF Plans, Cs
  <2>6. entry = "dir" /\ IsFile(At(Dst, d)) => Mismatch \in plan'.conflicts
    BY <1>8, <2>5
  <2> QED BY <1>1, <1>2, <1>4, <1>5, <1>13, <2>1, <2>2, <2>5, <2>6 DEF src, raw
<1> QED BY <1>9, <1>11, <1>12, <1>13

\* One step of item i, which becomes b: its temporary file, what it writes, what
\* it looked at first and where its contents come from.
Receiving == {"receive", "rest", "got"}
TempKept(i, b) ==
    \/ temps' = temps \cup {i} /\ b.st \in Receiving
    \/ temps' = temps \ {i} /\ b.st \notin Receiving
    \/ temps' = temps /\ (b.st \in Receiving <=> batch[i].st \in Receiving)
Written(i, b) ==
    \/ UNCHANGED files /\ b.st # "ok"
    \/ /\ plan.dir = "Download" /\ batch[i].st = "got" /\ b.st = "ok"
       /\ CanHold(local, b.dst) /\ local' = [local EXCEPT ![b.dst] = batch[i].body] /\ UNCHANGED remote
    \/ /\ plan.dir = "Upload" /\ batch[i].st = "complete" /\ CanHold(remote, b.dst) /\ UNCHANGED local
       /\ \E e \in {At(remote, b.dst), "partial", batch[i].body} :
             /\ remote' = [remote EXCEPT ![b.dst] = e]
             /\ b.st = "failed" \/ (b.st = "ok" /\ e = batch[i].body)
Asked(i, b) ==
    b.st \in Writing /\ batch[i].st \notin Writing => exec.overwrite \/ At(Dst, b.dst) = "none"
Contained(i, b) ==
    LET e == At(Src, b.src)
    IN  /\ plan.dir = "Download" => /\ b.head \in {batch[i].head, e}
                                    /\ b.body \in {batch[i].body, batch[i].head, e, "torn"}
        /\ b.st = "got" /\ b.md5 => b.body = b.head
        /\ b.st = "receive" => b.head = e /\ IsFile(e)
        /\ b.st = "rest" => /\ batch[i].st = "receive" /\ b.head = batch[i].head
                            /\ IsFile(e) => b.body = e
        /\ b.st = "got" => /\ batch[i].st = "rest" /\ b.head = batch[i].head
                           /\ IsFile(e) /\ batch[i].body = e => b.body = e
        /\ b.st = "complete" => b.body = e /\ IsFile(e)
ItemStep(i, b) ==
    /\ batch' = [batch EXCEPT ![i] = b] /\ b.src = batch[i].src /\ b.dst = batch[i].dst
    /\ ItemFrame /\ exec.phase = "items"
    /\ TempKept(i, b) /\ Written(i, b) /\ Asked(i, b) /\ Contained(i, b)

LEMMA BatchType ==
    ASSUME Typed
    PROVE  /\ DOMAIN batch \subseteq Nat /\ \A i \in DOMAIN batch : batch[i] \in BatchItems
           /\ batch = [i \in DOMAIN batch |-> batch[i]]
BY NumberedType DEF Typed

Fails(i) ==
    \/ Fail(i, "Interrupted") \/ Fail(i, "LocalIo") \/ Fail(i, "RemoteIo")
    \/ Fail(i, "Transport") \/ Fail(i, "Protocol")

LEMMA FailStep ==
    ASSUME Typed, Staged, NEW i \in DOMAIN batch, Fails(i), ItemFrame,
           UNCHANGED files, batch[i].st # "ok"
    PROVE  \E b \in BatchItems : ItemStep(i, b)
<1>0. PICK code \in Codes : /\ batch' = [batch EXCEPT ![i].st = "failed", ![i].code = code]
                            /\ temps' = temps \ {i}
  BY DEF Fails, Fail, Codes
<1> DEFINE b == [batch[i] EXCEPT !.st = "failed", !.code = code]
<1>1. batch[i] \in BatchItems /\ batch = [k \in DOMAIN batch |-> batch[k]]
  BY BatchType
<1>2. /\ b \in BatchItems /\ b.src = batch[i].src /\ b.dst = batch[i].dst /\ b.st = "failed"
      /\ b.head = batch[i].head /\ b.body = batch[i].body
  BY <1>1 DEF BatchItems, ItemStates
<1>3. batch' = [batch EXCEPT ![i] = b]
  BY <1>0, <1>1
<1>4. exec.phase = "items"
  BY DEF Staged
<1> HIDE DEF b
<1>5. TempKept(i, b)
  BY <1>0, <1>2 DEF TempKept, Receiving
<1>6. Written(i, b)
  BY <1>2 DEF Written
<1>7. Asked(i, b) /\ Contained(i, b)
  BY <1>2 DEF Asked, Contained, Writing
<1>8. ItemStep(i, b)
  BY <1>2, <1>3, <1>4, <1>5, <1>6, <1>7 DEF ItemStep
<1> QED BY <1>2, <1>8

LEMMA GoStep ==
    ASSUME Typed, Staged, NEW i \in DOMAIN batch,
           NEW st \in ItemStates \ {"ok", "receive", "rest", "got", "complete"}, Go(i, st), ItemFrame,
           UNCHANGED files, batch[i].st \notin Receiving,
           st \in Writing /\ batch[i].st \notin Writing => exec.overwrite \/ At(Dst, batch[i].dst) = "none"
    PROVE  \E b \in BatchItems : ItemStep(i, b)
<1> DEFINE b == [batch[i] EXCEPT !.st = st]
<1>1. batch[i] \in BatchItems /\ batch = [k \in DOMAIN batch |-> batch[k]]
  BY BatchType
<1>2. /\ b \in BatchItems /\ b.src = batch[i].src /\ b.dst = batch[i].dst /\ b.st = st
      /\ b.head = batch[i].head /\ b.body = batch[i].body
  BY <1>1 DEF BatchItems
<1>3. batch' = [batch EXCEPT ![i] = b]
  BY <1>1 DEF Go
<1>4. exec.phase = "items"
  BY DEF Staged
<1> HIDE DEF b
<1>5. TempKept(i, b)
  BY <1>2 DEF Go, TempKept, Receiving
<1>6. Written(i, b)
  BY <1>2 DEF Written
<1>7. Asked(i, b) /\ Contained(i, b)
  BY <1>2 DEF Asked, Contained
<1>8. ItemStep(i, b)
  BY <1>2, <1>3, <1>4, <1>5, <1>6, <1>7 DEF ItemStep
<1> QED BY <1>2, <1>8

LEMMA DownloadSteps ==
    ASSUME Typed, Staged, NEW i \in DOMAIN batch,
           DownloadStarts(i) \/ DownloadHeader(i) \/ DownloadChunk(i) \/ DownloadBody(i)
    PROVE  \E b \in BatchItems : ItemStep(i, b)
<1>1. /\ batch[i] \in BatchItems /\ batch = [k \in DOMAIN batch |-> batch[k]]
      /\ exec.phase = "items" /\ remote \in Remotes
  BY BatchType DEF Staged, Typed
<1> DEFINE e == At(remote, batch[i].src)
<1>2. e \in Entries
  BY <1>1, AtType DEF Remotes
<1>3. plan.dir = "Download" /\ ItemFrame /\ UNCHANGED files /\ Src = remote /\ Dst = local
  BY DEF DownloadStarts, DownloadHeader, DownloadChunk, DownloadBody, Src, Dst
<1>5. CASE DownloadStarts(i)
  <2>1. batch[i].st = "wait"
    BY <1>5 DEF DownloadStarts, MayStart
  <2>2. CASE Go(i, "asked") /\ (At(local, batch[i].dst) # "none" => exec.overwrite)
    BY <1>3, <2>1, <2>2, GoStep DEF ItemStates, Writing, Receiving
  <2>3. \/ Fails(i)
        \/ Go(i, "asked") /\ (At(local, batch[i].dst) # "none" => exec.overwrite)
    BY <1>5 DEF DownloadStarts, Fails
  <2>4. CASE Fails(i)
    BY <1>3, <2>1, <2>4, FailStep
  <2> QED BY <2>2, <2>3, <2>4
<1>6. CASE DownloadHeader(i)
  <2>1. batch[i].st = "asked"
    BY <1>6 DEF DownloadHeader
  <2>2. CASE \E md5 \in BOOLEAN :
                /\ batch' = [batch EXCEPT ![i].st = "receive", ![i].head = e, ![i].md5 = md5]
                /\ temps' = temps \cup {i} /\ IsFile(e)
    <3> PICK md5 \in BOOLEAN :
                /\ batch' = [batch EXCEPT ![i].st = "receive", ![i].head = e, ![i].md5 = md5]
                /\ temps' = temps \cup {i} /\ IsFile(e)
      BY <2>2
    <3> DEFINE b == [batch[i] EXCEPT !.st = "receive", !.head = e, !.md5 = md5]
    <3> HIDE DEF e
    <3>1. /\ b \in BatchItems /\ b.src = batch[i].src /\ b.dst = batch[i].dst /\ b.st = "receive"
          /\ b.head = e /\ b.body = batch[i].body
      BY <1>1, <1>2 DEF BatchItems, ItemStates
    <3>2. batch' = [batch EXCEPT ![i] = b]
      BY <1>1
    <3> HIDE DEF b
    <3>3. TempKept(i, b) /\ Written(i, b) /\ Asked(i, b)
      BY <1>3, <2>1, <3>1 DEF TempKept, Written, Asked, Receiving, Writing
    <3>4. Contained(i, b)
      BY <1>3, <3>1 DEF Contained, e
    <3>5. ItemStep(i, b)
      BY <1>1, <1>3, <3>1, <3>2, <3>3, <3>4 DEF ItemStep
    <3> QED BY <3>1, <3>5
  <2>3. \/ Fails(i)
        \/ \E md5 \in BOOLEAN :
                /\ batch' = [batch EXCEPT ![i].st = "receive", ![i].head = e, ![i].md5 = md5]
                /\ temps' = temps \cup {i} /\ IsFile(e)
    BY <1>6 DEF DownloadHeader, Fails
  <2>4. CASE Fails(i)
    BY <1>3, <2>1, <2>4, FailStep
  <2> QED BY <2>2, <2>3, <2>4
<1>7. CASE DownloadChunk(i)
  <2>1. batch[i].st = "receive"
    BY <1>7 DEF DownloadChunk
  <2>2. CASE batch' = [batch EXCEPT ![i].st = "rest", ![i].body = Read(i)] /\ UNCHANGED temps
    <3> DEFINE b == [batch[i] EXCEPT !.st = "rest", !.body = Read(i)]
    <3>0. Read(i) = (IF IsFile(e) THEN e ELSE batch[i].head) /\ Read(i) \in Entries
      BY <1>1, <1>2 DEF Read, BatchItems
    <3> HIDE DEF e
    <3>1. /\ b \in BatchItems /\ b.src = batch[i].src /\ b.dst = batch[i].dst /\ b.st = "rest"
          /\ b.head = batch[i].head /\ b.body = Read(i)
      BY <1>1, <3>0 DEF BatchItems, ItemStates
    <3>2. batch' = [batch EXCEPT ![i] = b]
      BY <1>1, <2>2
    <3> HIDE DEF b
    <3>3. TempKept(i, b) /\ Written(i, b) /\ Asked(i, b)
      BY <1>3, <2>1, <2>2, <3>1 DEF TempKept, Written, Asked, Receiving, Writing
    <3>4. Contained(i, b)
      BY <1>3, <2>1, <3>0, <3>1 DEF Contained, e
    <3>5. ItemStep(i, b)
      BY <1>1, <1>3, <3>1, <3>2, <3>3, <3>4 DEF ItemStep
    <3> QED BY <3>1, <3>5
  <2>3. Fails(i) \/ (batch' = [batch EXCEPT ![i].st = "rest", ![i].body = Read(i)] /\ UNCHANGED temps)
    BY <1>7 DEF DownloadChunk, Fails
  <2>4. CASE Fails(i)
    BY <1>3, <2>1, <2>4, FailStep
  <2> QED BY <2>2, <2>3, <2>4
<1>8. CASE DownloadBody(i)
  <2>1. batch[i].st = "rest"
    BY <1>8 DEF DownloadBody
  <2> DEFINE body == IF Read(i) = batch[i].body THEN batch[i].body ELSE "torn"
             Gets == /\ batch' = [batch EXCEPT ![i].st = "got", ![i].body = body] /\ UNCHANGED temps
                     /\ batch[i].md5 => body = batch[i].head
  <2>2. CASE Gets
    <3> DEFINE b == [batch[i] EXCEPT !.st = "got", !.body = body]
    <3>0. Read(i) = (IF IsFile(e) THEN e ELSE batch[i].head) /\ body \in Entries
      BY <1>1, <1>2, EntryFacts DEF Read, BatchItems
    <3>1. /\ b \in BatchItems /\ b.src = batch[i].src /\ b.dst = batch[i].dst /\ b.st = "got"
          /\ b.head = batch[i].head /\ b.body = body /\ b.md5 = batch[i].md5
      <4> HIDE DEF body
      <4> QED BY <1>1, <3>0 DEF BatchItems, ItemStates
    <3>2. batch' = [batch EXCEPT ![i] = b]
      BY <1>1, <2>2
    <3>3. body \in {batch[i].body, "torn"} /\ (IsFile(e) /\ batch[i].body = e => body = e)
      BY <3>0
    <3> HIDE DEF b, e
    <3>4. TempKept(i, b) /\ Written(i, b) /\ Asked(i, b)
      BY <1>3, <2>1, <2>2, <3>1 DEF TempKept, Written, Asked, Receiving, Writing
    <3> HIDE DEF body
    <3>5. Contained(i, b)
      BY <1>3, <2>1, <2>2, <3>1, <3>3 DEF Contained, e
    <3>6. ItemStep(i, b)
      BY <1>1, <1>3, <3>1, <3>2, <3>4, <3>5 DEF ItemStep
    <3> QED BY <3>1, <3>6
  <2>3. Fails(i) \/ Gets
    BY <1>8 DEF DownloadBody, Fails
  <2>4. CASE Fails(i)
    BY <1>3, <2>1, <2>4, FailStep
  <2> QED BY <2>2, <2>3, <2>4
<1> QED BY <1>5, <1>6, <1>7, <1>8

LEMMA RenameStep ==
    ASSUME Typed, Staged, NEW i \in DOMAIN batch, DownloadRenames(i)
    PROVE  \E b \in BatchItems : ItemStep(i, b)
<1>1. /\ batch[i] \in BatchItems /\ batch = [k \in DOMAIN batch |-> batch[k]]
      /\ exec.phase = "items"
  BY BatchType DEF Staged
<1>2. plan.dir = "Download" /\ ItemFrame /\ UNCHANGED remote /\ batch[i].st = "got"
  BY DEF DownloadRenames
<1>3. CASE CanHold(local, batch[i].dst)
  <2> DEFINE b == [batch[i] EXCEPT !.st = "ok"]
  <2>1. /\ local' = [local EXCEPT ![batch[i].dst] = batch[i].body]
        /\ batch' = [batch EXCEPT ![i].st = "ok"] /\ temps' = temps \ {i}
    BY <1>3 DEF DownloadRenames
  <2>2. /\ b \in BatchItems /\ b.src = batch[i].src /\ b.dst = batch[i].dst /\ b.st = "ok"
        /\ b.head = batch[i].head /\ b.body = batch[i].body
    BY <1>1 DEF BatchItems, ItemStates
  <2>3. batch' = [batch EXCEPT ![i] = b]
    BY <1>1, <2>1
  <2> HIDE DEF b
  <2>4. TempKept(i, b) /\ Asked(i, b) /\ Contained(i, b)
    BY <2>1, <2>2 DEF TempKept, Asked, Contained, Receiving, Writing
  <2>5. Written(i, b)
    BY <1>2, <1>3, <2>1, <2>2 DEF Written
  <2>6. ItemStep(i, b)
    BY <1>1, <1>2, <2>2, <2>3, <2>4, <2>5 DEF ItemStep
  <2> QED BY <2>2, <2>6
<1>4. CASE ~CanHold(local, batch[i].dst)
  <2>1. Fails(i) /\ UNCHANGED files
    BY <1>2, <1>4 DEF DownloadRenames, Fails, files
  <2> QED BY <1>2, <2>1, FailStep
<1> QED BY <1>3, <1>4

LEMMA UploadSteps ==
    ASSUME Typed, Staged, NEW i \in DOMAIN batch,
           \/ UploadStarts(i) \/ UploadExists(i) \/ file_md5(i) \/ UploadHeader(i) \/ UploadSends(i)
    PROVE  \E b \in BatchItems : ItemStep(i, b)
<1>1. /\ batch[i] \in BatchItems /\ batch = [k \in DOMAIN batch |-> batch[k]]
      /\ exec.phase = "items" /\ local \in Locals
  BY BatchType DEF Staged, Typed
<1> DEFINE e == At(local, batch[i].src)
<1>2. e \in Entries
  BY <1>1, AtType DEF Locals
<1>3. plan.dir = "Upload" /\ ItemFrame /\ UNCHANGED files /\ Src = local /\ Dst = remote
  BY DEF UploadStarts, UploadExists, file_md5, UploadHeader, UploadSends, Src, Dst
<1>4. CASE UploadStarts(i)
  <2>1. batch[i].st = "wait"
    BY <1>4 DEF UploadStarts, MayStart
  <2>2. CASE Go(i, "hash") /\ exec.overwrite
    BY <1>3, <2>1, <2>2, GoStep DEF ItemStates, Writing, Receiving
  <2>3. CASE Go(i, "exists")
    BY <1>3, <2>1, <2>3, GoStep DEF ItemStates, Writing, Receiving
  <2>4. CASE Fails(i)
    BY <1>3, <2>1, <2>4, FailStep
  <2>5. Fails(i) \/ Go(i, "exists") \/ (Go(i, "hash") /\ exec.overwrite)
    <3>1. CASE exec.overwrite
      BY <1>4, <3>1 DEF UploadStarts, Fails
    <3>2. CASE ~exec.overwrite
      BY <1>4, <3>2 DEF UploadStarts, Fails
    <3> QED BY <3>1, <3>2
  <2> QED BY <2>2, <2>3, <2>4, <2>5
<1>5. CASE UploadExists(i)
  <2>1. batch[i].st = "exists"
    BY <1>5 DEF UploadExists
  <2>2. CASE Go(i, "hash") /\ At(remote, batch[i].dst) = "none"
    BY <1>3, <2>1, <2>2, GoStep DEF ItemStates, Writing, Receiving
  <2>3. CASE Fails(i)
    BY <1>3, <2>1, <2>3, FailStep
  <2>4. Fails(i) \/ (Go(i, "hash") /\ At(remote, batch[i].dst) = "none")
    BY <1>5 DEF UploadExists, Fails, file_exists
  <2> QED BY <2>2, <2>3, <2>4
<1>6. CASE file_md5(i)
  <2>1. batch[i].st = "hash"
    BY <1>6 DEF file_md5
  <2>2. CASE batch' = [batch EXCEPT ![i].st = "header", ![i].head = e] /\ UNCHANGED temps
    <3> DEFINE b == [batch[i] EXCEPT !.st = "header", !.head = e]
    <3> HIDE DEF e
    <3>1. /\ b \in BatchItems /\ b.src = batch[i].src /\ b.dst = batch[i].dst /\ b.st = "header"
          /\ b.body = batch[i].body
      BY <1>1, <1>2 DEF BatchItems, ItemStates
    <3>2. batch' = [batch EXCEPT ![i] = b]
      BY <1>1, <2>2
    <3> HIDE DEF b
    <3>3. TempKept(i, b) /\ Written(i, b) /\ Asked(i, b) /\ Contained(i, b)
      BY <1>3, <2>1, <2>2, <3>1 DEF TempKept, Written, Asked, Contained, Receiving, Writing
    <3>4. ItemStep(i, b)
      BY <1>1, <1>3, <3>1, <3>2, <3>3 DEF ItemStep
    <3> QED BY <3>1, <3>4
  <2>3. CASE Fails(i)
    BY <1>3, <2>1, <2>3, FailStep
  <2>4. Fails(i) \/ (batch' = [batch EXCEPT ![i].st = "header", ![i].head = e] /\ UNCHANGED temps)
    BY <1>6 DEF file_md5, Fails
  <2> QED BY <2>2, <2>3, <2>4
<1>7. CASE UploadHeader(i)
  <2>1. batch[i].st = "header"
    BY <1>7 DEF UploadHeader
  <2>2. CASE Go(i, "send")
    BY <1>3, <2>1, <2>2, GoStep DEF ItemStates, Writing, Receiving
  <2>3. CASE Fails(i)
    BY <1>3, <2>1, <2>3, FailStep
  <2>4. Fails(i) \/ Go(i, "send")
    BY <1>7 DEF UploadHeader, Fails
  <2> QED BY <2>2, <2>3, <2>4
<1>8. CASE UploadSends(i)
  <2>1. batch[i].st = "send"
    BY <1>8 DEF UploadSends
  <2>2. CASE /\ batch' = [batch EXCEPT ![i].st = "complete", ![i].body = e] /\ UNCHANGED temps
             /\ IsFile(e)
    <3> DEFINE b == [batch[i] EXCEPT !.st = "complete", !.body = e]
    <3> HIDE DEF e
    <3>1. /\ b \in BatchItems /\ b.src = batch[i].src /\ b.dst = batch[i].dst /\ b.st = "complete"
          /\ b.body = e
      BY <1>1, <1>2 DEF BatchItems, ItemStates
    <3>2. batch' = [batch EXCEPT ![i] = b]
      BY <1>1, <2>2
    <3> HIDE DEF b
    <3>3. TempKept(i, b) /\ Written(i, b) /\ Asked(i, b)
      BY <1>3, <2>1, <2>2, <3>1 DEF TempKept, Written, Asked, Receiving, Writing
    <3>4. Contained(i, b)
      BY <1>3, <2>2, <3>1 DEF Contained, e
    <3>5. ItemStep(i, b)
      BY <1>1, <1>3, <3>1, <3>2, <3>3, <3>4 DEF ItemStep
    <3> QED BY <3>1, <3>5
  <2>3. CASE Fails(i)
    BY <1>3, <2>1, <2>3, FailStep
  <2>4. \/ Fails(i)
        \/ /\ batch' = [batch EXCEPT ![i].st = "complete", ![i].body = e] /\ UNCHANGED temps
           /\ IsFile(e)
    BY <1>8 DEF UploadSends, Fails
  <2> QED BY <2>2, <2>3, <2>4
<1> QED BY <1>4, <1>5, <1>6, <1>7, <1>8

LEMMA CompleteStep ==
    ASSUME Typed, Staged, NEW i \in DOMAIN batch, UploadCompletes(i)
    PROVE  \E b \in BatchItems : ItemStep(i, b)
<1>1. /\ batch[i] \in BatchItems /\ batch = [k \in DOMAIN batch |-> batch[k]]
      /\ exec.phase = "items"
  BY BatchType DEF Staged
<1>2. plan.dir = "Upload" /\ ItemFrame /\ UNCHANGED local /\ batch[i].st = "complete"
  BY DEF UploadCompletes
<1>3. CASE Fails(i) /\ UNCHANGED remote
  <2>1. UNCHANGED files
    BY <1>2, <1>3 DEF files
  <2> QED BY <1>2, <1>3, <2>1, FailStep
<1>4. ASSUME CanHold(remote, batch[i].dst), NEW e \in {At(remote, batch[i].dst), "partial", batch[i].body},
             remote' = [remote EXCEPT ![batch[i].dst] = e],
             \/ Go(i, "ok") /\ e = batch[i].body
             \/ Fail(i, "Transport")
      PROVE  \E b \in BatchItems : ItemStep(i, b)
  <2> PICK st \in {"ok", "failed"}, code \in Codes :
         /\ batch' = [batch EXCEPT ![i].st = st, ![i].code = code]
         /\ temps' = temps \/ temps' = temps \ {i}
         /\ st = "ok" => e = batch[i].body
    <3>1. CASE Go(i, "ok") /\ e = batch[i].body
      <4>1. batch' = [batch EXCEPT ![i].st = "ok", ![i].code = batch[i].code] /\ batch[i].code \in Codes
        BY <1>1, <3>1 DEF Go, BatchItems
      <4> QED BY <3>1, <4>1 DEF Go
    <3>2. CASE Fail(i, "Transport")
      BY <3>2 DEF Fail, Codes
    <3> QED BY <1>4, <3>1, <3>2
  <2> DEFINE b == [batch[i] EXCEPT !.st = st, !.code = code]
  <2>1. /\ b \in BatchItems /\ b.src = batch[i].src /\ b.dst = batch[i].dst /\ b.st = st
        /\ b.head = batch[i].head /\ b.body = batch[i].body
    BY <1>1 DEF BatchItems, ItemStates
  <2>2. batch' = [batch EXCEPT ![i] = b]
    BY <1>1
  <2> HIDE DEF b
  <2>3. TempKept(i, b) /\ Asked(i, b) /\ Contained(i, b)
    BY <1>2, <2>1 DEF TempKept, Asked, Contained, Receiving, Writing
  <2>4. Written(i, b)
    BY <1>2, <1>4, <2>1 DEF Written
  <2>5. ItemStep(i, b)
    BY <1>1, <1>2, <2>1, <2>2, <2>3, <2>4 DEF ItemStep
  <2> QED BY <2>1, <2>5
<1>5. \/ Fails(i) /\ UNCHANGED remote
      \/ /\ CanHold(remote, batch[i].dst)
         /\ \E e \in {At(remote, batch[i].dst), "partial", batch[i].body} :
              /\ remote' = [remote EXCEPT ![batch[i].dst] = e]
              /\ (Go(i, "ok") /\ e = batch[i].body) \/ Fail(i, "Transport")
  BY DEF UploadCompletes, Fails
<1> QED BY <1>3, <1>4, <1>5

LEMMA ItemSteps ==
    ASSUME Typed, Staged, NEW i \in DOMAIN batch, Item(i)
    PROVE  \E b \in BatchItems : ItemStep(i, b)
BY DownloadSteps, RenameStep, UploadSteps, CompleteStep DEF Item

\* A step of an item leaves the other items alone.
LEMMA ItemOthers ==
    ASSUME Typed, NEW i \in DOMAIN batch, NEW b \in BatchItems, ItemStep(i, b)
    PROVE  /\ DOMAIN batch' = DOMAIN batch /\ batch'[i] = b
           /\ \A k \in DOMAIN batch : k # i => batch'[k] = batch[k]
           /\ \A k \in DOMAIN batch : batch'[k] \in BatchItems
           /\ \A k \in DOMAIN batch : batch'[k].src = batch[k].src /\ batch'[k].dst = batch[k].dst
           /\ UNCHANGED <<alive, plan, exec, xfer, token, cancelling, others, touched, base, escaped, replied>>
<1>1. batch = [k \in DOMAIN batch |-> batch[k]] /\ \A k \in DOMAIN batch : batch[k] \in BatchItems
  BY BatchType
<1>2. batch' = [batch EXCEPT ![i] = b] /\ b.src = batch[i].src /\ b.dst = batch[i].dst
  BY DEF ItemStep
<1>3. UNCHANGED <<alive, plan, exec, xfer, token, cancelling, others, touched, base, escaped, replied>>
  BY DEF ItemStep, ItemFrame, transfer, ghosts
<1>4. DOMAIN batch' = DOMAIN batch /\ batch'[i] = b
  BY <1>1, <1>2
<1>5. \A k \in DOMAIN batch : k # i => batch'[k] = batch[k]
  BY <1>1, <1>2
<1> QED BY <1>1, <1>2, <1>3, <1>4, <1>5

\* What a file system is after one entry was replaced.
LEMMA ExceptAt ==
    ASSUME NEW D, NEW fs \in [D -> Entries], NEW p, NEW e \in Entries
    PROVE  /\ [fs EXCEPT ![p] = e] \in [D -> Entries]
           /\ \A q \in D : [fs EXCEPT ![p] = e][q] = IF q = p THEN e ELSE fs[q]
OBVIOUS

LEMMA ItemWrites ==
    ASSUME Typed, NEW i \in DOMAIN batch, NEW b \in BatchItems, ItemStep(i, b)
    PROVE  /\ local' \in Locals /\ remote' \in Remotes
           /\ \A q \in DOMAIN local : local'[q] # local[q] =>
                 /\ q = b.dst /\ plan.dir = "Download" /\ batch[i].st = "got" /\ local'[q] = batch[i].body
                 /\ local[q] # "dir"
           /\ \A q \in DOMAIN remote : remote'[q] # remote[q] =>
                 q = b.dst /\ plan.dir = "Upload" /\ batch[i].st = "complete" /\ remote[q] # "dir"
<1>1. local \in Locals /\ remote \in Remotes /\ batch[i].body \in Entries
  BY BatchType DEF Typed, BatchItems
<1>2. CASE UNCHANGED files
  BY <1>1, <1>2 DEF files
<1>3. CASE /\ plan.dir = "Download" /\ batch[i].st = "got" /\ CanHold(local, b.dst)
           /\ local' = [local EXCEPT ![b.dst] = batch[i].body] /\ UNCHANGED remote
  <2>1. /\ local' \in Locals
        /\ \A q \in DOMAIN local : local'[q] = IF q = b.dst THEN batch[i].body ELSE local[q]
    BY <1>1, <1>3, ExceptAt DEF Locals
  <2> QED BY <1>1, <1>3, <2>1 DEF CanHold
<1>4. CASE /\ plan.dir = "Upload" /\ batch[i].st = "complete" /\ CanHold(remote, b.dst) /\ UNCHANGED local
           /\ \E e \in {At(remote, b.dst), "partial", batch[i].body} :
                 remote' = [remote EXCEPT ![b.dst] = e]
  <2> PICK e \in {At(remote, b.dst), "partial", batch[i].body} : remote' = [remote EXCEPT ![b.dst] = e]
    BY <1>4
  <2>0. At(remote, b.dst) \in Entries /\ "partial" \in Entries
    BY <1>1, AtType, EntryFacts DEF Remotes
  <2>1. e \in Entries
    BY <1>1, <2>0
  <2>2. /\ remote' \in Remotes
        /\ \A q \in DOMAIN remote : remote'[q] = IF q = b.dst THEN e ELSE remote[q]
    BY <1>1, <2>1, ExceptAt DEF Remotes
  <2> QED BY <1>1, <1>4, <2>2 DEF CanHold
<1>5. Written(i, b)
  BY DEF ItemStep
<1> QED BY <1>2, <1>3, <1>4, <1>5 DEF Written

LEMMA ItemCore ==
    ASSUME Core, NEW i \in DOMAIN batch, NEW b \in BatchItems, ItemStep(i, b)
    PROVE  Core'
<1> USE DEF Core
<1>1. /\ DOMAIN batch' = DOMAIN batch /\ batch'[i] = b /\ exec.phase = "items"
      /\ \A k \in DOMAIN batch : k # i => batch'[k] = batch[k]
      /\ \A k \in DOMAIN batch : batch'[k] \in BatchItems
      /\ \A k \in DOMAIN batch : batch'[k].src = batch[k].src /\ batch'[k].dst = batch[k].dst
      /\ UNCHANGED <<alive, plan, exec, xfer, token, cancelling, others, touched, base, escaped, replied>>
  BY ItemOthers DEF ItemStep
<1>2. local' \in Locals /\ remote' \in Remotes
  BY ItemWrites
<1>3. temps' \subseteq DOMAIN batch' /\ TempsOwned'
  <2>1. temps \subseteq DOMAIN batch /\ \A k \in temps : batch[k].st \in Receiving
    BY DEF Typed, Received, TempsOwned, Receiving
  <2>2. TempKept(i, b)
    BY DEF ItemStep
  <2>3. temps' \subseteq DOMAIN batch
    BY <2>1, <2>2 DEF TempKept
  <2>4. ASSUME NEW k \in temps' PROVE batch'[k].st \in Receiving
    <3>1. CASE k = i
      BY <1>1, <2>1, <2>2, <3>1 DEF TempKept
    <3>2. CASE k # i
      <4>1. k \in temps /\ k \in DOMAIN batch
        BY <2>1, <2>2, <3>2 DEF TempKept
      <4> QED BY <1>1, <2>1, <3>2, <4>1
    <3> QED BY <3>1, <3>2
  <2> QED BY <1>1, <2>3, <2>4 DEF TempsOwned, Receiving
<1>4. Typed'
  <2>1. DOMAIN batch \subseteq Nat /\ batch' \in [DOMAIN batch -> BatchItems]
    <3>1. batch' = [batch EXCEPT ![i] = b] /\ batch = [k \in DOMAIN batch |-> batch[k]]
      BY BatchType DEF ItemStep
    <3>2. DOMAIN batch \subseteq Nat /\ \A k \in DOMAIN batch : batch[k] \in BatchItems
      BY BatchType
    <3> QED BY <3>1, <3>2
  <2>2. batch' \in Numbered(BatchItems)
    BY <2>1, NumberedType
  <2> QED BY <1>1, <1>2, <1>3, <2>2 DEF Typed
<1>5. Staged'
  BY <1>1 DEF Staged, InTree
<1>6. Told'
  BY <1>1 DEF Told, EndedIsTerminal
<1>7. Received'
  <2>1. Contained(i, b)
    BY DEF ItemStep
  <2>2. VerifiedBodies'
    BY <1>1, <2>1 DEF Received, VerifiedBodies, Contained
  <2>3. NeverPartial'
    <3> SUFFICES ASSUME NEW p \in DOMAIN local' PROVE local'[p] # "partial"
      BY DEF NeverPartial
    <3>1. p \in DOMAIN local
      BY <1>2 DEF Typed, Locals
    <3>2. CASE local'[p] = local[p]
      BY <3>1, <3>2 DEF Received, NeverPartial
    <3>3. CASE local'[p] # local[p]
      <4>1. plan.dir = "Download" /\ local'[p] = batch[i].body
        BY <3>1, <3>3, ItemWrites
      <4> QED BY <4>1 DEF Received
    <3> QED BY <3>2, <3>3
  <2>4. ASSUME plan.dir = "Download"
        PROVE  /\ \A p \in DOMAIN remote' : remote'[p] # "partial"
               /\ \A k \in DOMAIN batch' : batch'[k].head # "partial" /\ batch'[k].body # "partial"
    <3>1. remote' = remote
      <4>1. \A q \in DOMAIN remote : remote'[q] = remote[q]
        BY <2>4, ItemWrites
      <4> QED BY <1>2, <4>1 DEF Typed, Remotes
    <3>2. At(Src, b.src) # "partial"
      BY <2>4 DEF Received, Src, At
    <3>3. b.head # "partial" /\ b.body # "partial"
      BY <2>1, <2>4, <3>2 DEF Contained, Received
    <3>4. ASSUME NEW k \in DOMAIN batch' PROVE batch'[k].head # "partial" /\ batch'[k].body # "partial"
      BY <1>1, <2>4, <3>3 DEF Received
    <3> QED BY <2>4, <3>1, <3>4 DEF Received
  <2> QED BY <1>1, <1>3, <2>2, <2>3, <2>4 DEF Received
<1> QED BY <1>4, <1>5, <1>6, <1>7

-----------------------------------------------------------------------------
(***************************************************************************)
(* The trees.                                                              *)
(***************************************************************************)

\* The tree the task is at is an item of the plan.
LEMMA TreeItem ==
    ASSUME Typed, Staged, InTree
    PROVE  /\ Min(exec.trees) \in exec.trees /\ Min(exec.trees) \in DOMAIN plan.items
           /\ Tree \in PlanItems /\ Tree.isDir /\ exec.phase # "none"
<1>1. exec.phase # "none" /\ exec.trees # {} /\ exec.trees \in SUBSET Nat
      /\ exec.trees \subseteq Trees(plan.items) /\ plan.items \in Seq(PlanItems)
  BY DEF Staged, InTree, Typed, Execs, Plans
<1>2. Min(exec.trees) \in exec.trees
  BY <1>1, Least, Zenon
<1> QED BY <1>1, <1>2 DEF Tree, Trees

\* What is on the way to, or below, a destination is a target.
LEMMA OnTheWay ==
    ASSUME Typed, NEW i \in DOMAIN plan.items, NEW x \in Paths, NEW q \in Paths,
           IsPrefix(plan.items[i].dst, x), IsPrefix(q, x)
    PROVE  Targeted(q)
<1>1. plan.items \in Seq(PlanItems)
  BY DEF Typed, Plans
<1>2. plan.items[i] \in PlanItems
  BY <1>1
<1>3. plan.items[i].dst \in Paths
  BY <1>2 DEF PlanItems
<1> QED BY <1>3, PrefixTotal DEF Targeted

\* Directories are made at the destination, on the way to the targets.
FilesGrow ==
    /\ IF plan.dir = "Download" THEN Grown(local, local') /\ UNCHANGED remote
       ELSE Grown(remote, remote') /\ UNCHANGED local
    /\ \A q \in DOMAIN local : local'[q] # local[q] => Targeted(q)
    /\ \A q \in DOMAIN remote : remote'[q] # remote[q] => Targeted(q)

LEMMA SameFilesGrow ==
    ASSUME Typed, UNCHANGED files
    PROVE  FilesGrow
BY DEF Typed, FilesGrow, Grown, files, Remotes, Locals

\* create_dir_all of paths below a destination.
LEMMA MirrorGrowsFiles ==
    ASSUME Typed, plan.dir = "Download", UNCHANGED remote,
           NEW i \in DOMAIN plan.items, NEW P \in SUBSET Paths,
           \A p \in P : IsPrefix(plan.items[i].dst, p) /\ CanMakeDirs(local, p),
           local' = [q \in DOMAIN local |-> IF \E p \in P : IsPrefix(q, p) THEN "dir" ELSE local[q]]
    PROVE  FilesGrow
<1>1. local \in Locals /\ DOMAIN local \subseteq Paths
  BY EntryFacts DEF Typed, Locals
<1>2. Grown(local, local')
  BY <1>1, MirrorGrows
<1>3. ASSUME NEW q \in DOMAIN local, local'[q] # local[q] PROVE Targeted(q)
  <2>1. PICK p \in P : IsPrefix(q, p)
    <3>1. local'[q] = IF \E p \in P : IsPrefix(q, p) THEN "dir" ELSE local[q]
      OBVIOUS
    <3> QED BY <1>3, <3>1, Zenon
  <2> QED BY <1>1, <2>1, OnTheWay
<1> QED BY <1>2, <1>3 DEF FilesGrow

\* A made directory is there.
LEMMA MadeIsThere ==
    ASSUME NEW fs, NEW p \in Paths, p # <<>>, CanMakeDirs(fs, p)
    PROVE  p \in DOMAIN fs
<1>1. Len(p) \in 1 .. Len(p) /\ SubSeq(p, 1, Len(p)) = p
  BY DEF Paths
<1> QED BY <1>1 DEF CanMakeDirs

LEMMA StripConcat ==
    ASSUME NEW p \in Paths, NEW s \in Paths
    PROVE  strip_prefix(p, p \o s) = s
<1>1. /\ Len(p \o s) = Len(p) + Len(s) /\ Len(p) \in Nat /\ Len(s) \in Nat /\ p \o s \in Paths
      /\ \A n \in 1 .. Len(s) : (p \o s)[Len(p) + n] = s[n]
  BY PrefixConcat DEF Paths
<1> DEFINE r == p \o s
<1> HIDE DEF r
<1>2. SubSeq(r, Len(p) + 1, Len(r)) = s
  <2>1. /\ r \in Seq(STRING) /\ Len(r) = Len(p) + Len(s)
        /\ \A n \in 1 .. Len(s) : r[Len(p) + n] = s[n]
    BY <1>1 DEF r, Paths
  <2>2. /\ SubSeq(r, Len(p) + 1, Len(r)) \in Seq(STRING)
        /\ Len(SubSeq(r, Len(p) + 1, Len(r))) = Len(s)
    BY <1>1, <2>1
  <2>3. \A n \in 1 .. Len(s) : SubSeq(r, Len(p) + 1, Len(r))[n] = r[Len(p) + n]
    BY <1>1, <2>1
  <2> QED BY <2>1, <2>2, <2>3 DEF Paths
<1> QED BY <1>2 DEF strip_prefix, r

LEMMA TargetType ==
    ASSUME NEW it \in PlanItems, NEW p \in Paths
    PROVE  target(it, p) \in Paths /\ IsPrefix(it.dst, target(it, p))
<1>1. it.dst \in Paths /\ strip_prefix(it.src, p) \in Paths
  BY StripType DEF PlanItems
<1> QED BY <1>1, PrefixConcat DEF target

LEMMA TargetSelf ==
    ASSUME NEW it \in PlanItems
    PROVE  target(it, it.src) = it.dst
<1>1. it.src \in Paths /\ it.dst \in Paths
  BY DEF PlanItems
<1>2. strip_prefix(it.src, it.src) = <<>>
  BY <1>1, StripSelf
<1>3. it.dst \o <<>> = it.dst
  BY <1>1 DEF Paths
<1> QED BY <1>2, <1>3, Zenon DEF target

\* The items of a tree: every file below its source, and nothing else.
TreeTodo(fs, todo) ==
    /\ todo \in Numbered(PlanItems)
    /\ \A k \in DOMAIN todo : /\ todo[k].src \in Below(fs, Tree.src)
                              /\ todo[k].dst = target(Tree, todo[k].src)
    /\ \A p \in Below(fs, Tree.src) : fs[p] # "dir" =>
          \E k \in DOMAIN todo : todo[k].src = p /\ todo[k].dst = target(Tree, p)

LEMMA OrderedTodo ==
    ASSUME NEW fs, IsFiniteSet(DOMAIN fs), DOMAIN fs \subseteq Paths, Tree \in PlanItems,
           NEW S, S = {p \in Below(fs, Tree.src) : fs[p] # "dir"},
           NEW todo \in SetToSeqs({[src |-> p, dst |-> target(Tree, p), isDir |-> FALSE] : p \in S})
    PROVE  TreeTodo(fs, todo)
<1> DEFINE rec(p) == [src |-> p, dst |-> target(Tree, p), isDir |-> FALSE]
           I == {rec(p) : p \in S}
           f == [p \in S |-> rec(p)]
<1>1. S \subseteq DOMAIN fs /\ S \subseteq Below(fs, Tree.src)
  BY DEF Below
<1>2. \A p \in S : target(Tree, p) \in Paths
  BY <1>1, TargetType
<1>3. \A p \in S : rec(p) \in PlanItems
  BY <1>1, <1>2 DEF PlanItems
<1>4. IsFiniteSet(I)
  <2>1. IsFiniteSet(S)
    BY <1>1, FS_Subset
  <2>2. f \in Surjection(S, I)
    BY DEF Surjection
  <2> HIDE DEF f, I
  <2> QED BY <2>1, <2>2, FS_Surjection
<1>5. /\ DOMAIN todo \subseteq Nat /\ todo \in [DOMAIN todo -> I]
      /\ \A x \in I : \E k \in DOMAIN todo : todo[k] = x
  <2> HIDE DEF I
  <2>1. todo \in SetToSeqs(I)
    BY DEF I
  <2> QED BY <1>4, <2>1, Orders
<1>6. todo \in Numbered(PlanItems)
  <2>1. I \subseteq PlanItems
    BY <1>3
  <2>2. todo \in [DOMAIN todo -> PlanItems]
    BY <1>5, <2>1
  <2> QED BY <1>5, <2>2, NumberedType
<1>7. ASSUME NEW k \in DOMAIN todo
      PROVE  todo[k].src \in Below(fs, Tree.src) /\ todo[k].dst = target(Tree, todo[k].src)
  <2>1. PICK p \in S : todo[k] = rec(p)
    BY <1>5
  <2> QED BY <1>1, <2>1
<1>8. ASSUME NEW p \in Below(fs, Tree.src), fs[p] # "dir"
      PROVE  \E k \in DOMAIN todo : todo[k].src = p /\ todo[k].dst = target(Tree, p)
  <2>1. p \in S
    BY <1>8
  <2>2. rec(p) \in I
    BY <2>1
  <2>3. PICK k \in DOMAIN todo : todo[k] = rec(p)
    BY <1>5, <2>2
  <2> QED BY <2>3
<1> QED BY <1>6, <1>7, <1>8 DEF TreeTodo

-----------------------------------------------------------------------------
(***************************************************************************)
(* Types, stages, whole bodies and the end of the task: every step keeps   *)
(* them.                                                                   *)
(***************************************************************************)

LEMMA GrownWhole ==
    ASSUME Typed, FilesGrow
    PROVE  /\ local' \in Locals /\ remote' \in Remotes
           /\ \A q \in DOMAIN local : local'[q] \in {local[q], "dir"}
           /\ \A q \in DOMAIN remote : remote'[q] \in {remote[q], "dir"}
BY DEF Typed, FilesGrow, Grown, Locals, Remotes

\* A stage of the task follows another.
Staging ==
    /\ exec.phase \notin {"none", "ended"} /\ FilesGrow /\ temps' = {}
    /\ UNCHANGED <<alive, plan, token, cancelling, others, touched, base, escaped, replied>>
    /\ xfer' \in {xfer, transition("Running")}
    /\ exec'.phase \notin {"none", "ended"} /\ exec'.background = exec.background
    /\ exec'.overwrite = exec.overwrite /\ exec'.concurrency = exec.concurrency
    /\ \A i \in DOMAIN batch' : batch'[i].st = "wait" /\ batch'[i].head = "none" /\ batch'[i].body = "none"

LEMMA StagingCore ==
    ASSUME Core, Staging, exec' \in Execs, batch' \in Numbered(BatchItems), Staged'
    PROVE  Core'
<1> USE DEF Core
<1>1. /\ local' \in Locals /\ remote' \in Remotes
      /\ \A q \in DOMAIN local : local'[q] \in {local[q], "dir"}
      /\ \A q \in DOMAIN remote : remote'[q] \in {remote[q], "dir"}
  BY GrownWhole DEF Staging
<1>2. DOMAIN local' = DOMAIN local /\ DOMAIN remote' = DOMAIN remote
  BY <1>1 DEF Typed, Locals, Remotes
<1>3. xfer' \in Terminal \cup {"none", "Queued", "Running"}
  BY DEF Staging, transition, Typed
<1>4. Typed'
  BY <1>1, <1>3 DEF Typed, Staging
<1>5. NeverPartial' /\ VerifiedBodies' /\ TempsOwned'
  BY <1>1, <1>2 DEF Staging, Received, NeverPartial, VerifiedBodies, TempsOwned
<1>6. Received'
  BY <1>1, <1>2, <1>5 DEF Staging, Received
<1>7. Told'
  BY DEF Staging, Told, EndedIsTerminal, transition, Terminal
<1> QED BY <1>4, <1>6, <1>7

\* The task ends, one way or the other.
Ends ==
    /\ exec.phase \notin {"none", "ended"} /\ exec' = [exec EXCEPT !.phase = "ended"]
    /\ batch' = <<>> /\ temps' = {} /\ alive' \in BOOLEAN
    /\ UNCHANGED <<plan, others, touched, base, escaped, replied>>
XferKept ==
    /\ xfer' \in Terminal \cup {"none", "Queued", "Running"}
    /\ token' \in BOOLEAN /\ cancelling' \in BOOLEAN
    /\ exec.background => xfer' # "none" /\ (~cancelling' => xfer' \in Terminal)
    /\ token' /\ ~cancelling' => xfer' \in Terminal

LEMMA EndsCore ==
    ASSUME Core, Ends, XferKept, FilesGrow
    PROVE  Core'
<1> USE DEF Core
<1>1. /\ local' \in Locals /\ remote' \in Remotes
      /\ \A q \in DOMAIN local : local'[q] \in {local[q], "dir"}
      /\ \A q \in DOMAIN remote : remote'[q] \in {remote[q], "dir"}
  BY GrownWhole
<1>2. DOMAIN local' = DOMAIN local /\ DOMAIN remote' = DOMAIN remote
  BY <1>1 DEF Typed, Locals, Remotes
<1>3. /\ exec' \in Execs /\ exec'.phase = "ended" /\ exec'.background = exec.background
      /\ exec'.trees = exec.trees /\ exec'.files = exec.files
      /\ exec'.completed = exec.completed /\ exec'.failed = exec.failed
  <2>1. exec \in Execs
    BY DEF Typed
  <2> QED BY <2>1 DEF Ends, Execs, Phases
<1>4. batch' \in Numbered(BatchItems)
  BY NumberedType DEF Ends
<1>5. Typed'
  BY <1>1, <1>3, <1>4 DEF Typed, Ends, XferKept
<1>6. DOMAIN batch' = {}
  BY DEF Ends
<1>7. NeverPartial' /\ VerifiedBodies' /\ TempsOwned'
  BY <1>1, <1>2, <1>6 DEF Ends, Received, NeverPartial, VerifiedBodies, TempsOwned
<1>8. Received'
  BY <1>1, <1>2, <1>6, <1>7 DEF Ends, Received
<1>9. Told'
  BY <1>3 DEF XferKept, Told, EndedIsTerminal
<1>10. Staged'
  BY <1>3 DEF Ends, Staged, InTree
<1> QED BY <1>5, <1>8, <1>9, <1>10

FailsTask ==
    \/ TaskFails("LocalIo") \/ TaskFails("RemoteIo") \/ TaskFails("Transport")
    \/ TaskFails("Protocol") \/ TaskFails("Usage")
    \/ TaskFails("Interrupted") /\ token

LEMMA TaskFailsStep ==
    ASSUME Core, FailsTask, exec.phase \notin {"none", "ended"}, batch' = <<>>, temps' = {}
    PROVE  Ends /\ XferKept /\ (xfer' = "Completed" => xfer = "Completed")
<1> USE DEF Core
<1>1. /\ exec' = [exec EXCEPT !.phase = "ended"]
      /\ UNCHANGED <<alive, plan, token, cancelling, others, touched, base, escaped, replied>>
      /\ \/ xfer' = IF exec.background THEN transition("Failed") ELSE xfer
         \/ xfer' = xfer /\ token
  BY DEF FailsTask, TaskFails, ghosts
<1>2. XferKept /\ (xfer' = "Completed" => xfer = "Completed")
  BY <1>1 DEF XferKept, Typed, Told, transition, Terminal
<1> QED BY <1>1, <1>2 DEF Ends, Typed

\* Outside of a batch there are no items and no temporary files.
LEMMA NoBatch ==
    ASSUME Core, exec.phase # "items"
    PROVE  batch = <<>> /\ temps = {}
BY DEF Core, Typed, Staged

Failing == Ends /\ XferKept /\ FilesGrow /\ (xfer' = "Completed" => xfer = "Completed")

LEMMA NextStageStep ==
    ASSUME Core, NextStage
    PROVE  Staging /\ Core'
<1>1. batch = <<>> /\ temps = {} /\ exec.phase = "start"
  BY NoBatch DEF NextStage
<1> USE DEF Core
<1>2. exec \in Execs /\ plan \in Plans /\ batch' = <<>> /\ temps' = {} /\ FilesGrow
  BY <1>1, SameFilesGrow DEF Typed, NextStage
<1>3. /\ UNCHANGED <<alive, plan, token, cancelling, others, touched, base, escaped, replied>>
      /\ xfer' \in {xfer, transition("Running")}
  BY DEF NextStage, ghosts
<1>4. CASE /\ exec.trees # {}
           /\ exec' = [exec EXCEPT !.phase = IF plan.dir = "Download" THEN "mkdir" ELSE "collect"]
  <2> DEFINE ph == IF plan.dir = "Download" THEN "mkdir" ELSE "collect"
  <2>1. ph \in {"mkdir", "collect"} /\ (ph = "mkdir" <=> plan.dir = "Download")
    OBVIOUS
  <2> HIDE DEF ph
  <2>2. /\ exec' \in Execs /\ exec'.phase = ph /\ exec'.background = exec.background
        /\ exec'.overwrite = exec.overwrite /\ exec'.concurrency = exec.concurrency
        /\ exec'.trees = exec.trees /\ exec'.files = exec.files
        /\ exec'.completed = exec.completed /\ exec'.failed = exec.failed
    BY <1>2, <1>4, <2>1 DEF Execs, Phases, ph
  <2>3. Staging
    BY <1>1, <1>2, <1>3, <2>1, <2>2 DEF Staging
  <2>4. plan.dir \in {"Download", "Upload"}
    BY <1>2 DEF Plans, Directions
  <2>5. Staged'
    BY <1>1, <1>2, <1>3, <1>4, <2>1, <2>2, <2>4 DEF Staged, InTree
  <2> QED BY <1>2, <2>2, <2>3, <2>5, StagingCore, NumberedType
<1>5. CASE /\ exec.trees = {} /\ exec.files # {}
           /\ exec' = [exec EXCEPT !.phase = "batch", !.tree = FALSE,
                                   !.then = [i \in exec.files |-> plan.items[i]]]
  <2> DEFINE th == [i \in exec.files |-> plan.items[i]]
  <2>1. th \in Numbered(PlanItems)
    <3>1. exec.files \subseteq DOMAIN plan.items /\ plan.items \in Seq(PlanItems) /\ exec.files \in SUBSET Nat
      BY <1>1, <1>2 DEF Staged, Files, Execs, Plans
    <3>2. th \in [exec.files -> PlanItems]
      BY <3>1
    <3> HIDE DEF th
    <3> QED BY <3>1, <3>2, NumberedType
  <2> HIDE DEF th
  <2>2. /\ exec' \in Execs /\ exec'.phase = "batch" /\ exec'.background = exec.background
        /\ exec'.overwrite = exec.overwrite /\ exec'.concurrency = exec.concurrency
        /\ exec'.trees = exec.trees /\ exec'.files = exec.files /\ exec'.tree = FALSE /\ exec'.then = th
        /\ exec'.completed = exec.completed /\ exec'.failed = exec.failed
    BY <1>2, <1>5, <2>1 DEF Execs, Phases, th
  <2>3. Staging
    BY <1>1, <1>2, <1>3, <2>2 DEF Staging
  <2>4. Staged'
    <3>1. exec'.then = [i \in exec'.files |-> plan'.items[i]]
      BY <1>3, <2>2 DEF th
    <3> QED BY <1>1, <1>2, <1>3, <1>5, <2>2, <3>1 DEF Staged, InTree
  <2> QED BY <1>2, <2>2, <2>3, <2>4, StagingCore, NumberedType
<1>6. CASE /\ exec.trees = {} /\ exec.files = {}
           /\ exec' = [exec EXCEPT !.phase = "report"]
  <2>2. /\ exec' \in Execs /\ exec'.phase = "report" /\ exec'.background = exec.background
        /\ exec'.overwrite = exec.overwrite /\ exec'.concurrency = exec.concurrency
        /\ exec'.trees = exec.trees /\ exec'.files = exec.files
        /\ exec'.completed = exec.completed /\ exec'.failed = exec.failed
    BY <1>2, <1>6 DEF Execs, Phases
  <2>3. Staging
    BY <1>1, <1>2, <1>3, <2>2 DEF Staging
  <2>5. Staged'
    BY <1>1, <1>2, <1>3, <1>6, <2>2 DEF Staged, InTree
  <2> QED BY <1>2, <2>2, <2>3, <2>5, StagingCore, NumberedType
<1> QED BY <1>4, <1>5, <1>6 DEF NextStage

\* The first directory of a downloaded tree.
LEMMA TreeMakesRootStep ==
    ASSUME Core, TreeMakesRoot
    PROVE  Core' /\ (Failing \/ (Staging /\ CanMakeDirs(local, Tree.dst)))
<1>1. batch = <<>> /\ temps = {} /\ exec.phase = "mkdir"
  BY NoBatch DEF TreeMakesRoot
<1> USE DEF Core
<1>2. exec \in Execs /\ plan \in Plans /\ batch' = <<>> /\ temps' = {} /\ UNCHANGED remote
  BY <1>1 DEF Typed, TreeMakesRoot
<1>3. InTree /\ plan.dir = "Download"
  BY <1>1 DEF InTree, Staged
<1>4. CASE ~CanMakeDirs(local, Tree.dst)
  <2>1. UNCHANGED local /\ TaskFails("LocalIo")
    BY <1>4 DEF TreeMakesRoot
  <2>2. FilesGrow
    BY <1>2, <2>1, SameFilesGrow DEF files
  <2>3. FailsTask
    BY <2>1 DEF FailsTask
  <2> QED BY <1>1, <1>2, <2>2, <2>3, TaskFailsStep, EndsCore DEF Failing
<1>5. CASE CanMakeDirs(local, Tree.dst)
  <2>1. /\ local' = MakeDirs(local, Tree.dst) /\ exec' = [exec EXCEPT !.phase = "list"]
        /\ UNCHANGED <<alive, plan, transfer, ghosts>>
    BY <1>5 DEF TreeMakesRoot
  <2>2. FilesGrow
    <3> DEFINE P == {Tree.dst}
               i == Min(exec.trees)
    <3>1. Tree.dst \in Paths /\ i \in DOMAIN plan.items /\ plan.items[i] = Tree
      BY <1>3, TreeItem DEF PlanItems, Tree
    <3>2. \A p \in P : IsPrefix(plan.items[i].dst, p) /\ CanMakeDirs(local, p)
      BY <1>5, <3>1, PrefixRefl
    <3>3. local' = [q \in DOMAIN local |-> IF \E p \in P : IsPrefix(q, p) THEN "dir" ELSE local[q]]
      BY <2>1 DEF MakeDirs
    <3>4. P \in SUBSET Paths
      BY <3>1
    <3> HIDE DEF P, i
    <3> QED BY <1>2, <1>3, <3>1, <3>2, <3>3, <3>4, MirrorGrowsFiles
  <2>3. /\ exec' \in Execs /\ exec'.phase = "list" /\ exec'.background = exec.background
        /\ exec'.overwrite = exec.overwrite /\ exec'.concurrency = exec.concurrency
        /\ exec'.trees = exec.trees /\ exec'.files = exec.files
        /\ exec'.completed = exec.completed /\ exec'.failed = exec.failed
    BY <1>2, <2>1 DEF Execs, Phases
  <2>4. Staging
    BY <1>1, <1>2, <2>1, <2>2, <2>3 DEF Staging, ghosts, transfer
  <2>5. Staged'
    BY <1>1, <1>2, <1>3, <2>1, <2>3 DEF Staged, InTree
  <2> QED BY <1>2, <1>5, <2>3, <2>4, <2>5, StagingCore, NumberedType
<1> QED BY <1>4, <1>5

\* Mirroring directories of the listing.
LEMMA MirroredGrows ==
    ASSUME Core, exec.phase = "list", UNCHANGED remote, NEW D \in SUBSET Paths,
           \A p \in D : /\ may_mirror(Tree.src, p)
                        /\ CanMakeDirs(local, join(Tree.dst, strip_prefix(Tree.src, p))),
           local' = [q \in DOMAIN local |->
                       IF \E p \in D : IsPrefix(q, join(Tree.dst, strip_prefix(Tree.src, p)))
                       THEN "dir" ELSE local[q]]
    PROVE  /\ FilesGrow
           /\ \A p \in D : target(Tree, p) \in DOMAIN local /\ local'[target(Tree, p)] = "dir"
<1> USE DEF Core
<1>1. InTree /\ plan.dir = "Download"
  BY DEF InTree, Staged
<1>2. /\ Tree \in PlanItems /\ Tree.dst \in Paths /\ Tree.src \in Paths
      /\ Min(exec.trees) \in DOMAIN plan.items /\ plan.items[Min(exec.trees)] = Tree
  BY <1>1, TreeItem DEF PlanItems, Tree
<1>3. \A p \in D : join(Tree.dst, strip_prefix(Tree.src, p)) = target(Tree, p)
  BY DEF join, target, may_mirror
<1> DEFINE P == {target(Tree, p) : p \in D}
<1>4. /\ P \in SUBSET Paths
      /\ \A p \in P : IsPrefix(plan.items[Min(exec.trees)].dst, p) /\ CanMakeDirs(local, p)
  BY <1>2, <1>3, TargetType
<1>5. \A q : (\E p \in D : IsPrefix(q, join(Tree.dst, strip_prefix(Tree.src, p))))
               <=> \E p \in P : IsPrefix(q, p)
  BY <1>3
<1>6. local' = [q \in DOMAIN local |-> IF \E p \in P : IsPrefix(q, p) THEN "dir" ELSE local[q]]
  <2>1. \A q \in DOMAIN local :
            (IF \E p \in D : IsPrefix(q, join(Tree.dst, strip_prefix(Tree.src, p)))
             THEN "dir" ELSE local[q])
              = (IF \E p \in P : IsPrefix(q, p) THEN "dir" ELSE local[q])
    <3> HIDE DEF P
    <3> QED BY <1>5, Zenon
  <2> HIDE DEF P
  <2> QED BY <2>1, Zenon
<1>7. ASSUME NEW p \in D PROVE target(Tree, p) \in DOMAIN local /\ local'[target(Tree, p)] = "dir"
  <2> DEFINE t == target(Tree, p)
  <2>1. t \in P /\ t \in Paths /\ IsPrefix(t, t) /\ CanMakeDirs(local, t)
    BY <1>4, PrefixRefl
  <2>2. t # <<>>
    BY <1>2, StripNotEmpty DEF target, may_mirror
  <2>3. t \in DOMAIN local
    BY <2>1, <2>2, MadeIsThere
  <2> HIDE DEF t, P
  <2>4. local'[t] = IF \E x \in P : IsPrefix(t, x) THEN "dir" ELSE local[t]
    BY <1>6, <2>3
  <2>5. local'[t] = "dir"
    BY <2>1, <2>4, Zenon
  <2> QED BY <2>3, <2>5 DEF t
<1> HIDE DEF P
<1> QED BY <1>1, <1>2, <1>4, <1>6, <1>7, MirrorGrowsFiles

\* The listing of a tree: everything below its source becomes a directory or an
\* item.
Listed ==
    /\ exec.phase = "list"
    /\ exec' = [exec EXCEPT !.phase = "batch", !.tree = TRUE, !.then = exec'.then]
    /\ TreeTodo(remote, exec'.then) /\ UNCHANGED xfer
    /\ \A p \in Below(remote, Tree.src) : remote[p] = "dir" =>
          target(Tree, p) \in DOMAIN local /\ local'[target(Tree, p)] = "dir"

LEMMA TreeListedStep ==
    ASSUME Core, TreeListed
    PROVE  Core' /\ (Failing \/ (Staging /\ Listed))
<1>1. batch = <<>> /\ temps = {} /\ exec.phase = "list"
  BY NoBatch DEF TreeListed
<1> USE DEF Core
<1>2. exec \in Execs /\ plan \in Plans /\ batch' = <<>> /\ temps' = {} /\ UNCHANGED remote
  BY <1>1 DEF Typed, TreeListed
<1>3. InTree /\ plan.dir = "Download"
  BY <1>1 DEF InTree, Staged
<1>4. Tree \in PlanItems /\ Tree.dst \in Paths /\ Tree.src \in Paths
  BY <1>3, TreeItem DEF PlanItems
<1> DEFINE from == Tree.src
           to == Tree.dst
           tgt(p) == join(to, strip_prefix(from, p))
           Mirrored(D) == [q \in DOMAIN local |->
                             IF \E p \in D : IsPrefix(q, tgt(p)) THEN "dir" ELSE local[q]]
<1>5. CASE ~alive /\ TaskFails("Transport") /\ UNCHANGED local
  <2>2. FilesGrow
    BY <1>2, <1>5, SameFilesGrow DEF files
  <2>3. FailsTask
    BY <1>5 DEF FailsTask
  <2> QED BY <1>1, <1>2, <2>2, <2>3, TaskFailsStep, EndsCore DEF Failing
<1>6. CASE ~(~alive /\ TaskFails("Transport") /\ UNCHANGED local)
  <2>1. PICK strays \in SUBSET {from \o StrayPath} :
            LET listed == list_dir(from) \cup strays
                dirs == {p \in listed : At(remote, p) = "dir"}
                makeable == {p \in dirs : may_mirror(from, p) /\ CanMakeDirs(local, tgt(p))}
                items == {[src |-> IF p \in strays THEN normalize_remote_path(p) ELSE p,
                           dst |-> tgt(p), isDir |-> FALSE] : p \in listed \ dirs}
            IN  IF (\A p \in listed : may_mirror(from, p)) /\ makeable = dirs
                THEN /\ local' = Mirrored(dirs)
                     /\ \E todo \in SetToSeqs(items) :
                           exec' = [exec EXCEPT !.phase = "batch", !.tree = TRUE, !.then = todo]
                     /\ UNCHANGED <<alive, plan, transfer, ghosts>>
                ELSE /\ \E made \in SUBSET makeable : local' = Mirrored(made)
                     /\ TaskFails("Protocol")
    BY <1>6 DEF TreeListed
  <2> DEFINE listed == list_dir(from) \cup strays
             dirs == {p \in listed : At(remote, p) = "dir"}
             makeable == {p \in dirs : may_mirror(from, p) /\ CanMakeDirs(local, tgt(p))}
             items == {[src |-> IF p \in strays THEN normalize_remote_path(p) ELSE p,
                        dst |-> tgt(p), isDir |-> FALSE] : p \in listed \ dirs}
  <2>2. listed \subseteq Paths
    <3>1. from \o StrayPath \in Paths
      BY <1>4, PathsAssumption, PrefixConcat DEF Paths
    <3>2. list_dir(from) \subseteq Paths
      BY EntryFacts DEF list_dir, Below, Typed, Remotes
    <3> QED BY <3>1, <3>2
  <2>3. CASE ~((\A p \in listed : may_mirror(from, p)) /\ makeable = dirs)
    <3>1. (\E made \in SUBSET makeable : local' = Mirrored(made)) /\ TaskFails("Protocol")
      BY <2>1, <2>3, Zenon
    <3>2. PICK made \in SUBSET makeable : local' = Mirrored(made)
      BY <3>1
    <3>3. made \in SUBSET Paths /\ \A p \in made : may_mirror(from, p) /\ CanMakeDirs(local, tgt(p))
      BY <2>2
    <3>4. FilesGrow
      BY <1>1, <1>2, <3>2, <3>3, MirroredGrows
    <3>5. FailsTask
      BY <3>1 DEF FailsTask
    <3> QED BY <1>1, <1>2, <3>4, <3>5, TaskFailsStep, EndsCore DEF Failing
  <2>4. CASE (\A p \in listed : may_mirror(from, p)) /\ makeable = dirs
    <3>1. /\ local' = Mirrored(dirs)
          /\ \E todo \in SetToSeqs(items) :
                exec' = [exec EXCEPT !.phase = "batch", !.tree = TRUE, !.then = todo]
          /\ UNCHANGED <<alive, plan, transfer, ghosts>>
      BY <2>1, <2>4, Zenon
    <3>2. strays = {}
      <4>1. ASSUME from \o StrayPath \in listed PROVE FALSE
        <5>1. strip_prefix(from, from \o StrayPath) = StrayPath
          BY <1>4, PathsAssumption, StripConcat DEF Paths
        <5>2. ".." \in Range1(StrayPath)
          BY PathsAssumption DEF Range1
        <5> QED BY <2>4, <4>1, <5>1, <5>2 DEF may_mirror
      <4> QED BY <4>1
    <3>3. listed = Below(remote, from) /\ dirs = {p \in Below(remote, from) : remote[p] = "dir"}
      BY <3>2 DEF list_dir, At, Below
    <3>4. dirs \in SUBSET Paths /\ \A p \in dirs : may_mirror(from, p) /\ CanMakeDirs(local, tgt(p))
      BY <2>2, <2>4
    <3>5. /\ FilesGrow
          /\ \A p \in dirs : target(Tree, p) \in DOMAIN local /\ local'[target(Tree, p)] = "dir"
      <4> HIDE DEF dirs
      <4> QED BY <1>1, <1>2, <3>1, <3>4, MirroredGrows
    <3> DEFINE S == {p \in Below(remote, from) : remote[p] # "dir"}
               its == {[src |-> p, dst |-> target(Tree, p), isDir |-> FALSE] : p \in S}
    <3>6. items = its
      <4>1. listed \ dirs = S
        BY <3>3
      <4>2. \A p \in S : tgt(p) = target(Tree, p)
        BY <2>4, <3>3 DEF join, target, may_mirror
      <4> HIDE DEF S, tgt, listed, dirs
      <4> QED BY <3>2, <4>1, <4>2 DEF items, its
    <3>7. PICK todo \in SetToSeqs(its) :
              exec' = [exec EXCEPT !.phase = "batch", !.tree = TRUE, !.then = todo]
      <4> HIDE DEF items, its
      <4> QED BY <3>1, <3>6
    <3>8. TreeTodo(remote, todo)
      <4>1. IsFiniteSet(DOMAIN remote) /\ DOMAIN remote \subseteq Paths
        BY EntryFacts DEF Typed, Remotes
      <4> QED BY <1>4, <4>1, OrderedTodo
    <3> HIDE DEF S, its, items, dirs
    <3>9. /\ exec' \in Execs /\ exec'.phase = "batch" /\ exec'.background = exec.background
          /\ exec'.overwrite = exec.overwrite /\ exec'.concurrency = exec.concurrency
          /\ exec'.trees = exec.trees /\ exec'.files = exec.files /\ exec'.tree = TRUE
          /\ exec'.completed = exec.completed /\ exec'.failed = exec.failed /\ exec'.then = todo
      <4>1. todo \in Numbered(PlanItems)
        BY <3>8 DEF TreeTodo
      <4> QED BY <1>2, <3>7, <4>1 DEF Execs, Phases
    <3>10. Staging
      BY <1>1, <1>2, <3>1, <3>5, <3>9 DEF Staging, ghosts, transfer
    <3>11. Staged'
      BY <1>1, <1>2, <1>3, <3>1, <3>9 DEF Staged, InTree
    <3>12. Listed
      BY <1>1, <3>1, <3>3, <3>5, <3>7, <3>8, <3>9 DEF Listed, transfer
    <3> QED BY <1>2, <3>9, <3>10, <3>11, <3>12, StagingCore, NumberedType
  <2> QED BY <2>3, <2>4
<1> QED BY <1>5, <1>6

\* The walk of a local tree.
Collected ==
    /\ exec.phase = "collect" /\ At(local, Tree.src) = "dir" /\ UNCHANGED <<remote, local, xfer>>
    /\ exec' = [exec EXCEPT !.phase = "mkremote", !.tree = TRUE, !.then = exec'.then,
                            !.dirs = exec'.dirs]
    /\ TreeTodo(local, exec'.then)
    /\ exec'.dirs = {Tree.dst} \cup
          {target(Tree, p) : p \in {q \in Below(local, Tree.src) : local[q] = "dir"}}

LEMMA CollectStep ==
    ASSUME Core, collect_upload_tree
    PROVE  Core' /\ (Failing \/ (Staging /\ Collected))
<1>1. batch = <<>> /\ temps = {} /\ exec.phase = "collect"
  BY NoBatch DEF collect_upload_tree
<1> USE DEF Core
<1>2. exec \in Execs /\ plan \in Plans /\ batch' = <<>> /\ temps' = {} /\ UNCHANGED <<remote, local>>
      /\ FilesGrow
  BY <1>1, SameFilesGrow DEF Typed, collect_upload_tree, files
<1>3. InTree /\ plan.dir = "Upload"
  BY <1>1 DEF InTree, Staged
<1>4. Tree \in PlanItems /\ Tree.dst \in Paths /\ Tree.src \in Paths
  BY <1>3, TreeItem DEF PlanItems
<1>5. CASE At(local, Tree.src) # "dir"
  <2>1. FailsTask
    BY <1>5 DEF collect_upload_tree, FailsTask
  <2> QED BY <1>1, <1>2, <2>1, TaskFailsStep, EndsCore DEF Failing
<1>6. CASE At(local, Tree.src) = "dir"
  <2> DEFINE B == Below(local, Tree.src)
             dirs == {p \in B : local[p] = "dir"}
             D == {Tree.dst} \cup {target(Tree, p) : p \in dirs}
             S == {p \in B : local[p] # "dir"}
             its == {[src |-> p, dst |-> target(Tree, p), isDir |-> FALSE] : p \in S}
  <2>1. B \ dirs = S
    OBVIOUS
  <2>2. /\ \E todo \in SetToSeqs({[src |-> p, dst |-> target(Tree, p), isDir |-> FALSE] : p \in B \ dirs}) :
              exec' = [exec EXCEPT !.phase = "mkremote", !.tree = TRUE, !.then = todo, !.dirs = D]
        /\ UNCHANGED <<alive, plan, transfer, ghosts>>
    BY <1>6 DEF collect_upload_tree, target
  <2>3. PICK todo \in SetToSeqs(its) :
            exec' = [exec EXCEPT !.phase = "mkremote", !.tree = TRUE, !.then = todo, !.dirs = D]
    <3> HIDE DEF B, dirs, D, S
    <3> QED BY <2>1, <2>2
  <2>4. TreeTodo(local, todo)
    <3>1. IsFiniteSet(DOMAIN local) /\ DOMAIN local \subseteq Paths
      BY EntryFacts DEF Typed, Locals
    <3> QED BY <1>4, <3>1, OrderedTodo
  <2>5. D \in SUBSET Paths
    <3>1. B \subseteq Paths
      BY EntryFacts DEF Below, Typed, Locals
    <3> QED BY <1>4, <3>1, TargetType
  <2> HIDE DEF B, D, S, its, dirs
  <2>6. /\ exec' \in Execs /\ exec'.phase = "mkremote" /\ exec'.background = exec.background
        /\ exec'.overwrite = exec.overwrite /\ exec'.concurrency = exec.concurrency
        /\ exec'.trees = exec.trees /\ exec'.files = exec.files /\ exec'.tree = TRUE /\ exec'.dirs = D
        /\ exec'.completed = exec.completed /\ exec'.failed = exec.failed /\ exec'.then = todo
    <3>1. todo \in Numbered(PlanItems)
      BY <2>4 DEF TreeTodo
    <3> QED BY <1>2, <2>3, <2>5, <3>1 DEF Execs, Phases
  <2>7. Staging
    BY <1>1, <1>2, <2>2, <2>6 DEF Staging, ghosts, transfer
  <2>8. Staged'
    BY <1>1, <1>2, <1>3, <2>2, <2>6 DEF Staged, InTree
  <2>9. Collected
    BY <1>1, <1>2, <1>6, <2>2, <2>3, <2>4, <2>6 DEF Collected, transfer, D, dirs, B
  <2> QED BY <1>2, <2>6, <2>7, <2>8, <2>9, StagingCore, NumberedType
<1> QED BY <1>5, <1>6

\* The directories of an uploaded tree: one is made or there already, or all
\* of them are.
DirMade(d) ==
    /\ d \in exec.dirs /\ \A e \in exec.dirs : ~IsStrictPrefix(e, d)
    /\ exec' = [exec EXCEPT !.dirs = @ \ {d}]
    /\ \/ At(remote, d) # "none" /\ UNCHANGED remote
       \/ At(remote, d) = "none" /\ d \in DOMAIN remote /\ remote' = [remote EXCEPT ![d] = "dir"]
AllMade == exec.dirs = {} /\ exec' = [exec EXCEPT !.phase = "batch"] /\ UNCHANGED remote

LEMMA TreeMakesRemoteStep ==
    ASSUME Core, Aimed, TreeMakesRemote
    PROVE  /\ Core'
           /\ \/ Failing
              \/ Staging /\ exec.phase = "mkremote" /\ UNCHANGED <<local, xfer>> /\ exec.tree
                    /\ (AllMade \/ \E d \in exec.dirs : DirMade(d))
<1>1. batch = <<>> /\ temps = {} /\ exec.phase = "mkremote"
  BY NoBatch DEF TreeMakesRemote
<1> USE DEF Core
<1>2. exec \in Execs /\ plan \in Plans /\ batch' = <<>> /\ temps' = {} /\ UNCHANGED local
  BY <1>1 DEF Typed, TreeMakesRemote
<1>3. InTree /\ plan.dir = "Upload" /\ exec.tree
  BY <1>1 DEF InTree, Staged
<1>4. CASE /\ exec.dirs = {} /\ exec' = [exec EXCEPT !.phase = "batch"]
           /\ UNCHANGED <<remote, alive, plan, transfer, ghosts>>
  <2>1. FilesGrow
    BY <1>2, <1>4, SameFilesGrow DEF files
  <2>2. /\ exec' \in Execs /\ exec'.phase = "batch" /\ exec'.background = exec.background
        /\ exec'.overwrite = exec.overwrite /\ exec'.concurrency = exec.concurrency
        /\ exec'.trees = exec.trees /\ exec'.files = exec.files /\ exec'.tree = exec.tree
        /\ exec'.completed = exec.completed /\ exec'.failed = exec.failed
    BY <1>2, <1>4 DEF Execs, Phases
  <2>3. Staging
    BY <1>1, <1>2, <1>4, <2>1, <2>2 DEF Staging, ghosts, transfer
  <2>4. Staged'
    BY <1>1, <1>2, <1>3, <1>4, <2>2 DEF Staged, InTree
  <2> QED BY <1>1, <1>2, <1>3, <1>4, <2>2, <2>3, <2>4, StagingCore, NumberedType DEF AllMade, transfer
<1>5. ASSUME NEW d \in exec.dirs, \A e \in exec.dirs : ~IsStrictPrefix(e, d),
             FailsTask, UNCHANGED remote
      PROVE  Core' /\ Failing
  <2>1. FilesGrow
    BY <1>2, <1>5, SameFilesGrow DEF files
  <2> QED BY <1>1, <1>2, <1>5, <2>1, TaskFailsStep, EndsCore DEF Failing
<1>6. ASSUME NEW d \in exec.dirs, \A e \in exec.dirs : ~IsStrictPrefix(e, d),
             file_exists(d) \/ can_create_dir(d),
             remote' = IF file_exists(d) THEN remote ELSE create_dir(d),
             exec' = [exec EXCEPT !.dirs = @ \ {d}],
             UNCHANGED <<alive, plan, transfer, ghosts>>
      PROVE  /\ Core'
             /\ Staging /\ exec.phase = "mkremote" /\ UNCHANGED <<local, xfer>> /\ exec.tree
             /\ \E x \in exec.dirs : DirMade(x)
  <2>1. DirMade(d)
    BY <1>6 DEF DirMade, file_exists, can_create_dir, create_dir
  <2>2. PICK i \in DOMAIN plan.items : IsPrefix(plan.items[i].dst, d)
    BY DEF Aimed
  <2>3. d \in Paths /\ remote \in Remotes /\ DOMAIN remote \subseteq Paths /\ "dir" \in Entries
    BY <1>2, EntryFacts DEF Execs, Typed, Remotes
  <2>4. FilesGrow
    <3>1. CASE UNCHANGED remote
      BY <1>2, <3>1, SameFilesGrow DEF files
    <3>2. CASE At(remote, d) = "none" /\ d \in DOMAIN remote /\ remote' = [remote EXCEPT ![d] = "dir"]
      <4>1. /\ remote' \in [DOMAIN remote -> Entries]
            /\ \A q \in DOMAIN remote : remote'[q] = IF q = d THEN "dir" ELSE remote[q]
        BY <2>3, <3>2 DEF Remotes
      <4>2. Grown(remote, remote')
        BY <3>2, <4>1 DEF Grown, At
      <4>3. Targeted(d)
        BY <2>2 DEF Targeted
      <4> QED BY <1>2, <1>3, <4>1, <4>2, <4>3 DEF FilesGrow
    <3> QED BY <2>1, <3>1, <3>2 DEF DirMade
  <2>5. /\ exec' \in Execs /\ exec'.phase = "mkremote" /\ exec'.background = exec.background
        /\ exec'.overwrite = exec.overwrite /\ exec'.concurrency = exec.concurrency
        /\ exec'.trees = exec.trees /\ exec'.files = exec.files /\ exec'.tree = exec.tree
        /\ exec'.completed = exec.completed /\ exec'.failed = exec.failed
    <3> DEFINE D == exec.dirs \ {d}
    <3>1. D \in SUBSET Paths /\ exec' = [exec EXCEPT !.dirs = D]
      BY <1>2, <1>6 DEF Execs
    <3> HIDE DEF D
    <3> QED BY <1>1, <1>2, <3>1 DEF Execs, Phases
  <2>6. Staging
    BY <1>1, <1>2, <1>6, <2>4, <2>5 DEF Staging, ghosts, transfer
  <2>7. Staged'
    BY <1>1, <1>2, <1>3, <1>6, <2>5 DEF Staged, InTree
  <2> QED BY <1>1, <1>2, <1>3, <1>6, <2>1, <2>5, <2>6, <2>7, StagingCore, NumberedType DEF transfer
<1>7. CASE \E d \in exec.dirs :
             /\ \A e \in exec.dirs : ~IsStrictPrefix(e, d)
             /\ CASE ~alive -> TaskFails("Transport") /\ UNCHANGED remote
                  [] alive /\ ~file_exists(d) /\ ~can_create_dir(d) ->
                         TaskFails("RemoteIo") /\ UNCHANGED remote
                  [] OTHER -> /\ remote' = IF file_exists(d) THEN remote ELSE create_dir(d)
                              /\ exec' = [exec EXCEPT !.dirs = @ \ {d}]
                              /\ UNCHANGED <<alive, plan, transfer, ghosts>>
  <2> PICK d \in exec.dirs :
             /\ \A e \in exec.dirs : ~IsStrictPrefix(e, d)
             /\ CASE ~alive -> TaskFails("Transport") /\ UNCHANGED remote
                  [] alive /\ ~file_exists(d) /\ ~can_create_dir(d) ->
                         TaskFails("RemoteIo") /\ UNCHANGED remote
                  [] OTHER -> /\ remote' = IF file_exists(d) THEN remote ELSE create_dir(d)
                              /\ exec' = [exec EXCEPT !.dirs = @ \ {d}]
                              /\ UNCHANGED <<alive, plan, transfer, ghosts>>
    BY <1>7
  <2>1. CASE ~alive
    BY <1>5, <2>1 DEF FailsTask
  <2>2. CASE alive /\ ~file_exists(d) /\ ~can_create_dir(d)
    BY <1>5, <2>2 DEF FailsTask
  <2>3. CASE alive /\ ~(~file_exists(d) /\ ~can_create_dir(d))
    <3>1. /\ remote' = IF file_exists(d) THEN remote ELSE create_dir(d)
          /\ exec' = [exec EXCEPT !.dirs = @ \ {d}]
          /\ UNCHANGED <<alive, plan, transfer, ghosts>>
      BY <2>3
    <3> QED BY <1>6, <2>3, <3>1
  <2> QED BY <2>1, <2>2, <2>3
<1> QED BY <1>4, <1>7 DEF TreeMakesRemote

\* The items of a batch.
Waiting ==
    [i \in DOMAIN exec.then |->
        [src |-> exec.then[i].src, dst |-> exec.then[i].dst, st |-> "wait",
         head |-> "none", body |-> "none", md5 |-> FALSE, code |-> "none"]]

LEMMA BatchBeginsStep ==
    ASSUME Core, BatchBegins
    PROVE  /\ Core'
           /\ \/ Failing
              \/ /\ Staging /\ UNCHANGED <<remote, local, xfer>> /\ exec.phase = "batch"
                 /\ exec' = [exec EXCEPT !.phase = "items"] /\ batch' = Waiting
                 /\ \A i \in DOMAIN batch' : batch'[i].src = exec.then[i].src
                                              /\ batch'[i].dst = exec.then[i].dst
                 /\ DOMAIN batch' = DOMAIN exec.then
<1>1. batch = <<>> /\ temps = {} /\ exec.phase = "batch"
  BY NoBatch DEF BatchBegins
<1> USE DEF Core
<1>2. exec \in Execs /\ plan \in Plans /\ temps' = {} /\ UNCHANGED <<remote, local>> /\ FilesGrow
  BY <1>1, SameFilesGrow DEF Typed, BatchBegins, files
<1>3. CASE exec.concurrency \notin 1 .. 8
  <2>1. FailsTask /\ batch' = <<>>
    BY <1>1, <1>3 DEF BatchBegins, FailsTask
  <2> QED BY <1>1, <1>2, <2>1, TaskFailsStep, EndsCore DEF Failing
<1>4. CASE exec.concurrency \in 1 .. 8
  <2>1. /\ batch' = Waiting /\ exec' = [exec EXCEPT !.phase = "items"]
        /\ UNCHANGED <<alive, plan, transfer, ghosts>>
    BY <1>4 DEF BatchBegins, Waiting
  <2>2. DOMAIN exec.then \subseteq Nat /\ \A i \in DOMAIN exec.then : exec.then[i] \in PlanItems
    <3>1. exec.then \in Numbered(PlanItems)
      BY <1>2 DEF Execs
    <3> QED BY <3>1, NumberedType
  <2>3. ASSUME NEW i \in DOMAIN exec.then
        PROVE  /\ Waiting[i] \in BatchItems /\ Waiting[i].st = "wait"
               /\ Waiting[i].head = "none" /\ Waiting[i].body = "none"
               /\ Waiting[i].src = exec.then[i].src /\ Waiting[i].dst = exec.then[i].dst
    <3>1. exec.then[i].src \in Paths /\ exec.then[i].dst \in Paths /\ "none" \in Entries
      BY <2>2, EntryFacts DEF PlanItems
    <3> QED BY <3>1 DEF Waiting, BatchItems, ItemStates, Codes
  <2>4. DOMAIN Waiting = DOMAIN exec.then /\ Waiting \in [DOMAIN exec.then -> BatchItems]
    BY <2>3 DEF Waiting
  <2>5. batch' \in Numbered(BatchItems)
    BY <2>1, <2>2, <2>4, NumberedType
  <2>6. /\ exec' \in Execs /\ exec'.phase = "items" /\ exec'.background = exec.background
        /\ exec'.overwrite = exec.overwrite /\ exec'.concurrency = exec.concurrency
        /\ exec'.trees = exec.trees /\ exec'.files = exec.files /\ exec'.tree = exec.tree
        /\ exec'.then = exec.then
        /\ exec'.completed = exec.completed /\ exec'.failed = exec.failed
    BY <1>2, <2>1 DEF Execs, Phases
  <2>7. Staging
    BY <1>1, <1>2, <2>1, <2>3, <2>4, <2>6 DEF Staging, ghosts, transfer
  <2>8. Staged'
    BY <1>1, <1>2, <2>1, <2>3, <2>4, <2>6 DEF Staged, InTree
  <2> QED BY <1>1, <1>2, <2>1, <2>3, <2>4, <2>5, <2>6, <2>7, <2>8, StagingCore DEF transfer
<1> QED BY <1>3, <1>4

\* The batch is over and its outcome merged.
Merged ==
    /\ exec.phase = "items" /\ \A i \in DOMAIN batch : batch[i].st \in {"ok", "failed"}
    /\ UNCHANGED <<remote, local, xfer>> /\ batch' = <<>> /\ exec'.phase = "start"
    /\ exec'.trees = IF exec.tree THEN exec.trees \ {Min(exec.trees)} ELSE exec.trees
    /\ exec'.files = IF exec.tree THEN exec.files ELSE {}
    /\ exec'.failures = exec.failures \cup {batch[i].code : i \in Failures}
    /\ exec'.then = exec.then /\ exec'.dirs = exec.dirs

LEMMA SplitBatch ==
    ASSUME IsFiniteSet(DOMAIN batch), \A i \in DOMAIN batch : batch[i].st \in {"ok", "failed"}
    PROVE  /\ Cardinality(Copied) \in Nat /\ Cardinality(Failures) \in Nat
           /\ Cardinality(Copied) + Cardinality(Failures) = Cardinality(DOMAIN batch)
<1>1. IsFiniteSet(Copied) /\ IsFiniteSet(Failures)
  BY FS_Subset DEF Copied, Failures
<1>2. Copied \cup Failures = DOMAIN batch /\ Copied \cap Failures = {}
  BY DEF Copied, Failures
<1> HIDE DEF Copied, Failures
<1>3. /\ Cardinality(Copied \cup Failures)
           = Cardinality(Copied) + Cardinality(Failures) - Cardinality(Copied \cap Failures)
  BY <1>1, FS_Union
<1>4. Cardinality({}) = 0
  BY FS_EmptySet
<1>5. Cardinality(Copied \cap Failures) = 0 /\ Cardinality(Copied \cup Failures) = Cardinality(DOMAIN batch)
  BY <1>2, <1>4, Zenon
<1>6. Cardinality(Copied) \in Nat /\ Cardinality(Failures) \in Nat
  BY <1>1, FS_CardinalityType
<1> QED BY <1>3, <1>5, <1>6

LEMMA SplitItems ==
    ASSUME NEW items \in Seq(PlanItems)
    PROVE  /\ IsFiniteSet(Trees(items)) /\ IsFiniteSet(Files(items))
           /\ Cardinality(Trees(items)) \in Nat /\ Cardinality(Files(items)) \in Nat
           /\ Cardinality(Trees(items)) + Cardinality(Files(items)) = Len(items)
<1> DEFINE A == Trees(items)
           B == Files(items)
           n == Len(items)
<1>1. A \cup B = 1 .. n /\ A \cap B = {} /\ n \in Nat
  BY DEF Trees, Files
<1>2. IsFiniteSet(1 .. n) /\ Cardinality(1 .. n) = n
  <2> HIDE DEF n
  <2>1. n \in Nat
    BY <1>1
  <2>2. 1 <= n + 1 /\ 1 \in Int /\ n \in Int
    BY <2>1
  <2> QED BY <2>1, <2>2, FS_Interval
<1> HIDE DEF A, B, n
<1>3. IsFiniteSet(A) /\ IsFiniteSet(B)
  BY <1>1, <1>2, FS_Subset
<1>4. Cardinality(A \cup B) = Cardinality(A) + Cardinality(B) - Cardinality(A \cap B)
  BY <1>3, FS_Union
<1>5. Cardinality({}) = 0 /\ Cardinality(A) \in Nat /\ Cardinality(B) \in Nat
  BY <1>3, FS_EmptySet, FS_CardinalityType
<1>6. Cardinality(A) + Cardinality(B) = n
  <2>1. Cardinality(A \cap B) = 0 /\ Cardinality(A \cup B) = n
    BY <1>1, <1>2, <1>5, Zenon
  <2> QED BY <1>1, <1>4, <1>5, <2>1
<1> QED BY <1>3, <1>5, <1>6 DEF A, B, n

\* What the task has left is finite.
LEMMA LeftFinite ==
    ASSUME Core, exec.phase # "none"
    PROVE  /\ IsFiniteSet(exec.trees) /\ IsFiniteSet(exec.files)
           /\ Cardinality(exec.trees) \in Nat /\ Cardinality(exec.files) \in Nat
<1>1. plan.items \in Seq(PlanItems)
  BY DEF Core, Typed, Plans
<1>2. exec.trees \subseteq Trees(plan.items) /\ exec.files \subseteq Files(plan.items)
  BY DEF Core, Staged
<1>3. IsFiniteSet(Trees(plan.items)) /\ IsFiniteSet(Files(plan.items))
  BY <1>1, SplitItems
<1>4. IsFiniteSet(exec.trees) /\ IsFiniteSet(exec.files)
  BY <1>2, <1>3, FS_Subset
<1> QED BY <1>4, FS_CardinalityType

LEMMA BatchEndsStep ==
    ASSUME Core, BatchEnds
    PROVE  Core' /\ (Failing \/ (Staging /\ Merged))
<1> USE DEF Core
<1>1. /\ exec.phase = "items" /\ \A i \in DOMAIN batch : batch[i].st \in {"ok", "failed"}
      /\ batch' = <<>> /\ temps' = temps /\ UNCHANGED <<remote, local>>
  BY DEF BatchEnds, files
<1>2. exec \in Execs /\ plan \in Plans /\ FilesGrow
  BY <1>1, SameFilesGrow DEF Typed, files
<1>3. temps' = {}
  <2>1. \A i \in temps : i \in DOMAIN batch /\ batch[i].st \in {"receive", "rest", "got"}
    BY DEF Received, TempsOwned
  <2>2. temps = {}
    BY <1>1, <2>1
  <2> QED BY <1>1, <2>2
<1>4. CASE exec.background /\ token /\ \E i \in Failures : batch[i].code = "Interrupted"
  <2>1. FailsTask
    BY <1>4 DEF BatchEnds, FailsTask
  <2> QED BY <1>1, <1>2, <1>3, <2>1, TaskFailsStep, EndsCore DEF Failing
<1>5. CASE ~(exec.background /\ token /\ \E i \in Failures : batch[i].code = "Interrupted")
  <2> DEFINE tr == IF exec.tree THEN exec.trees \ {Min(exec.trees)} ELSE exec.trees
             fi == IF exec.tree THEN exec.files ELSE {}
             fa == exec.failures \cup {batch[i].code : i \in Failures}
             co == exec.completed + (IF exec.tree THEN 1 ELSE Cardinality(Copied))
             fd == exec.failed + (IF exec.tree THEN 0 ELSE Cardinality(Failures))
  <2>1. /\ exec' = [exec EXCEPT !.phase = "start", !.trees = tr, !.files = fi, !.failures = fa,
                                !.completed = co, !.failed = fd]
        /\ UNCHANGED <<alive, plan, transfer, ghosts>>
    BY <1>5 DEF BatchEnds
  <2>2. /\ IsFiniteSet(exec.trees) /\ IsFiniteSet(exec.files)
        /\ Cardinality(exec.trees) \in Nat /\ Cardinality(exec.files) \in Nat
    BY <1>1, LeftFinite
  <2>3. exec.completed \in Nat /\ exec.failed \in Nat /\ exec.tree \in BOOLEAN
        /\ exec.trees \in SUBSET Nat /\ exec.files \in SUBSET Nat
    BY <1>2 DEF Execs
  <2>4. /\ tr \subseteq exec.trees /\ fi \subseteq exec.files
        /\ co \in Nat /\ fd \in Nat
        /\ co + fd + Cardinality(tr) + Cardinality(fi)
             = exec.completed + exec.failed + Cardinality(exec.trees) + Cardinality(exec.files)
    <3>1. CASE exec.tree = TRUE
      <4>1. Min(exec.trees) \in exec.trees
        BY <1>1, <3>1, TreeItem DEF InTree
      <4>2. Cardinality(exec.trees \ {Min(exec.trees)}) = Cardinality(exec.trees) - 1
        BY <2>2, <4>1, FS_RemoveElement
      <4>3. /\ tr = exec.trees \ {Min(exec.trees)} /\ fi = exec.files
            /\ co = exec.completed + 1 /\ fd = exec.failed
        BY <2>3, <3>1
      <4>4. Cardinality(tr) = Cardinality(exec.trees) - 1 /\ Cardinality(fi) = Cardinality(exec.files)
        BY <4>2, <4>3
      <4> HIDE DEF tr, fi, co, fd
      <4>5. tr \subseteq exec.trees /\ fi \subseteq exec.files
        BY <4>3
      <4> QED BY <2>2, <2>3, <4>3, <4>4, <4>5
    <3>2. CASE exec.tree = FALSE
      <4>1. exec.trees = {} /\ DOMAIN batch = exec.files
        BY <1>1, <3>2 DEF Staged
      <4>2. /\ Cardinality(Copied) \in Nat /\ Cardinality(Failures) \in Nat
            /\ Cardinality(Copied) + Cardinality(Failures) = Cardinality(exec.files)
        BY <1>1, <2>2, <4>1, SplitBatch
      <4>3. /\ tr = exec.trees /\ fi = {} /\ Cardinality({}) = 0
            /\ co = exec.completed + Cardinality(Copied) /\ fd = exec.failed + Cardinality(Failures)
        BY <3>2, FS_EmptySet
      <4> HIDE DEF tr, fi, co, fd
      <4>4. Cardinality(tr) = Cardinality(exec.trees) /\ Cardinality(fi) = 0
        BY <4>3, Zenon
      <4>5. tr \subseteq exec.trees /\ fi \subseteq exec.files
        BY <4>3
      <4> QED BY <2>2, <2>3, <4>2, <4>3, <4>4, <4>5
    <3> QED BY <2>3, <3>1, <3>2
  <2>5. fa \in SUBSET Codes
    <3>1. \A i \in Failures : batch[i].code \in Codes
      BY BatchType DEF Failures, BatchItems
    <3>2. exec.failures \in SUBSET Codes
      BY <1>2 DEF Execs
    <3> QED BY <3>1, <3>2
  <2> HIDE DEF tr, fi, fa, co, fd
  <2>6. /\ exec' \in Execs /\ exec'.phase = "start" /\ exec'.background = exec.background
        /\ exec'.overwrite = exec.overwrite /\ exec'.concurrency = exec.concurrency
        /\ exec'.trees = tr /\ exec'.files = fi /\ exec'.failures = fa
        /\ exec'.then = exec.then /\ exec'.dirs = exec.dirs
        /\ exec'.completed = co /\ exec'.failed = fd
    <3>1. tr \in SUBSET Nat /\ fi \in SUBSET Nat
      BY <2>3, <2>4
    <3> QED BY <1>2, <2>1, <2>4, <2>5, <3>1 DEF Execs, Phases
  <2>7. Staging
    BY <1>1, <1>2, <1>3, <2>1, <2>6 DEF Staging, ghosts, transfer
  <2>8. Staged'
    <3>1. exec.trees \subseteq Trees(plan.items) /\ exec.files \subseteq Files(plan.items) /\ plan.phase = "planned"
          /\ exec.completed + exec.failed + Cardinality(exec.trees) + Cardinality(exec.files)
               <= Len(plan.items)
      BY <1>1 DEF Staged
    <3>2. co + fd + Cardinality(tr) + Cardinality(fi) <= Len(plan.items)
      BY <2>4, <3>1
    <3> QED BY <1>1, <2>1, <2>4, <2>6, <3>1, <3>2 DEF Staged, InTree
  <2>9. Merged
    BY <1>1, <2>1, <2>6 DEF Merged, transfer, tr, fi, fa
  <2> QED BY <1>1, <2>6, <2>7, <2>8, <2>9, StagingCore, NumberedType
<1> QED BY <1>4, <1>5

\* The task reports.
Reports ==
    /\ Ends /\ XferKept /\ FilesGrow /\ exec.phase = "report" /\ UNCHANGED <<remote, local>>
    /\ xfer' = "Completed" => xfer = "Completed" \/ exec.failures = {}

LEMMA TaskReportsStep ==
    ASSUME Core, TaskReports
    PROVE  Core' /\ Reports
<1>1. batch = <<>> /\ temps = {} /\ exec.phase = "report"
  BY NoBatch DEF TaskReports
<1> USE DEF Core
<1>2. /\ exec' = [exec EXCEPT !.phase = "ended"] /\ batch' = <<>> /\ temps' = {}
      /\ UNCHANGED <<remote, local, plan, token, cancelling, others, touched, base, escaped, replied>>
      /\ FilesGrow
  BY <1>1, SameFilesGrow DEF TaskReports, files, ghosts
<1>3. alive' \in BOOLEAN
  BY DEF TaskReports
<1>4. Ends
  BY <1>1, <1>2, <1>3 DEF Ends
<1>5. xfer' = IF ~exec.background THEN xfer
              ELSE IF xfer \in Terminal THEN xfer ELSE IF exec.failures = {} THEN "Completed" ELSE "Failed"
  BY DEF TaskReports, transition
<1>6. XferKept
  BY <1>1, <1>2, <1>5 DEF XferKept, Typed, Told, Terminal
<1>7. Reports
  BY <1>1, <1>2, <1>4, <1>5, <1>6 DEF Reports, Terminal
<1> QED BY <1>2, <1>4, <1>6, <1>7, EndsCore

\* Nothing but the transfer's state changes.
Signals ==
    /\ exec.phase # "none" /\ alive' \in BOOLEAN
    /\ UNCHANGED <<remote, local, plan, exec, batch, temps, others, touched, base, escaped, replied>>
    /\ xfer' \in Terminal \cup {"none", "Queued", "Running"}
    /\ token' \in BOOLEAN /\ cancelling' \in BOOLEAN
    /\ xfer # "none" => xfer' # "none"
    /\ xfer \in Terminal => xfer' = xfer
    /\ exec.phase = "ended" /\ exec.background /\ ~cancelling' => xfer' \in Terminal
    /\ token' /\ ~cancelling' => xfer' \in Terminal
    /\ xfer' = "Completed" => xfer = "Completed"

LEMMA SignalsCore ==
    ASSUME Core, Signals
    PROVE  Core'
<1> USE DEF Core
<1>1. Typed'
  BY DEF Typed, Signals
<1>2. Staged'
  BY DEF Staged, Signals, InTree
<1>3. Received'
  BY DEF Received, Signals, NeverPartial, VerifiedBodies, TempsOwned
<1>4. Told'
  BY DEF Told, Signals, EndedIsTerminal
<1> QED BY <1>1, <1>2, <1>3, <1>4

LEMMA CancelSteps ==
    ASSUME Core, cancel_transfer \/ cancel_transition \/ cancel_for_session
    PROVE  Core' /\ (Signals \/ (Failing /\ UNCHANGED <<remote, local>>))
<1> USE DEF Core
<1>1. CASE cancel_transfer
  <2>1. Signals
    BY <1>1 DEF cancel_transfer, Signals, Staged, Typed, files, ghosts
  <2> QED BY <2>1, SignalsCore
<1>2. CASE cancel_transition
  <2>1. Signals
    BY <1>2 DEF cancel_transition, Signals, Staged, Typed, transition, Terminal, files, ghosts
  <2> QED BY <2>1, SignalsCore
<1>3. CASE cancel_for_session
  <2>1. exec.phase # "none" /\ xfer' = transition("Cancelled") /\ token' = TRUE /\ alive' = FALSE
        /\ UNCHANGED <<remote, local, plan, cancelling, others, touched, base, escaped, replied>>
    BY <1>3 DEF cancel_for_session, Staged, files, ghosts
  <2>2. xfer' \in Terminal /\ (xfer \in Terminal => xfer' = xfer) /\ (xfer' = "Completed" => xfer = "Completed")
    BY <2>1 DEF transition, Terminal
  <2>3. CASE UNCHANGED <<exec, batch, temps>>
    <3>1. Signals
      BY <2>1, <2>2, <2>3 DEF Signals, Typed, Terminal
    <3> QED BY <3>1, SignalsCore
  <2>4. CASE exec.phase # "ended" /\ exec' = [exec EXCEPT !.phase = "ended"] /\ batch' = <<>> /\ temps' = {}
    <3>1. Ends
      BY <2>1, <2>4 DEF Ends
    <3>2. XferKept
      BY <2>1, <2>2 DEF XferKept, Typed, Terminal
    <3>3. FilesGrow
      BY <2>1, SameFilesGrow DEF files
    <3> QED BY <2>1, <2>2, <3>1, <3>2, <3>3, EndsCore DEF Failing
  <2> QED BY <1>3, <2>3, <2>4 DEF cancel_for_session
<1> QED BY <1>1, <1>2, <1>3

\* A plan is being made: nothing else moves.
Planning ==
    /\ exec.phase = "none" /\ plan' \in Plans /\ ~escaped' /\ plan'.phase # "none"
    /\ plan'.dir = "Download" => plan.dir = "Download"
    /\ UNCHANGED <<remote, local, alive, exec, batch, temps, xfer, token, cancelling, others, touched,
                   base, replied>>

LEMMA PlanningCore ==
    ASSUME Core, Planning
    PROVE  Core'
<1> USE DEF Core
<1>0. batch = <<>> /\ exec.phase = "none"
  BY NoBatch DEF Planning
<1>1. Typed'
  BY DEF Typed, Planning
<1>2. Staged'
  BY <1>0 DEF Staged, Planning, InTree
<1>3. Received'
  BY <1>0 DEF Received, Planning, NeverPartial, VerifiedBodies, TempsOwned
<1>4. Told'
  BY DEF Told, Planning, EndedIsTerminal
<1> QED BY <1>1, <1>2, <1>3, <1>4

\* finalize_file_plan adds the duplicates and changes nothing else.
Finalized ==
    /\ plan.phase = "planning" /\ plan'.phase = "planned" /\ plan.todo = <<>>
    /\ plan'.dir = plan.dir /\ plan'.todo = plan.todo /\ plan'.dest = plan.dest
    /\ plan'.count = plan.count /\ plan'.items = plan.items /\ plan'.checked = plan.checked
    /\ plan.conflicts \subseteq plan'.conflicts
    /\ Duplicate \notin plan'.conflicts =>
         \A i, j \in DOMAIN plan.items : i # j => plan.items[i].dst # plan.items[j].dst

LEMMA FinalizeStep ==
    ASSUME Core, InsideRoot, finalize_file_plan
    PROVE  Planning /\ Finalized
<1> USE DEF Core
<1> DEFINE dup == append_duplicate_destination_conflicts(plan.items)
<1>1. plan \in Plans /\ plan.items \in Seq(PlanItems)
  BY DEF Typed, Plans
<1>2. /\ plan.phase = "planning" /\ plan.todo = <<>>
      /\ plan' = [plan EXCEPT !.phase = "planned", !.conflicts = plan.conflicts \cup dup]
      /\ UNCHANGED <<remote, local, alive, exec, batch, temps, xfer, token, cancelling, others, touched,
                     base, escaped, replied>>
  BY DEF finalize_file_plan, files, transfer, ghosts
<1>3. dup \subseteq [kind : ConflictKinds, overridable : BOOLEAN]
  <2>1. Duplicate \in [kind : ConflictKinds, overridable : BOOLEAN]
    BY DEF Duplicate, Conflict, ConflictKinds
  <2>2. \A x \in dup : x = Duplicate
    BY DEF append_duplicate_destination_conflicts, Duplicate
  <2> QED BY <2>1, <2>2
<1>4. ASSUME NEW i \in DOMAIN plan.items, NEW j \in DOMAIN plan.items, i # j,
             plan.items[i].dst = plan.items[j].dst
      PROVE  Duplicate \in dup
  <2> DEFINE n == Len(plan.items)
  <2>1. i \in 1 .. n /\ j \in 1 .. n /\ n \in Nat
    BY <1>1
  <2> DEFINE X == {x \in (1 .. n) \X (1 .. n) : x[1] < x[2] /\ plan.items[x[1]].dst = plan.items[x[2]].dst}
  <2>2. <<i, j>> \in X \/ <<j, i>> \in X
    BY <1>4, <2>1
  <2>3. dup = {Duplicate : ij \in X}
    BY DEF append_duplicate_destination_conflicts, Duplicate
  <2> HIDE DEF X, dup
  <2> QED BY <2>2, <2>3
<1> HIDE DEF dup
<1>5. /\ plan' \in Plans /\ plan'.phase = "planned" /\ plan'.dir = plan.dir /\ plan'.todo = plan.todo
      /\ plan'.dest = plan.dest /\ plan'.count = plan.count /\ plan'.items = plan.items
      /\ plan'.checked = plan.checked /\ plan'.conflicts = plan.conflicts \cup dup
  <2> DEFINE cs == plan.conflicts \cup dup
  <2>1. cs \in SUBSET [kind : ConflictKinds, overridable : BOOLEAN]
    BY <1>1, <1>3 DEF Plans
  <2> HIDE DEF cs
  <2>2. plan' = [plan EXCEPT !.phase = "planned", !.conflicts = cs]
    BY <1>2 DEF cs
  <2>3. /\ plan' \in Plans /\ plan'.phase = "planned" /\ plan'.dir = plan.dir /\ plan'.todo = plan.todo
        /\ plan'.dest = plan.dest /\ plan'.count = plan.count /\ plan'.items = plan.items
        /\ plan'.checked = plan.checked /\ plan'.conflicts = cs
    BY <1>1, <2>1, <2>2 DEF Plans
  <2> QED BY <2>3 DEF cs
<1>6. exec.phase = "none"
  BY <1>2 DEF Staged
<1>7. Planning
  BY <1>2, <1>5, <1>6 DEF Planning, InsideRoot
<1>8. Finalized
  BY <1>2, <1>4, <1>5 DEF Finalized
<1> QED BY <1>7, <1>8

LEMMA PlanSteps ==
    ASSUME Core, InsideRoot, Plan
    PROVE  Core' /\ Planning /\ plan.phase # "planned"
<1> USE DEF Core
<1>1. ASSUME NEW dir \in Directions, NEW recursive \in BOOLEAN, NEW overwrite \in BOOLEAN,
             NEW sources \in Sources[dir], NEW dest \in Destinations[dir],
             PlanBegins(dir, sources, dest, recursive, overwrite)
      PROVE  Planning /\ plan.phase # "planned"
  <2>1. /\ plan' \in Plans /\ ~escaped' /\ plan'.phase \in {"planning", "error"} /\ plan.phase = "none"
        /\ UNCHANGED <<files, alive, exec, batch, temps, transfer, others, touched, base, replied>>
    BY <1>1, PlanBeginsStep
  <2>2. exec.phase = "none" /\ plan.dir = "Download"
    BY <2>1 DEF Staged
  <2> QED BY <2>1, <2>2 DEF Planning, files, transfer
<1>2. CASE PlanSource
  <2>1. /\ plan' \in Plans /\ ~escaped' /\ plan'.phase # "none" /\ plan.phase = "planning"
        /\ plan'.dir = plan.dir
        /\ UNCHANGED <<files, alive, exec, batch, temps, transfer, others, touched, base, replied>>
    BY <1>2, PlanSourceStep
  <2>2. exec.phase = "none"
    BY <2>1 DEF Staged
  <2> QED BY <2>1, <2>2, PlanningCore DEF Planning, files, transfer
<1>3. CASE finalize_file_plan
  BY <1>3, FinalizeStep, PlanningCore DEF Finalized
<1> QED BY <1>1, <1>2, <1>3, PlanningCore DEF Plan

\* The execution begins.
Begins ==
    /\ exec.phase = "none" /\ plan' \in Plans /\ plan'.phase = "planned"
    /\ plan'.dir = "Download" => plan.dir = "Download"
    /\ exec' \in Execs /\ exec'.phase = "start" /\ xfer' \in {"Queued", "none"}
    /\ exec'.background => xfer' = "Queued"
    /\ exec'.trees = Trees(plan'.items) /\ exec'.files = Files(plan'.items)
    /\ exec'.dirs = {} /\ exec'.then = <<>> /\ exec'.failures = {}
    /\ exec'.completed = 0 /\ exec'.failed = 0
    /\ base' = [remote |-> remote, local |-> local] /\ touched' = {} /\ ~escaped'
    /\ UNCHANGED <<remote, local, alive, batch, temps, token, cancelling, others, replied>>
    /\ plan'.checked => UNCHANGED plan /\ plan.phase = "planned" /\ \E overwrite \in BOOLEAN :
                            is_executable_with(plan.conflicts, overwrite)

LEMMA BeginsCore ==
    ASSUME Core, Begins
    PROVE  Core'
<1> USE DEF Core
<1>0. batch = <<>> /\ exec.phase = "none" /\ batch' = <<>>
  BY NoBatch DEF Begins
<1>1. Typed'
  BY DEF Typed, Begins
<1>2. Staged'
  <2>1. plan'.items \in Seq(PlanItems)
    BY DEF Begins, Plans
  <2>2. /\ Cardinality(Trees(plan'.items)) \in Nat /\ Cardinality(Files(plan'.items)) \in Nat
        /\ Cardinality(Trees(plan'.items)) + Cardinality(Files(plan'.items)) = Len(plan'.items)
        /\ Len(plan'.items) \in Nat
    BY <2>1, SplitItems
  <2>3. exec'.completed + exec'.failed + Cardinality(exec'.trees) + Cardinality(exec'.files)
          <= Len(plan'.items)
    BY <2>2 DEF Begins
  <2> QED BY <1>0, <2>3 DEF Staged, Begins, InTree
<1>3. Received'
  BY <1>0 DEF Received, Begins, NeverPartial, VerifiedBodies, TempsOwned
<1>4. Told'
  BY DEF Told, Begins, EndedIsTerminal, Staged
<1> QED BY <1>1, <1>2, <1>3, <1>4

LEMMA BeginExec ==
    ASSUME Core, exec.phase = "none", NEW items \in Seq(PlanItems), NEW background \in BOOLEAN,
           NEW overwrite \in BOOLEAN, NEW concurrency \in Nat,
           Begin(items, background, overwrite, concurrency)
    PROVE  /\ exec' \in Execs /\ exec'.phase = "start" /\ xfer' \in {"Queued", "none"}
           /\ exec'.background => xfer' = "Queued"
           /\ exec'.trees = Trees(items) /\ exec'.files = Files(items)
           /\ exec'.dirs = {} /\ exec'.then = <<>> /\ exec'.failures = {}
           /\ exec'.completed = 0 /\ exec'.failed = 0
           /\ base' = [remote |-> remote, local |-> local] /\ touched' = {}
           /\ UNCHANGED <<remote, local, alive, batch, temps, token, cancelling, others, replied>>
<1> USE DEF Core
<1> DEFINE tr == Trees(items)
           fi == Files(items)
           co == IF concurrency = 0 THEN 1 ELSE concurrency
<1>1. tr \in SUBSET Nat /\ fi \in SUBSET Nat /\ co \in Nat
  BY DEF Trees, Files
<1>2. exec' = [exec EXCEPT !.phase = "start", !.background = background, !.overwrite = overwrite,
                  !.concurrency = co, !.trees = tr, !.files = fi]
  BY DEF Begin
<1>3. exec \in Execs /\ exec.dirs = {} /\ exec.then = <<>> /\ exec.failures = {}
      /\ exec.completed = 0 /\ exec.failed = 0
  BY DEF Typed, Staged
<1> HIDE DEF tr, fi, co
<1>4. /\ exec' \in Execs /\ exec'.phase = "start" /\ exec'.background = background
      /\ exec'.trees = tr /\ exec'.files = fi /\ exec'.dirs = exec.dirs /\ exec'.then = exec.then
      /\ exec'.failures = exec.failures /\ exec'.completed = exec.completed /\ exec'.failed = exec.failed
  BY <1>1, <1>2, <1>3 DEF Execs, Phases
<1>5. /\ xfer' = (IF background THEN "Queued" ELSE "none")
      /\ base' = [remote |-> remote, local |-> local] /\ touched' = {}
      /\ UNCHANGED <<remote, local, alive, batch, temps, token, cancelling, others, replied>>
  BY DEF Begin, files
<1> QED BY <1>3, <1>4, <1>5 DEF tr, fi

LEMMA ExecuteStep ==
    ASSUME Core, InsideRoot, NEW overwrite \in BOOLEAN, NEW concurrency \in ConcurrencyChoices,
           execute_file_plan(overwrite, concurrency)
    PROVE  Begins
<1> USE DEF Core
<1>1. /\ exec.phase = "none" /\ plan.phase = "planned" /\ is_executable_with(plan.conflicts, overwrite)
      /\ Begin(plan.items, TRUE, overwrite, concurrency) /\ UNCHANGED <<plan, escaped>>
  BY DEF execute_file_plan
<1>2. plan \in Plans /\ plan.items \in Seq(PlanItems) /\ concurrency \in Nat
  BY RequestsAssumption DEF Typed, Plans
<1> DEFINE items == plan.items
<1>3. items \in Seq(PlanItems) /\ Begin(items, TRUE, overwrite, concurrency) /\ plan'.items = items
  BY <1>1, <1>2
<1> HIDE DEF items
<1>4. /\ exec' \in Execs /\ exec'.phase = "start" /\ xfer' \in {"Queued", "none"}
      /\ exec'.background => xfer' = "Queued"
      /\ exec'.trees = Trees(items) /\ exec'.files = Files(items)
      /\ exec'.dirs = {} /\ exec'.then = <<>> /\ exec'.failures = {}
      /\ exec'.completed = 0 /\ exec'.failed = 0
      /\ base' = [remote |-> remote, local |-> local] /\ touched' = {}
      /\ UNCHANGED <<remote, local, alive, batch, temps, token, cancelling, others, replied>>
  BY <1>1, <1>2, <1>3, BeginExec
<1> QED BY <1>1, <1>2, <1>3, <1>4 DEF Begins, InsideRoot

LEMMA StartBatchStep ==
    ASSUME Core, InsideRoot, NEW dir \in Directions, NEW background \in BOOLEAN,
           NEW overwrite \in BOOLEAN, NEW pairs \in Pairs[dir],
           start_batch(dir, background, overwrite, pairs)
    PROVE  Begins
<1> USE DEF Core
<1> DEFINE item(i) == [src |-> IF dir = "Download" THEN resolve_remote_path(Relative(pairs[i].src))
                               ELSE pairs[i].src,
                       dst |-> IF dir = "Upload" THEN resolve_remote_path(Relative(pairs[i].dst))
                               ELSE pairs[i].dst,
                       isDir |-> pairs[i].isDir]
           items == [i \in DOMAIN pairs |-> item(i)]
           raws == {Relative(IF dir = "Download" THEN pairs[i].src ELSE pairs[i].dst) :
                       i \in DOMAIN pairs}
<1>1. /\ plan.phase = "none" /\ plan' = [plan EXCEPT !.phase = "planned", !.dir = dir, !.items = items]
      /\ Begin(items, background, overwrite, 1) /\ NoteEscape(raws)
  BY DEF start_batch
<1>2. pairs \in Seq(PlanItems)
  BY RequestsAssumption DEF Directions, PlanItems, Paths
<1>3. \A i \in DOMAIN pairs : pairs[i].src \in Paths /\ pairs[i].dst \in Paths /\ pairs[i].isDir \in BOOLEAN
  <2>1. \A i \in DOMAIN pairs : pairs[i] \in PlanItems
    BY <1>2
  <2> QED BY <2>1 DEF PlanItems
<1>4. \A i \in DOMAIN pairs : item(i) \in PlanItems
  <2> TAKE i \in DOMAIN pairs
  <2>1. resolve_remote_path(Relative(pairs[i].src)) \in Paths /\ resolve_remote_path(Relative(pairs[i].dst)) \in Paths
    BY <1>3, RelativeType
  <2> QED BY <1>3, <2>1 DEF PlanItems
<1>5. items \in Seq(PlanItems)
  <2>1. DOMAIN pairs = 1 .. Len(pairs) /\ Len(pairs) \in Nat
    BY <1>2
  <2> HIDE DEF item
  <2>2. items \in [1 .. Len(pairs) -> PlanItems]
    BY <1>4, <2>1
  <2> QED BY <2>1, <2>2
<1>6. ~escaped'
  <2>1. raws \subseteq [abs : BOOLEAN, parts : Paths]
    BY <1>3, RelativeType
  <2> HIDE DEF raws
  <2> QED BY <1>1, <2>1, NoEscape
<1>7. plan \in Plans /\ exec.phase = "none" /\ ~plan.checked /\ plan.dir = "Download"
  BY <1>1 DEF Typed, Staged
<1> HIDE DEF items, raws
<1>8. plan' \in Plans /\ plan'.phase = "planned" /\ plan'.items = items /\ plan'.checked = plan.checked
  BY <1>1, <1>5, <1>7 DEF Plans
<1>9. /\ exec' \in Execs /\ exec'.phase = "start" /\ xfer' \in {"Queued", "none"}
      /\ exec'.background => xfer' = "Queued"
      /\ exec'.trees = Trees(items) /\ exec'.files = Files(items)
      /\ exec'.dirs = {} /\ exec'.then = <<>> /\ exec'.failures = {}
      /\ exec'.completed = 0 /\ exec'.failed = 0
      /\ base' = [remote |-> remote, local |-> local] /\ touched' = {}
      /\ UNCHANGED <<remote, local, alive, batch, temps, token, cancelling, others, replied>>
  BY <1>1, <1>5, <1>7, BeginExec
<1> QED BY <1>6, <1>7, <1>8, <1>9 DEF Begins

-----------------------------------------------------------------------------
(***************************************************************************)
(* Everybody else.                                                         *)
(***************************************************************************)

\* What a step of the user, the phone or another caller changes is noted, and
\* none of them writes a part of a file.
Outside ==
    /\ UNCHANGED <<plan, exec, batch, temps, xfer, token, cancelling, base>>
    /\ local' \in Locals /\ remote' \in Remotes /\ alive' \in BOOLEAN /\ ~escaped'
    /\ touched \subseteq touched'
    /\ \A q \in DOMAIN local : local'[q] # local[q] => <<"local", q>> \in touched' /\ local'[q] # "partial"
    /\ \A q \in DOMAIN remote : remote'[q] # remote[q] => <<"remote", q>> \in touched'
    /\ (\A q \in DOMAIN remote : remote[q] # "partial") => \A q \in DOMAIN remote : remote'[q] # "partial"
    /\ \/ others' = others + 1
       \/ UNCHANGED <<remote, local, others, touched>>

LEMMA OutsideCore ==
    ASSUME Core, Outside
    PROVE  Core'
<1> USE DEF Core
<1>0. DOMAIN local' = DOMAIN local /\ DOMAIN remote' = DOMAIN remote
  BY DEF Outside, Typed, Locals, Remotes
<1>1. Typed'
  BY DEF Typed, Outside
<1>2. Staged'
  BY DEF Staged, Outside, InTree
<1>3. NeverPartial'
  BY <1>0 DEF Received, Outside, NeverPartial
<1>4. Received'
  BY <1>0, <1>3 DEF Received, Outside, VerifiedBodies, TempsOwned
<1>5. Told'
  BY DEF Told, Outside, EndedIsTerminal
<1> QED BY <1>1, <1>2, <1>4, <1>5

\* A request that changed the phone.
LEMMA AppliedOutside ==
    ASSUME Core, NEW new \in Remotes, Applied(new), Steady, Other, UNCHANGED local,
           alive' \in BOOLEAN, ~escaped',
           \A q \in DOMAIN remote : new[q] = "partial" => \E p \in DOMAIN remote : remote[p] = "partial"
    PROVE  Outside
<1>1. remote' = new /\ touched' = touched \cup Changes("remote", remote, new)
  BY DEF Applied
<1>2. \A q \in DOMAIN remote : remote'[q] # remote[q] => <<"remote", q>> \in touched'
  BY <1>1 DEF Changes
<1>3. /\ UNCHANGED <<plan, exec, batch, temps, xfer, token, cancelling, base>> /\ others' = others + 1
      /\ local' \in Locals
  BY DEF Steady, transfer, Other, Core, Typed
<1> QED BY <1>1, <1>2, <1>3 DEF Outside

LEMMA DeleteStep ==
    ASSUME Core, InsideRoot, NEW ps \in Deletes, delete_paths({Relative(p) : p \in ps})
    PROVE  /\ Outside
           /\ replied' # replied => \A p \in replied' : At(remote', p) = "none"
<1> DEFINE raws == {Relative(p) : p \in ps}
           asked == {resolve_remote_path(raw) : raw \in raws}
<1>1. ps \subseteq Paths
  BY PathsAssumption DEF Paths
<1>2. raws \subseteq [abs : BOOLEAN, parts : Paths] /\ asked \subseteq Paths
  BY <1>1, RelativeType
<1>3. /\ Other /\ alive /\ NoteEscape(raws) /\ UNCHANGED local /\ Steady
      /\ \E gone \in SUBSET {p \in asked : file_exists(p)} :
             /\ Applied(delete(gone))
             /\ alive' \in {alive, FALSE}
             /\ replied' = IF alive' /\ ensure_deleted_files_succeeded(asked, gone)
                           THEN asked ELSE {}
  BY DEF delete_paths
<1> HIDE DEF raws, asked
<1>4. PICK gone \in SUBSET {p \in asked : file_exists(p)} :
             /\ Applied(delete(gone))
             /\ alive' \in {alive, FALSE}
             /\ replied' = IF alive' /\ ensure_deleted_files_succeeded(asked, gone)
                           THEN asked ELSE {}
  BY <1>3
<1>5. ~escaped'
  BY <1>2, <1>3, NoEscape
<1>6. remote \in Remotes /\ "none" \in Entries /\ alive' \in BOOLEAN
  BY <1>4, EntryFacts DEF Core, Typed
<1>7. \A q \in DOMAIN remote : delete(gone)[q] = IF \E p \in gone : IsPrefix(p, q) THEN "none" ELSE remote[q]
  BY DEF delete
<1>8. \A q \in DOMAIN remote : delete(gone)[q] \in {remote[q], "none"}
  <2> TAKE q \in DOMAIN remote
  <2>1. CASE \E p \in gone : IsPrefix(p, q)
    <3>1. delete(gone)[q] = "none"
      BY <1>7, <2>1, Zenon
    <3> QED BY <3>1
  <2>2. CASE ~ \E p \in gone : IsPrefix(p, q)
    <3>1. delete(gone)[q] = remote[q]
      BY <1>7, <2>2, Zenon
    <3> QED BY <3>1
  <2> QED BY <2>1, <2>2
<1>9. delete(gone) \in Remotes
  <2>1. DOMAIN delete(gone) = DOMAIN remote /\ delete(gone) = [q \in DOMAIN remote |-> delete(gone)[q]]
    BY DEF delete
  <2>2. \A q \in DOMAIN remote : delete(gone)[q] \in Entries
    BY <1>6, <1>8 DEF Remotes
  <2> QED BY <1>6, <2>1, <2>2 DEF Remotes
<1>10. Outside
  <2>1. \A q \in DOMAIN remote : delete(gone)[q] = "partial" => \E p \in DOMAIN remote : remote[p] = "partial"
    BY <1>8
  <2> QED BY <1>3, <1>4, <1>5, <1>6, <1>9, <2>1, AppliedOutside
<1>11. ASSUME NEW p \in replied' PROVE At(remote', p) = "none"
  <2>1. p \in asked /\ p \in gone /\ p \in Paths
    BY <1>2, <1>4, <1>11 DEF ensure_deleted_files_succeeded
  <2>2. IsPrefix(p, p)
    BY <2>1, PrefixRefl
  <2>3. p \in DOMAIN remote => delete(gone)[p] = "none"
    BY <1>7, <2>1, <2>2, Zenon
  <2>4. remote' = delete(gone) /\ DOMAIN remote' = DOMAIN remote
    BY <1>4, <1>6, <1>9 DEF Applied, Remotes
  <2> QED BY <2>3, <2>4 DEF At
<1> QED BY <1>10, <1>11

LEMMA OutsideSteps ==
    ASSUME Core, InsideRoot, OtherCallers, ~cancel_for_session
    PROVE  /\ Outside
           /\ replied' # replied => \A p \in replied' : At(remote', p) = "none"
<1>0. /\ local \in Locals /\ remote \in Remotes /\ alive \in BOOLEAN /\ ~escaped
      /\ {"none", "dir"} \subseteq Entries /\ Contents \subseteq Entries
      /\ DOMAIN remote = DOMAIN RemoteInit /\ DOMAIN local = DOMAIN LocalInit
      /\ \A e \in Contents : e # "partial"
  BY EntryFacts DEF Core, Typed, InsideRoot, Locals, Remotes
<1>1. ASSUME NEW p \in DOMAIN local, NEW e \in Contents \cup {"none", "dir"}, UserChanges(p, e)
      PROVE  Outside /\ UNCHANGED replied
  <2>1. e \in Entries /\ e # "partial"
    BY <1>0
  <2>2. /\ local' \in Locals
        /\ \A q \in DOMAIN local : local'[q] = IF q = p THEN e ELSE local[q]
    BY <1>0, <1>1, <2>1, ExceptAt DEF UserChanges, Locals
  <2>3. /\ touched' = touched \cup {<<"local", p>>} /\ UNCHANGED <<remote, alive, escaped, replied>>
        /\ UNCHANGED <<plan, exec, batch, temps, xfer, token, cancelling, base>> /\ others' = others + 1
    BY <1>1 DEF UserChanges, Steady, Other, transfer
  <2> QED BY <1>0, <2>1, <2>2, <2>3 DEF Outside
<1>2. ASSUME NEW p \in DOMAIN remote, NEW e \in Contents, PhoneChanges(p, e)
      PROVE  Outside /\ UNCHANGED replied
  <2>1. e \in Entries /\ e # "partial"
    BY <1>0
  <2>2. /\ remote' \in Remotes
        /\ \A q \in DOMAIN remote : remote'[q] = IF q = p THEN e ELSE remote[q]
    BY <1>0, <1>2, <2>1, ExceptAt DEF PhoneChanges, Remotes
  <2>3. /\ touched' = touched \cup {<<"remote", p>>} /\ UNCHANGED <<local, alive, escaped, replied>>
        /\ UNCHANGED <<plan, exec, batch, temps, xfer, token, cancelling, base>> /\ others' = others + 1
    BY <1>2 DEF PhoneChanges, Steady, Other, transfer
  <2> QED BY <1>0, <2>1, <2>2, <2>3 DEF Outside
<1>3. ASSUME NEW raw \in QueryPaths, FileQuery(raw)
      PROVE  Outside /\ UNCHANGED replied
  <2>1. ~escaped'
    <3>1. {raw} \subseteq [abs : BOOLEAN, parts : Paths]
      BY PathsAssumption DEF Paths
    <3> QED BY <1>3, <3>1, NoEscape DEF FileQuery
  <2> QED BY <1>0, <1>3, <2>1 DEF Outside, FileQuery, Steady, files, transfer
<1>4. ASSUME NEW q \in NewPaths, create_directory(Relative(q))
      PROVE  Outside /\ UNCHANGED replied
  <2> DEFINE p == resolve_remote_path(Relative(q))
  <2>1. /\ Other /\ alive /\ can_create_dir(p) /\ Applied(create_dir(p)) /\ NoteEscape({Relative(q)})
        /\ UNCHANGED <<local, alive, replied>> /\ Steady
    BY <1>4 DEF create_directory
  <2>2. ~escaped'
    <3>1. {Relative(q)} \subseteq [abs : BOOLEAN, parts : Paths]
      BY PathsAssumption, RelativeType DEF Paths
    <3> QED BY <2>1, <3>1, NoEscape
  <2> HIDE DEF p
  <2>3. /\ create_dir(p) \in Remotes
        /\ \A x \in DOMAIN remote : create_dir(p)[x] = IF x = p THEN "dir" ELSE remote[x]
    BY <1>0, ExceptAt DEF create_dir, Remotes
  <2> QED BY <1>0, <2>1, <2>2, <2>3, AppliedOutside
<1>5. ASSUME NEW a \in UNION Deletes, NEW c \in NewPaths, move_path(Relative(a), Relative(c))
      PROVE  Outside /\ UNCHANGED replied
  <2> DEFINE p == resolve_remote_path(Relative(a))
             q == resolve_remote_path(Relative(c))
  <2>1. /\ Other /\ alive /\ can_rename(p, q) /\ Applied(rename(p, q)) /\ NoteEscape({Relative(a), Relative(c)})
        /\ UNCHANGED <<local, alive, replied>> /\ Steady
    BY <1>5 DEF move_path
  <2>2. ~escaped'
    <3>1. {Relative(a), Relative(c)} \subseteq [abs : BOOLEAN, parts : Paths]
      BY PathsAssumption, RelativeType DEF Paths
    <3> QED BY <2>1, <3>1, NoEscape
  <2> HIDE DEF p, q
  <2>3. p \in DOMAIN remote /\ q \in DOMAIN remote
    BY <2>1 DEF can_rename, At, IsFile
  <2>4. /\ rename(p, q) \in Remotes
        /\ \A x \in DOMAIN remote : rename(p, q)[x] \in {remote[x], remote[p], "none"}
    <3>1. remote[p] \in Entries
      BY <1>0, <2>3 DEF Remotes
    <3> QED BY <1>0, <3>1 DEF rename, Remotes
  <2>5. \A x \in DOMAIN remote : rename(p, q)[x] = "partial" => \E y \in DOMAIN remote : remote[y] = "partial"
    BY <2>3, <2>4
  <2> QED BY <1>0, <2>1, <2>2, <2>4, <2>5, AppliedOutside
<1>6. ASSUME ConnectionLost PROVE Outside /\ UNCHANGED replied
  BY <1>0, <1>6 DEF ConnectionLost, Outside, Other, Steady, files, transfer
<1> QED BY <1>1, <1>2, <1>3, <1>4, <1>5, <1>6, DeleteStep DEF OtherCallers

-----------------------------------------------------------------------------
(***************************************************************************)
(* Only the targets change.                                                *)
(***************************************************************************)

LEMMA BaseType ==
    ASSUME Core
    PROVE  /\ DOMAIN base.local = DOMAIN local /\ DOMAIN base.remote = DOMAIN remote
           /\ local \in Locals /\ remote \in Remotes
           /\ base = [remote |-> base.remote, local |-> base.local]
BY DEF Core, Typed, Locals, Remotes

\* Directories are made only where nothing was.
LEMMA GrowKeeps ==
    ASSUME Core, KeptUnlessOverwrite, Confined, exec.phase # "none", FilesGrow,
           UNCHANGED <<plan, base, touched>>, exec'.overwrite = exec.overwrite
    PROVE  KeptUnlessOverwrite' /\ Confined'
<1>1. /\ DOMAIN local' = DOMAIN local /\ DOMAIN remote' = DOMAIN remote
      /\ \A q \in DOMAIN local : local'[q] # local[q] => local[q] = "none" /\ Targeted(q) /\ plan.dir = "Download"
      /\ \A q \in DOMAIN remote : remote'[q] # remote[q] => remote[q] = "none" /\ Targeted(q) /\ plan.dir # "Download"
  BY DEF FilesGrow, Grown
<1>2. plan.dir # "Download" => plan.dir = "Upload"
  BY DEF Core, Typed, Plans, Directions
<1>3. KeptUnlessOverwrite'
  BY <1>1 DEF KeptUnlessOverwrite, IsFile
<1>4. \A q : Targeted(q) => Targeted(q)'
  BY DEF Targeted
<1>5. Confined'
  BY <1>1, <1>2, <1>4 DEF Confined
<1> QED BY <1>3, <1>5

LEMMA StagingTargets ==
    ASSUME Core, Targets, Staging, Aimed'
    PROVE  Targets'
<1>1. KeptUnlessOverwrite' /\ Confined'
  BY GrowKeeps DEF Targets, Staging
<1>2. Looked'
  BY DEF Staging, Looked, Writing
<1>3. InsideRoot'
  BY DEF Staging, Targets, InsideRoot
<1> QED BY <1>1, <1>2, <1>3 DEF Targets

LEMMA EndsTargets ==
    ASSUME Core, Targets, Ends, FilesGrow
    PROVE  Targets'
<1>0. exec'.overwrite = exec.overwrite /\ exec'.then = exec.then /\ exec'.dirs = exec.dirs
  BY DEF Ends, Core, Typed, Execs
<1>1. KeptUnlessOverwrite' /\ Confined'
  BY <1>0, GrowKeeps DEF Targets, Ends
<1>2. Looked'
  <2>1. DOMAIN batch' = {}
    BY DEF Ends
  <2> QED BY <2>1 DEF Looked
<1>3. Aimed'
  BY <1>0 DEF Targets, Aimed, Ends
<1>4. InsideRoot'
  BY DEF Ends, Targets, InsideRoot
<1> QED BY <1>1, <1>2, <1>3, <1>4 DEF Targets

LEMMA SignalsTargets ==
    ASSUME Targets, Signals
    PROVE  Targets'
BY DEF Targets, Signals, Aimed, Looked, KeptUnlessOverwrite, Kept, Confined, Targeted, InsideRoot

LEMMA PlanningTargets ==
    ASSUME Core, Targets, Planning
    PROVE  Targets'
<1>1. /\ DOMAIN exec'.then = {} /\ exec'.dirs = {} /\ DOMAIN batch' = {} /\ exec'.phase = "none" /\ ~escaped'
  BY NoBatch DEF Planning, Core, Staged
<1> QED BY <1>1 DEF Targets, Aimed, Looked, KeptUnlessOverwrite, Confined, InsideRoot

LEMMA BeginsTargets ==
    ASSUME Core, Targets, Begins
    PROVE  Targets'
<1>1. /\ DOMAIN exec'.then = {} /\ exec'.dirs = {} /\ DOMAIN batch' = {} /\ ~escaped'
  BY NoBatch DEF Begins, Core, Staged
<1>2. base'.local = local' /\ base'.remote = remote'
  BY DEF Begins
<1> QED BY <1>1, <1>2 DEF Targets, Aimed, Looked, KeptUnlessOverwrite, Confined, InsideRoot

LEMMA OutsideTargets ==
    ASSUME Core, Targets, Outside
    PROVE  Targets'
<1>1. DOMAIN local' = DOMAIN local /\ DOMAIN remote' = DOMAIN remote
  BY DEF Outside, Core, Typed, Locals, Remotes
<1>2. Aimed' /\ InsideRoot'
  BY DEF Outside, Targets, Aimed, InsideRoot
<1>3. Looked'
  BY <1>1 DEF Outside, Targets, Looked, Kept
<1>4. KeptUnlessOverwrite'
  BY <1>1 DEF Outside, Targets, KeptUnlessOverwrite
<1>5. Confined'
  BY <1>1 DEF Outside, Targets, Confined, Targeted
<1> QED BY <1>2, <1>3, <1>4, <1>5 DEF Targets

LEMMA ItemTargets ==
    ASSUME Core, Targets, NEW i \in DOMAIN batch, NEW b \in BatchItems, ItemStep(i, b)
    PROVE  Targets'
<1>1. /\ DOMAIN batch' = DOMAIN batch /\ batch'[i] = b /\ exec.phase = "items"
      /\ \A k \in DOMAIN batch : k # i => batch'[k] = batch[k]
      /\ \A k \in DOMAIN batch : batch'[k].src = batch[k].src /\ batch'[k].dst = batch[k].dst
      /\ UNCHANGED <<alive, plan, exec, xfer, token, cancelling, others, touched, base, escaped, replied>>
  BY ItemOthers DEF ItemStep, Core
<1>2. /\ DOMAIN local' = DOMAIN local /\ DOMAIN remote' = DOMAIN remote
      /\ \A q \in DOMAIN local : local'[q] # local[q] =>
            q = b.dst /\ plan.dir = "Download" /\ batch[i].st = "got"
      /\ \A q \in DOMAIN remote : remote'[q] # remote[q] =>
            q = b.dst /\ plan.dir = "Upload" /\ batch[i].st = "complete"
  BY ItemWrites DEF Core, Typed, Locals, Remotes
<1>3. b.dst = batch[i].dst /\ Asked(i, b) /\ DOMAIN batch = DOMAIN exec.then /\ batch[i].dst = exec.then[i].dst
  BY <1>1 DEF ItemStep, Core, Staged
<1>4. Aimed' /\ InsideRoot'
  BY <1>1 DEF Targets, Aimed, InsideRoot
<1>5. KeptUnlessOverwrite'
  <2>1. ASSUME ~exec.overwrite, NEW p \in DOMAIN local, local'[p] # local[p]
        PROVE  ~(IsFile(base.local[p]) /\ <<"local", p>> \notin touched)
    BY <1>2, <1>3, <2>1 DEF Targets, Looked, Writing, Kept
  <2>2. ASSUME ~exec.overwrite, NEW p \in DOMAIN remote, remote'[p] # remote[p]
        PROVE  ~(IsFile(base.remote[p]) /\ <<"remote", p>> \notin touched)
    BY <1>2, <1>3, <2>2 DEF Targets, Looked, Writing, Kept
  <2> QED BY <1>1, <1>2, <2>1, <2>2 DEF Targets, KeptUnlessOverwrite
<1>6. Confined'
  <2>1. Targeted(b.dst)
    BY <1>3 DEF Targets, Aimed, Targeted
  <2>2. \A q : Targeted(q) => Targeted(q)'
    BY <1>1 DEF Targeted
  <2> QED BY <1>1, <1>2, <2>1, <2>2 DEF Targets, Confined
<1>7. Looked'
  <2> SUFFICES ASSUME ~exec.overwrite, NEW k \in DOMAIN batch, batch'[k].st \in Writing
               PROVE  /\ plan.dir = "Download" /\ batch[k].dst \in DOMAIN local => ~Kept("local", batch[k].dst)
                      /\ plan.dir = "Upload" /\ batch[k].dst \in DOMAIN remote => ~Kept("remote", batch[k].dst)
    BY <1>1, <1>2 DEF Looked, Kept
  <2>1. CASE batch[k].st \in Writing
    BY <2>1 DEF Targets, Looked
  <2>2. CASE batch[k].st \notin Writing
    <3>1. k = i /\ At(Dst, batch[k].dst) = "none"
      BY <1>1, <1>3, <2>2 DEF Asked
    <3>2. /\ plan.dir = "Download" /\ batch[k].dst \in DOMAIN local => local[batch[k].dst] = "none"
          /\ plan.dir = "Upload" /\ batch[k].dst \in DOMAIN remote => remote[batch[k].dst] = "none"
      BY <3>1 DEF Dst, At
    <3> QED BY <1>1, <3>2 DEF Targets, KeptUnlessOverwrite, Kept, IsFile
  <2> QED BY <2>1, <2>2
<1> QED BY <1>4, <1>5, <1>6, <1>7 DEF Targets

\* What the stages of the task are going to write.
LEMMA NextStageAimed ==
    ASSUME Core, Aimed, NextStage
    PROVE  Aimed'
<1> USE DEF Core
<1>1. exec \in Execs /\ UNCHANGED plan /\ exec.phase = "start"
  BY DEF Typed, NextStage
<1>2. CASE exec'.then = exec.then /\ exec'.dirs = exec.dirs
  BY <1>1, <1>2 DEF Aimed
<1>3. CASE exec' = [exec EXCEPT !.phase = "batch", !.tree = FALSE,
                                !.then = [i \in exec.files |-> plan.items[i]]]
  <2>1. exec'.then = [i \in exec.files |-> plan.items[i]] /\ exec'.dirs = exec.dirs
    BY <1>1, <1>3 DEF Execs
  <2>2. exec.files \subseteq DOMAIN plan.items /\ plan.items \in Seq(PlanItems)
    BY <1>1 DEF Staged, Files, Typed, Plans
  <2>3. ASSUME NEW k \in exec.files PROVE IsPrefix(plan.items[k].dst, plan.items[k].dst)
    <3>1. plan.items[k] \in PlanItems
      BY <2>2
    <3>2. plan.items[k].dst \in Paths
      BY <3>1 DEF PlanItems
    <3> QED BY <3>2, PrefixRefl
  <2>4. \A k \in DOMAIN exec'.then : k \in DOMAIN plan.items /\ IsPrefix(plan.items[k].dst, exec'.then[k].dst)
    BY <2>1, <2>2, <2>3
  <2> QED BY <1>1, <2>1, <2>4 DEF Aimed
<1>4. \/ exec'.then = exec.then /\ exec'.dirs = exec.dirs
      \/ exec' = [exec EXCEPT !.phase = "batch", !.tree = FALSE,
                              !.then = [i \in exec.files |-> plan.items[i]]]
  BY <1>1 DEF NextStage, Execs
<1> QED BY <1>2, <1>3, <1>4

\* Everything below the source of a tree goes below its destination.
LEMMA TodoAimed ==
    ASSUME Core, InTree, NEW fs, DOMAIN fs \subseteq Paths, NEW todo, TreeTodo(fs, todo)
    PROVE  /\ \A k \in DOMAIN todo : \E i \in DOMAIN plan.items : IsPrefix(plan.items[i].dst, todo[k].dst)
           /\ \A p \in Paths : \E i \in DOMAIN plan.items : IsPrefix(plan.items[i].dst, target(Tree, p))
<1>1. Tree \in PlanItems /\ Min(exec.trees) \in DOMAIN plan.items /\ plan.items[Min(exec.trees)] = Tree
  BY TreeItem DEF Core, Tree
<1>2. \A p \in Paths : IsPrefix(Tree.dst, target(Tree, p))
  BY <1>1, TargetType
<1>3. \A k \in DOMAIN todo : todo[k].src \in Paths /\ todo[k].dst = target(Tree, todo[k].src)
  BY DEF TreeTodo, Below
<1> QED BY <1>1, <1>2, <1>3

LEMMA StageTargets ==
    ASSUME Core, Targets,
           \/ NextStage \/ TreeMakesRoot \/ TreeListed \/ collect_upload_tree \/ TreeMakesRemote
           \/ BatchBegins \/ BatchEnds \/ TaskReports
    PROVE  Core' /\ Targets'
<1>0. exec \in Execs /\ Aimed /\ DOMAIN remote \subseteq Paths /\ DOMAIN local \subseteq Paths
  BY EntryFacts DEF Core, Typed, Targets, Locals, Remotes
<1>1. CASE NextStage
  BY <1>0, <1>1, NextStageStep, NextStageAimed, StagingTargets
<1>2. ASSUME Failing PROVE Targets'
  BY <1>2, EndsTargets DEF Failing
<1>3. ASSUME Staging, exec'.then = exec.then, exec'.dirs \subseteq exec.dirs PROVE Targets'
  <2>1. Aimed'
    BY <1>0, <1>3 DEF Aimed, Staging
  <2> QED BY <1>3, <2>1, StagingTargets
<1>4. CASE TreeMakesRoot
  <2>1. CASE Failing
    BY <1>2, <1>4, <2>1, TreeMakesRootStep
  <2>2. CASE Staging /\ CanMakeDirs(local, Tree.dst)
    <3>1. exec'.then = exec.then /\ exec'.dirs \subseteq exec.dirs
      BY <1>0, <1>4, <2>2 DEF TreeMakesRoot, Execs
    <3> QED BY <1>3, <1>4, <2>2, <3>1, TreeMakesRootStep
  <2> QED BY <1>4, <2>1, <2>2, TreeMakesRootStep
<1>5. CASE TreeListed
  <2>1. CASE Failing
    BY <1>2, <1>5, <2>1, TreeListedStep
  <2>2. CASE Staging /\ Listed
    <3>1. InTree
      BY <2>2 DEF Listed, InTree
    <3>2. TreeTodo(remote, exec'.then) /\ UNCHANGED plan
      BY <2>2 DEF Listed, Staging
    <3>3. exec'.dirs = exec.dirs
      <4> DEFINE th == exec'.then
      <4>1. exec' = [exec EXCEPT !.phase = "batch", !.tree = TRUE, !.then = th]
        BY <2>2 DEF Listed
      <4> HIDE DEF th
      <4> QED BY <1>0, <4>1 DEF Execs
    <3>4. Aimed'
      BY <1>0, <3>1, <3>2, <3>3, TodoAimed DEF Aimed
    <3> QED BY <1>5, <2>2, <3>4, StagingTargets, TreeListedStep
  <2> QED BY <1>5, <2>1, <2>2, TreeListedStep
<1>6. CASE collect_upload_tree
  <2>1. CASE Failing
    BY <1>2, <1>6, <2>1, CollectStep
  <2>2. CASE Staging /\ Collected
    <3>1. InTree
      BY <2>2 DEF Collected, InTree
    <3>2. TreeTodo(local, exec'.then) /\ UNCHANGED plan
      BY <2>2 DEF Collected, Staging
    <3>3. \A d \in exec'.dirs : \E p \in Paths : d = target(Tree, p)
      <4>1. Tree \in PlanItems /\ Tree.src \in Paths /\ Tree.dst \in Paths
        BY <3>1, TreeItem DEF Core, PlanItems
      <4>2. Tree.dst = target(Tree, Tree.src)
        BY <4>1, TargetSelf
      <4>3. Below(local, Tree.src) \subseteq Paths
        BY <1>0 DEF Below
      <4> QED BY <2>2, <4>1, <4>2, <4>3 DEF Collected
    <3>4. Aimed'
      BY <1>0, <3>1, <3>2, <3>3, TodoAimed DEF Aimed
    <3> QED BY <1>6, <2>2, <3>4, StagingTargets, CollectStep
  <2> QED BY <1>6, <2>1, <2>2, CollectStep
<1>7. CASE TreeMakesRemote
  <2>1. CASE Failing
    BY <1>0, <1>2, <1>7, <2>1, TreeMakesRemoteStep
  <2>2. CASE Staging /\ (AllMade \/ \E d \in exec.dirs : DirMade(d))
    <3>1. exec'.then = exec.then /\ exec'.dirs \subseteq exec.dirs
      BY <1>0, <2>2 DEF AllMade, DirMade, Execs
    <3> QED BY <1>0, <1>3, <1>7, <2>2, <3>1, TreeMakesRemoteStep
  <2> QED BY <1>0, <1>7, <2>1, <2>2, TreeMakesRemoteStep
<1>8. CASE BatchBegins
  <2>1. CASE Failing
    BY <1>2, <1>8, <2>1, BatchBeginsStep
  <2>2. CASE Staging /\ exec' = [exec EXCEPT !.phase = "items"]
    <3>1. exec'.then = exec.then /\ exec'.dirs \subseteq exec.dirs
      BY <1>0, <2>2 DEF Execs
    <3> QED BY <1>3, <1>8, <2>2, <3>1, BatchBeginsStep
  <2> QED BY <1>8, <2>1, <2>2, BatchBeginsStep
<1>9. CASE BatchEnds
  BY <1>2, <1>3, <1>9, BatchEndsStep DEF Merged
<1>10. CASE TaskReports
  BY <1>10, TaskReportsStep, EndsTargets DEF Reports
<1> QED BY <1>1, <1>4, <1>5, <1>6, <1>7, <1>8, <1>9, <1>10

LEMMA InitTargets ==
    ASSUME Init
    PROVE  Core /\ Targets
<1> USE DEF Init, Core
<1>1. Typed
  <2>1. plan \in Plans
    BY DEF Plans, Directions, Paths
  <2>2. exec \in Execs
    <3>1. <<>> \in Numbered(PlanItems)
      BY NumberedType
    <3> QED BY <3>1 DEF Execs, Phases
  <2>3. batch \in Numbered(BatchItems)
    BY NumberedType
  <2>4. base \in [remote : Remotes, local : Locals] /\ remote \in Remotes /\ local \in Locals
    BY EntryFacts
  <2> QED BY <2>1, <2>2, <2>3, <2>4 DEF Typed
<1>2. Staged
  BY DEF Staged, InTree
<1>3. Received
  BY EntryFacts DEF Received, NeverPartial, VerifiedBodies, TempsOwned
<1>4. Told
  BY DEF Told, EndedIsTerminal
<1>5. Targets
  BY DEF Targets, Aimed, Looked, KeptUnlessOverwrite, Confined, InsideRoot
<1> QED BY <1>1, <1>2, <1>3, <1>4, <1>5

\* Every step is one of the kinds above.
LEMMA NextTargets ==
    ASSUME Core, Targets, [Next]_vars
    PROVE  Core' /\ Targets'
<1>0. InsideRoot
  BY DEF Targets
<1>1. CASE Plan
  BY <1>0, <1>1, PlanSteps, PlanningTargets
<1>2. CASE Call
  <2>1. ASSUME NEW overwrite \in BOOLEAN, NEW concurrency \in ConcurrencyChoices,
               execute_file_plan(overwrite, concurrency)
        PROVE  Core' /\ Targets'
    BY <1>0, <2>1, ExecuteStep, BeginsCore, BeginsTargets
  <2>2. ASSUME NEW dir \in Directions, NEW background \in BOOLEAN, NEW overwrite \in BOOLEAN,
               NEW pairs \in Pairs[dir], start_batch(dir, background, overwrite, pairs)
        PROVE  Core' /\ Targets'
    BY <1>0, <2>2, StartBatchStep, BeginsCore, BeginsTargets
  <2>3. CASE cancel_transfer
    BY <2>3, CancelSteps, SignalsTargets, EndsTargets DEF Failing
  <2> QED BY <1>2, <2>1, <2>2, <2>3 DEF Call
<1>3. CASE Task
  <2>1. ASSUME NEW i \in DOMAIN batch, Item(i) PROVE Core' /\ Targets'
    <3>1. PICK b \in BatchItems : ItemStep(i, b)
      BY <2>1, ItemSteps DEF Core
    <3> QED BY <3>1, ItemCore, ItemTargets
  <2> QED BY <1>3, <2>1, StageTargets DEF Task
<1>4. CASE cancel_transition \/ cancel_for_session
  BY <1>4, CancelSteps, SignalsTargets, EndsTargets DEF Failing
<1>5. CASE OtherCallers /\ ~cancel_for_session
  BY <1>0, <1>5, OutsideSteps, OutsideCore, OutsideTargets
<1>6. CASE UNCHANGED vars
  <2>1. Core'
    BY <1>6 DEF Core, Typed, Staged, InTree, Received, Told, NeverPartial, VerifiedBodies, TempsOwned,
             EndedIsTerminal, vars
  <2>2. Targets'
    BY <1>6 DEF Targets, Aimed, Looked, KeptUnlessOverwrite, Kept, Confined, Targeted, InsideRoot, vars
  <2> QED BY <2>1, <2>2
<1> QED BY <1>1, <1>2, <1>3, <1>4, <1>5, <1>6 DEF Next

\* Whatever the phone, the user and the connection do: what is in place is a
\* whole file, the described one when a checksum came with it, and no temporary
\* file outlives its download (receive_raw_to, download_file).
THEOREM FilesAreWhole == Spec => []FilesWhole
<1>1. Init => Core /\ Targets
  BY InitTargets
<1>2. Core /\ Targets /\ [Next]_vars => Core' /\ Targets'
  BY NextTargets
<1>3. Core => FilesWhole
  <2> SUFFICES ASSUME Core PROVE FilesWhole
    OBVIOUS
  <2>1. remote \in [DOMAIN RemoteInit -> Entries] /\ local \in [DOMAIN LocalInit -> Entries]
        /\ xfer \in Terminal \cup {"none", "Queued", "Running"}
    BY DEF Core, Typed, Remotes, Locals
  <2>2. \A i \in DOMAIN batch : batch[i].st \in ItemStates
    BY BatchType DEF Core, BatchItems
  <2>3. exec.completed + exec.failed <= Len(plan.items)
    <3>1. exec.completed \in Nat /\ exec.failed \in Nat /\ plan.items \in Seq(PlanItems)
      BY DEF Core, Typed, Execs, Plans
    <3>2. Len(plan.items) \in Nat
      BY <3>1
    <3>3. CASE exec.phase = "none"
      BY <3>2, <3>3 DEF Core, Staged
    <3>4. CASE exec.phase # "none"
      <4>1. /\ Cardinality(exec.trees) \in Nat /\ Cardinality(exec.files) \in Nat
            /\ exec.completed + exec.failed + Cardinality(exec.trees) + Cardinality(exec.files)
                 <= Len(plan.items)
        BY <3>4, LeftFinite DEF Core, Staged
      <4> QED BY <3>1, <3>2, <4>1
    <3> QED BY <3>3, <3>4
  <2>4. TypeOK
    BY <2>1, <2>2, <2>3 DEF TypeOK
  <2> QED BY <2>4 DEF FilesWhole, Core, Received
<1> QED BY <1>1, <1>2, <1>3, PTL DEF Spec

\* A transfer changes nothing but its targets: without overwrite no file that
\* was there, and in no case anything beside the destinations or outside the
\* device root (start_batch_plan, download_tree, resolve_remote_path).
THEOREM OnlyTargetsAreChanged == Spec => []OnlyTargetsChange
<1>1. Init => Core /\ Targets
  BY InitTargets
<1>2. Core /\ Targets /\ [Next]_vars => Core' /\ Targets'
  BY NextTargets
<1>3. Targets => OnlyTargetsChange
  BY DEF Targets, OnlyTargetsChange
<1> QED BY <1>1, <1>2, <1>3, PTL DEF Spec

-----------------------------------------------------------------------------
(***************************************************************************)
(* Completed means copied.                                                 *)
(***************************************************************************)

LEMMA ItemType ==
    ASSUME Core, NEW i \in DOMAIN plan.items
    PROVE  /\ plan.items[i] \in PlanItems /\ plan.items[i].src \in Paths /\ plan.items[i].dst \in Paths
           /\ i \in 1 .. Len(plan.items) /\ Len(plan.items) \in Nat
<1>1. plan.items \in Seq(PlanItems)
  BY DEF Core, Typed, Plans
<1>2. plan.items[i] \in PlanItems /\ i \in 1 .. Len(plan.items) /\ Len(plan.items) \in Nat
  BY <1>1
<1> QED BY <1>2 DEF PlanItems

\* The destinations of a checked plan lie beside each other.
LEMMA DisjointTargets ==
    ASSUME Core, Preflight, Careful, NEW i \in DOMAIN plan.items, NEW j \in DOMAIN plan.items, i # j,
           NEW q \in Paths, IsPrefix(plan.items[i].dst, q), IsPrefix(plan.items[j].dst, q)
    PROVE  FALSE
<1>1. /\ plan.items[i].dst \in Paths /\ plan.items[j].dst \in Paths
      /\ i \in 1 .. Len(plan.items) /\ j \in 1 .. Len(plan.items) /\ Len(plan.items) \in Nat
  BY ItemType
<1>2. plan.items[i].dst # plan.items[j].dst
  BY DEF Preflight, Careful, Core, Staged
<1>3. Len(plan.todo) \in Nat /\ plan.count \in Nat
  BY DEF Core, Typed, Plans
<1>4. plan.count > 1
  <2>1. Len(plan.items) + Len(plan.todo) <= plan.count
    BY DEF Preflight, Careful
  <2> DEFINE n == Len(plan.items)
             m == Len(plan.todo)
             c == plan.count
  <2>2. i \in 1 .. n /\ j \in 1 .. n /\ n \in Nat /\ m \in Nat /\ c \in Nat /\ n + m <= c
    BY <1>1, <1>3, <2>1
  <2> HIDE DEF n, m, c
  <2>3. c > 1
    BY <2>2
  <2> QED BY <2>3 DEF c
<1>5. Len(plan.items[i].dst) = Len(plan.items[j].dst)
  BY <1>4 DEF Preflight, Careful
<1> QED BY <1>1, <1>2, <1>5, PrefixTotal

\* While nobody else acts, the entries of an item are there.
LEMMA EntriesThere ==
    ASSUME Core, Quiet, Preflight, Careful, NEW i \in DOMAIN plan.items,
           NEW p \in EntriesOf(Src, plan.items[i])
    PROVE  At(Src, p) # "none" /\ p \in Paths /\ IsPrefix(plan.items[i].src, p)
<1>1. plan.items[i].src \in Paths /\ DOMAIN remote \subseteq Paths /\ DOMAIN local \subseteq Paths
  BY ItemType, EntryFacts DEF Core, Typed, Remotes, Locals
<1>2. CASE p = plan.items[i].src
  <2>1. At(Src, p) # "none"
    BY <1>2 DEF Quiet, Preflight, Careful
  <2> QED BY <1>1, <1>2, <2>1, PrefixRefl
<1>3. CASE p \in Below(Src, plan.items[i].src)
  BY <1>1, <1>3 DEF Below, Src, At, IsStrictPrefix
<1> QED BY <1>2, <1>3 DEF EntriesOf

LEMMA SrcInitType ==
    ASSUME Core
    PROVE  /\ SrcInit \in [DOMAIN SrcInit -> Entries]
           /\ \A p, q \in DOMAIN SrcInit : IsFile(SrcInit[p]) /\ IsStrictPrefix(p, q) => SrcInit[q] = "none"
BY EntryFacts, FilesAssumption DEF SrcInit, FileSystem, Remotes, Locals

\* Nothing is below a file.
LEMMA FileIsAlone ==
    ASSUME Core, Quiet, Preflight, Careful, NEW i \in DOMAIN plan.items, ~plan.items[i].isDir
    PROVE  EntriesOf(Src, plan.items[i]) = {plan.items[i].src} /\ IsFile(At(Src, plan.items[i].src))
<1>1. /\ Src = SrcInit /\ At(SrcInit, plan.items[i].src) # "none"
      /\ At(SrcInit, plan.items[i].src) # "dir"
  BY DEF Quiet, Preflight, Careful
<1>2. plan.items[i].src \in DOMAIN SrcInit /\ IsFile(SrcInit[plan.items[i].src])
  BY <1>1 DEF At, IsFile
<1>3. Below(SrcInit, plan.items[i].src) = {}
  BY <1>2, SrcInitType DEF Below
<1> QED BY <1>1, <1>3 DEF EntriesOf, IsFile

\* A step of the task or of cancel(): the plan and the sources stay.
Worked ==
    /\ exec.phase # "none" /\ exec'.phase # "none"
    /\ UNCHANGED <<plan, base, others>> /\ Src' = Src

LEMMA WorkedKeeps ==
    ASSUME Quiet, Preflight, Worked
    PROVE  Quiet' /\ Preflight' /\ (Careful' <=> Careful)
<1>1. Quiet'
  BY DEF Quiet, Worked, SrcInit
<1>2. Preflight'
  BY DEF Preflight, Worked, SrcInit, DstInit
<1> QED BY <1>1, <1>2 DEF Careful, Worked

LEMMA GrowWorks ==
    ASSUME Core, FilesGrow, UNCHANGED plan
    PROVE  /\ Src' = Src /\ DOMAIN Dst' = DOMAIN Dst
           /\ \A q : At(Dst, q) # "none" => At(Dst', q) = At(Dst, q)
           /\ \A q \in DOMAIN Dst : Dst'[q] = Dst[q] \/ Dst'[q] = "dir"
BY DEF FilesGrow, Grown, Src, Dst, At

\* What is copied stays copied while directories are made.
LEMMA GrowCopied ==
    ASSUME Core, FilesGrow, UNCHANGED <<plan, base>>, NEW it, NEW p, At(Src, p) # "none",
           EntryCopied(it, p)
    PROVE  EntryAt(Src, Dst', plan.dir, base.remote, it, p)
BY GrowWorks DEF EntryCopied, EntryAt

LEMMA DoneGrows ==
    ASSUME Core, Quiet, Preflight, DoneCopied, FilesGrow, Worked,
           exec'.phase # "ended" => exec.phase # "ended",
           exec'.failures = {} => exec.failures = {},
           exec'.trees = exec.trees, exec'.files = exec.files
    PROVE  DoneCopied'
<1> SUFFICES ASSUME Careful, exec.failures = {}, exec.phase # "ended",
                    NEW i \in DOMAIN plan.items, i \notin exec.trees \cup exec.files
             PROVE  ItemAt(Src, Dst', plan.dir, base.remote, plan.items[i])
  BY WorkedKeeps DEF DoneCopied, ItemCopied, Worked
<1>1. ItemCopied(plan.items[i])
  BY DEF DoneCopied
<1>2. ASSUME NEW p \in EntriesOf(Src, plan.items[i])
      PROVE  EntryAt(Src, Dst', plan.dir, base.remote, plan.items[i], p)
  <2>1. At(Src, p) # "none"
    BY EntriesThere
  <2>2. EntryCopied(plan.items[i], p)
    BY <1>1 DEF ItemCopied, EntryCopied, ItemAt
  <2> QED BY <2>1, <2>2, GrowCopied DEF Worked
<1> QED BY <1>2 DEF ItemAt

LEMMA EndsCopy ==
    ASSUME Core, CopyInv, Ends, FilesGrow, xfer' = "Completed" => CompletedMeansCopied'
    PROVE  CopyInv'
<1>1. exec'.phase = "ended"
  BY DEF Ends, Core, Typed, Execs
<1>2. Worked
  BY <1>1, GrowWorks DEF Ends, Worked
<1>3. Quiet' /\ Preflight'
  BY <1>2, WorkedKeeps DEF CopyInv
<1>4. DoneCopied' /\ TreeWalked' /\ RootMade' /\ BatchCopied' /\ Fresh'
  BY <1>1 DEF DoneCopied, TreeWalked, RootMade, BatchCopied, Fresh
<1>5. Reported'
  BY <1>1 DEF Reported
<1> QED BY <1>3, <1>4, <1>5 DEF CopyInv

LEMMA FailingCopy ==
    ASSUME Core, CopyInv, Failing
    PROVE  CopyInv'
<1>1. xfer' # "Completed"
  BY DEF CopyInv, Reported, Failing, Ends
<1> QED BY <1>1, EndsCopy DEF Failing

LEMMA ReportsCopy ==
    ASSUME Core, CopyInv, Reports
    PROVE  CopyInv'
<1> SUFFICES ASSUME xfer' = "Completed", plan.checked, others = 0
             PROVE  \A i \in DOMAIN plan.items :
                       \A p \in EntriesOf(Src, plan.items[i]) : EntryCopied(plan.items[i], p)
  <2>1. UNCHANGED <<remote, local, plan, others, base>>
    BY DEF Reports, Ends
  <2>2. (plan.checked /\ others = 0 => \A i \in DOMAIN plan.items :
            \A p \in EntriesOf(Src, plan.items[i]) : EntryCopied(plan.items[i], p)) => CompletedMeansCopied'
    BY <2>1 DEF CompletedMeansCopied, EntriesOf, EntryCopied, EntryAt, target, Src, Dst
  <2> QED BY <2>2, EndsCopy DEF Reports
<1>1. exec.failures = {} /\ exec.phase = "report"
  BY DEF Reports, Ends, CopyInv, Reported
<1>2. exec.trees = {} /\ exec.files = {}
  BY <1>1 DEF Core, Staged
<1>3. Careful
  BY <1>1 DEF Careful
<1> QED BY <1>1, <1>2, <1>3 DEF CopyInv, DoneCopied, ItemCopied, ItemAt, EntryCopied

\* What a stage keeps of the copies, when it takes nothing off the list.
LEMMA StagingWorks ==
    ASSUME Core, CopyInv, Staging
    PROVE  Worked /\ Quiet' /\ Preflight' /\ Reported' /\ (Careful' <=> Careful)
<1>1. Worked
  BY GrowWorks DEF Staging, Worked
<1>2. Reported'
  BY DEF Reported, CopyInv, Staging, transition, Terminal
<1> QED BY <1>1, <1>2, WorkedKeeps DEF CopyInv

LEMMA GrowFresh ==
    ASSUME Core, Fresh, Staging, exec'.trees = exec.trees,
           exec.phase \in {"batch", "items"} /\ exec.tree => exec'.phase \in {"batch", "items"} /\ exec'.tree
    PROVE  Fresh'
<1>1. /\ UNCHANGED <<plan, base, others>> /\ exec.phase \notin {"none", "ended"}
  BY DEF Staging
<1>2. plan.dir = "Upload" => /\ DOMAIN remote' = DOMAIN remote
                             /\ \A q \in DOMAIN remote : remote'[q] = remote[q] \/ remote'[q] = "dir"
  BY GrowWorks DEF Staging, Dst
<1>3. (Careful' <=> Careful)
  BY <1>1 DEF Careful, Staging
<1>4. ASSUME Careful, plan.dir = "Upload", NEW j \in exec.trees,
             \A q \in DOMAIN remote :
                IsPrefix(plan.items[j].dst, q) /\ IsFile(remote[q]) => IsFile(base.remote[q])
      PROVE  \A q \in DOMAIN remote' :
                IsPrefix(plan.items[j].dst, q) /\ IsFile(remote'[q]) => IsFile(base.remote[q])
  BY <1>2, <1>4 DEF IsFile
<1> QED BY <1>1, <1>3, <1>4 DEF Fresh

LEMMA StagingCopy ==
    ASSUME Core, CopyInv, Staging, exec'.trees = exec.trees, exec'.files = exec.files,
           exec'.failures = exec.failures,
           exec.phase \in {"batch", "items"} /\ exec.tree => exec'.phase \in {"batch", "items"} /\ exec'.tree,
           TreeWalked', RootMade'
    PROVE  CopyInv'
<1>1. Worked /\ Quiet' /\ Preflight' /\ Reported'
  BY StagingWorks
<1>2. DoneCopied'
  BY <1>1, DoneGrows DEF CopyInv, Staging
<1>3. Fresh'
  BY GrowFresh DEF CopyInv
<1>4. BatchCopied'
  BY DEF BatchCopied, Staging
<1> QED BY <1>1, <1>2, <1>3, <1>4 DEF CopyInv

LEMMA NextStageCopy ==
    ASSUME Core, CopyInv, NextStage
    PROVE  CopyInv'
<1>0. exec \in Execs /\ exec.phase = "start" /\ Staging
  BY NextStageStep DEF Core, Typed, NextStage
<1>1. CASE /\ exec.trees # {}
           /\ exec' = [exec EXCEPT !.phase = IF plan.dir = "Download" THEN "mkdir" ELSE "collect"]
  <2>1. /\ exec'.phase \in {"mkdir", "collect"} /\ exec'.trees = exec.trees /\ exec'.files = exec.files
        /\ exec'.failures = exec.failures
    BY <1>0, <1>1 DEF Execs
  <2>2. TreeWalked' /\ RootMade'
    BY <2>1 DEF TreeWalked, RootMade
  <2> QED BY <1>0, <2>1, <2>2, StagingCopy
<1>2. CASE /\ exec.trees = {} /\ exec.files # {}
           /\ exec' = [exec EXCEPT !.phase = "batch", !.tree = FALSE,
                                   !.then = [i \in exec.files |-> plan.items[i]]]
  <2>1. /\ exec'.phase = "batch" /\ exec'.trees = exec.trees /\ exec'.files = exec.files
        /\ exec'.failures = exec.failures /\ exec'.tree = FALSE
    BY <1>0, <1>2 DEF Execs
  <2>2. TreeWalked' /\ RootMade'
    BY <2>1 DEF TreeWalked, RootMade, InTree
  <2> QED BY <1>0, <2>1, <2>2, StagingCopy
<1>3. CASE /\ exec.trees = {} /\ exec.files = {}
           /\ exec' = [exec EXCEPT !.phase = "report"]
  <2>1. /\ exec'.phase = "report" /\ exec'.trees = exec.trees /\ exec'.files = exec.files
        /\ exec'.failures = exec.failures
    BY <1>0, <1>3 DEF Execs
  <2>2. TreeWalked' /\ RootMade'
    BY <2>1 DEF TreeWalked, RootMade
  <2> QED BY <1>0, <2>1, <2>2, StagingCopy
<1> QED BY <1>1, <1>2, <1>3 DEF NextStage

LEMMA TreeMakesRootCopy ==
    ASSUME Core, CopyInv, TreeMakesRoot
    PROVE  CopyInv'
<1>1. CASE Failing
  BY <1>1, FailingCopy
<1>2. CASE Staging /\ CanMakeDirs(local, Tree.dst)
  <2>1. exec \in Execs /\ exec.phase = "mkdir" /\ exec' = [exec EXCEPT !.phase = "list"]
        /\ local' = MakeDirs(local, Tree.dst)
    BY <1>2 DEF Core, Typed, TreeMakesRoot
  <2>2. /\ exec'.phase = "list" /\ exec'.trees = exec.trees /\ exec'.files = exec.files
        /\ exec'.failures = exec.failures
    BY <2>1 DEF Execs
  <2>3. InTree /\ plan.dir = "Download" /\ UNCHANGED plan
    BY <1>2, <2>1 DEF InTree, Core, Staged, Staging
  <2>4. Tree' = Tree
    BY <2>2, <2>3 DEF Tree
  <2>5. RootMade'
    <3> SUFFICES ASSUME Careful PROVE At(local', Tree.dst) = "dir"
      BY <1>2, <2>4, StagingWorks DEF RootMade
    <3>1. /\ Min(exec.trees) \in DOMAIN plan.items /\ Tree = plan.items[Min(exec.trees)] /\ Tree.dst \in Paths
      BY <2>3, TreeItem DEF Core, Tree, PlanItems
    <3>2. Tree.dst # <<>>
      BY <2>3, <3>1 DEF CopyInv, Preflight, Careful
    <3>3. Tree.dst \in DOMAIN local /\ IsPrefix(Tree.dst, Tree.dst)
      BY <1>2, <3>1, <3>2, MadeIsThere, PrefixRefl
    <3> QED BY <2>1, <3>3 DEF MakeDirs, At
  <2>6. TreeWalked'
    BY <2>2 DEF TreeWalked
  <2> QED BY <1>2, <2>1, <2>2, <2>5, <2>6, StagingCopy
<1> QED BY <1>1, <1>2, TreeMakesRootStep

\* The tree the task is at, in an undisturbed transfer.
LEMMA CarefulTree ==
    ASSUME Core, Quiet, Preflight, Careful, InTree
    PROVE  /\ Tree \in PlanItems /\ Tree.src \in Paths /\ Tree.dst \in Paths
           /\ Min(exec.trees) \in DOMAIN plan.items /\ Min(exec.trees) \in exec.trees
           /\ Tree = plan.items[Min(exec.trees)]
           /\ At(Src, Tree.src) = "dir" /\ target(Tree, Tree.src) = Tree.dst
           /\ ~IsFile(At(DstInit, Tree.dst))
           /\ \A p \in EntriesOf(Src, Tree) : At(Src, p) # "none" /\ p \in Paths /\ IsPrefix(Tree.src, p)
<1>1. /\ Tree \in PlanItems /\ Min(exec.trees) \in DOMAIN plan.items /\ Tree.isDir
      /\ Tree = plan.items[Min(exec.trees)] /\ Min(exec.trees) \in exec.trees
  BY TreeItem DEF Core, Tree
<1>2. Tree.src \in Paths /\ Tree.dst \in Paths /\ target(Tree, Tree.src) = Tree.dst
  BY <1>1, TargetSelf DEF PlanItems
<1>3. At(Src, Tree.src) = "dir"
  <2>1. Src = SrcInit /\ Tree.isDir = (At(SrcInit, Tree.src) = "dir")
    BY <1>1 DEF Quiet, Preflight, Careful
  <2> QED BY <1>1, <2>1
<1>4. ~IsFile(At(DstInit, Tree.dst))
  BY <1>1 DEF Preflight, Careful
<1>5. \A p \in EntriesOf(Src, Tree) : At(Src, p) # "none" /\ p \in Paths /\ IsPrefix(Tree.src, p)
  BY <1>1, EntriesThere
<1> QED BY <1>1, <1>2, <1>3, <1>4, <1>5

LEMMA TreeListedCopy ==
    ASSUME Core, CopyInv, TreeListed
    PROVE  CopyInv'
<1>1. CASE Failing
  BY <1>1, FailingCopy
<1>2. CASE Staging /\ Listed
  <2> DEFINE th == exec'.then
  <2>1. /\ exec \in Execs /\ exec.phase = "list" /\ TreeTodo(remote, th)
        /\ exec' = [exec EXCEPT !.phase = "batch", !.tree = TRUE, !.then = th]
    BY <1>2 DEF Core, Typed, Listed
  <2> HIDE DEF th
  <2>2. /\ exec'.phase = "batch" /\ exec'.trees = exec.trees /\ exec'.files = exec.files
        /\ exec'.failures = exec.failures /\ exec'.tree = TRUE
    BY <2>1 DEF Execs
  <2>3. InTree /\ plan.dir = "Download" /\ UNCHANGED <<plan, base>> /\ FilesGrow
    BY <1>2, <2>1 DEF InTree, Core, Staged, Staging
  <2>4. Tree' = Tree /\ Src' = Src /\ Src = remote /\ Dst' = local' /\ Dst = local
    BY <2>2, <2>3, GrowWorks DEF Tree, Src, Dst
  <2>5. TreeWalked'
    <3> SUFFICES ASSUME Careful
                 PROVE  /\ \A p \in EntriesOf(Src, Tree) : At(Src, p) = "dir" =>
                              EntryAt(Src, Dst', plan.dir, base.remote, Tree, p)
                        /\ \A p \in EntriesOf(Src, Tree) : At(Src, p) # "dir" =>
                              \E k \in DOMAIN th : th[k].src = p /\ th[k].dst = target(Tree, p)
                        /\ \A k \in DOMAIN th : /\ th[k].src \in Below(Src, Tree.src)
                                                /\ th[k].dst = target(Tree, th[k].src)
      BY <1>2, <2>2, <2>3, <2>4, StagingWorks DEF TreeWalked, EntryCopied, th
    <3>1. /\ At(Src, Tree.src) = "dir" /\ target(Tree, Tree.src) = Tree.dst
          /\ \A p \in EntriesOf(Src, Tree) : At(Src, p) # "none"
      BY <2>3, CarefulTree DEF CopyInv
    <3>2. At(local, Tree.dst) = "dir"
      BY <2>1 DEF CopyInv, RootMade
    <3>3. At(local', Tree.dst) = "dir"
      BY <2>3, <2>4, <3>2, GrowWorks
    <3>4. ASSUME NEW p \in EntriesOf(Src, Tree), At(Src, p) = "dir"
          PROVE  EntryAt(Src, Dst', plan.dir, base.remote, Tree, p)
      <4>1. CASE p = Tree.src
        BY <2>4, <3>1, <3>3, <4>1 DEF EntryAt
      <4>2. CASE p \in Below(Src, Tree.src)
        <5>1. remote[p] = "dir" /\ p \in Below(remote, Tree.src)
          BY <2>4, <3>4, <4>2 DEF At, Below
        <5>2. target(Tree, p) \in DOMAIN local /\ local'[target(Tree, p)] = "dir"
          BY <1>2, <5>1 DEF Listed
        <5>3. At(local', target(Tree, p)) = "dir"
          BY <2>3, <2>4, <5>2, GrowWorks DEF At
        <5> QED BY <2>4, <3>4, <5>3 DEF EntryAt
      <4> QED BY <4>1, <4>2 DEF EntriesOf
    <3>5. ASSUME NEW p \in EntriesOf(Src, Tree), At(Src, p) # "dir"
          PROVE  \E k \in DOMAIN th : th[k].src = p /\ th[k].dst = target(Tree, p)
      <4>1. p \in Below(remote, Tree.src)
        BY <2>4, <3>1, <3>5 DEF EntriesOf
      <4>2. remote[p] # "dir"
        BY <2>4, <3>5, <4>1 DEF At, Below
      <4> QED BY <2>1, <4>1, <4>2 DEF TreeTodo
    <3> QED BY <2>1, <2>4, <3>4, <3>5 DEF TreeTodo
  <2>6. RootMade'
    BY <2>2 DEF RootMade
  <2> QED BY <1>2, <2>1, <2>2, <2>5, <2>6, StagingCopy
<1> QED BY <1>1, <1>2, TreeListedStep

LEMMA CollectCopy ==
    ASSUME Core, CopyInv, collect_upload_tree
    PROVE  CopyInv'
<1>1. CASE Failing
  BY <1>1, FailingCopy
<1>2. CASE Staging /\ Collected
  <2> DEFINE th == exec'.then
             ds == exec'.dirs
  <2>1. /\ exec \in Execs /\ exec.phase = "collect" /\ TreeTodo(local, th)
        /\ exec' = [exec EXCEPT !.phase = "mkremote", !.tree = TRUE, !.then = th, !.dirs = ds]
        /\ ds = {Tree.dst} \cup
              {target(Tree, p) : p \in {q \in Below(local, Tree.src) : local[q] = "dir"}}
    BY <1>2 DEF Core, Typed, Collected
  <2> HIDE DEF th, ds
  <2>2. /\ exec'.phase = "mkremote" /\ exec'.trees = exec.trees /\ exec'.files = exec.files
        /\ exec'.failures = exec.failures /\ exec'.tree = TRUE
    BY <2>1 DEF Execs
  <2>3. InTree /\ plan.dir = "Upload" /\ UNCHANGED <<plan, base>> /\ FilesGrow
    BY <1>2, <2>1 DEF InTree, Core, Staged, Staging
  <2>4. Tree' = Tree /\ Src' = Src /\ Src = local
    BY <2>2, <2>3, GrowWorks DEF Tree, Src, Dst
  <2>5. TreeWalked'
    <3> SUFFICES ASSUME Careful
                 PROVE  /\ \A p \in EntriesOf(Src, Tree) : At(Src, p) = "dir" => target(Tree, p) \in ds
                        /\ \A p \in EntriesOf(Src, Tree) : At(Src, p) # "dir" =>
                              \E k \in DOMAIN th : th[k].src = p /\ th[k].dst = target(Tree, p)
                        /\ \A k \in DOMAIN th : /\ th[k].src \in Below(Src, Tree.src)
                                                /\ th[k].dst = target(Tree, th[k].src)
      BY <1>2, <2>2, <2>3, <2>4, StagingWorks DEF TreeWalked, th, ds
    <3>1. /\ At(Src, Tree.src) = "dir" /\ target(Tree, Tree.src) = Tree.dst
      BY <2>3, CarefulTree DEF CopyInv
    <3>4. ASSUME NEW p \in EntriesOf(Src, Tree), At(Src, p) = "dir" PROVE target(Tree, p) \in ds
      <4>1. CASE p = Tree.src
        BY <2>1, <3>1, <4>1
      <4>2. CASE p \in Below(Src, Tree.src)
        <5>1. local[p] = "dir" /\ p \in Below(local, Tree.src)
          BY <2>4, <3>4, <4>2 DEF At, Below
        <5> QED BY <2>1, <5>1
      <4> QED BY <4>1, <4>2 DEF EntriesOf
    <3>5. ASSUME NEW p \in EntriesOf(Src, Tree), At(Src, p) # "dir"
          PROVE  \E k \in DOMAIN th : th[k].src = p /\ th[k].dst = target(Tree, p)
      <4>1. p \in Below(local, Tree.src)
        BY <2>4, <3>1, <3>5 DEF EntriesOf
      <4>2. local[p] # "dir"
        BY <2>4, <3>5, <4>1 DEF At, Below
      <4> QED BY <2>1, <4>1, <4>2 DEF TreeTodo
    <3> QED BY <2>1, <2>4, <3>4, <3>5 DEF TreeTodo
  <2>6. RootMade'
    BY <2>2 DEF RootMade
  <2> QED BY <1>2, <2>1, <2>2, <2>5, <2>6, StagingCopy
<1> QED BY <1>1, <1>2, CollectStep

\* A directory that upload_tree is through with is there, or the phone had a
\* file of that name from the beginning.
LEMMA TreeMakesRemoteCopy ==
    ASSUME Core, Aimed, CopyInv, TreeMakesRemote
    PROVE  CopyInv'
<1>1. CASE Failing
  BY <1>1, FailingCopy
<1>2. ASSUME Staging, exec.phase = "mkremote", UNCHANGED local, exec.tree,
             AllMade \/ \E d \in exec.dirs : DirMade(d)
      PROVE  CopyInv'
  <2>0. exec \in Execs
    BY DEF Core, Typed
  <2>1. /\ exec'.trees = exec.trees /\ exec'.files = exec.files /\ exec'.then = exec.then
        /\ exec'.failures = exec.failures /\ exec'.tree = exec.tree
        /\ exec'.phase \in {"mkremote", "batch"}
    BY <1>2, <2>0 DEF Execs, AllMade, DirMade
  <2>2. InTree /\ InTree' /\ plan.dir = "Upload" /\ UNCHANGED <<plan, base>> /\ FilesGrow
    BY <1>2, <2>1 DEF InTree, Core, Staged, Staging
  <2>3. Tree' = Tree /\ Src' = Src /\ Dst = remote /\ Dst' = remote'
    BY <2>1, <2>2, GrowWorks DEF Tree, Dst
  <2>4. TreeWalked'
    <3> SUFFICES ASSUME Careful, NEW p \in EntriesOf(Src, Tree), At(Src, p) = "dir"
                 PROVE  \/ EntryAt(Src, Dst', plan.dir, base.remote, Tree, p)
                        \/ exec'.phase = "mkremote" /\ target(Tree, p) \in exec'.dirs
      BY <1>2, <2>1, <2>2, <2>3, StagingWorks DEF TreeWalked, EntryCopied, CopyInv
    <3>0. EntryCopied(Tree, p) \/ target(Tree, p) \in exec.dirs
      BY <1>2, <2>2 DEF CopyInv, TreeWalked
    <3>1. CASE EntryCopied(Tree, p)
      BY <2>2, <3>1, GrowCopied
    <3>2. CASE target(Tree, p) \in exec.dirs
      <4> DEFINE t == target(Tree, p)
      <4>1. PICK d \in exec.dirs : DirMade(d)
        BY <1>2, <3>2 DEF AllMade
      <4>2. exec'.dirs = exec.dirs \ {d} /\ exec'.phase = "mkremote"
        BY <1>2, <2>0, <4>1 DEF DirMade, Execs
      <4>3. CASE t # d
        BY <3>2, <4>2, <4>3
      <4>4. CASE t = d
        <5>1. CASE At(remote, d) = "none" /\ d \in DOMAIN remote /\ remote' = [remote EXCEPT ![d] = "dir"]
          <6>1. At(remote', d) = "dir"
            BY <5>1 DEF At
          <6> QED BY <2>3, <4>4, <6>1 DEF EntryAt
        <5>2. CASE At(remote, d) # "none" /\ UNCHANGED remote
          <6>1. CASE At(remote, d) = "dir"
            BY <2>3, <4>4, <5>2, <6>1 DEF EntryAt
          <6>2. CASE At(remote, d) # "dir"
            <7>1. d \in DOMAIN remote /\ IsFile(remote[d])
              BY <5>2, <6>2 DEF At, IsFile
            <7>2. /\ Tree \in PlanItems /\ Min(exec.trees) \in exec.trees
                  /\ Tree = plan.items[Min(exec.trees)] /\ p \in Paths
                  /\ target(Tree, Tree.src) = Tree.dst /\ ~IsFile(At(DstInit, Tree.dst))
              BY <2>2, CarefulTree DEF CopyInv
            <7>3. IsPrefix(Tree.dst, d)
              BY <4>4, <7>2, TargetType
            <7>4. IsFile(base.remote[d])
              BY <1>2, <2>2, <7>1, <7>2, <7>3 DEF CopyInv, Fresh
            <7>5. base.remote = DstInit
              BY <2>2 DEF CopyInv, Quiet, Careful, DstInit
            <7>6. d \in DOMAIN base.remote
              BY <7>1, BaseType
            <7>7. IsFile(At(base.remote, d))
              BY <7>4, <7>6 DEF At
            <7>8. p # Tree.src
              BY <4>4, <7>2, <7>5, <7>7
            <7> QED BY <2>2, <4>4, <7>7, <7>8 DEF EntryAt
          <6> QED BY <6>1, <6>2
        <5> QED BY <4>1, <5>1, <5>2 DEF DirMade
      <4> QED BY <4>3, <4>4
    <3> QED BY <3>0, <3>1, <3>2
  <2>5. RootMade'
    BY <2>1 DEF RootMade
  <2> QED BY <1>2, <2>1, <2>4, <2>5, StagingCopy
<1> QED BY <1>1, <1>2, TreeMakesRemoteStep

LEMMA BatchBeginsCopy ==
    ASSUME Core, CopyInv, BatchBegins
    PROVE  CopyInv'
<1>1. CASE Failing
  BY <1>1, FailingCopy
<1>2. CASE /\ Staging /\ UNCHANGED <<remote, local, xfer>> /\ exec.phase = "batch"
           /\ exec' = [exec EXCEPT !.phase = "items"]
  <2>1. /\ exec'.phase = "items" /\ exec'.trees = exec.trees /\ exec'.files = exec.files
        /\ exec'.failures = exec.failures /\ exec'.tree = exec.tree /\ exec'.then = exec.then
    BY <1>2 DEF Core, Typed, Execs
  <2>2. UNCHANGED <<plan, base>> /\ Tree' = Tree /\ Src' = Src /\ Dst' = Dst
    BY <1>2, <2>1 DEF Tree, Src, Dst, Staging
  <2>3. TreeWalked'
    BY <1>2, <2>1, <2>2, StagingWorks DEF TreeWalked, CopyInv, InTree, EntryCopied
  <2>4. RootMade'
    BY <2>1 DEF RootMade
  <2> QED BY <1>2, <2>1, <2>3, <2>4, StagingCopy
<1> QED BY <1>1, <1>2, BatchBeginsStep

\* The outcome of a batch without failures: its tree, or all its files, are
\* copied.
LEMMA BatchEndsCopy ==
    ASSUME Core, CopyInv, BatchEnds
    PROVE  CopyInv'
<1>1. CASE Failing
  BY <1>1, FailingCopy
<1>2. CASE Staging /\ Merged
  <2>1. /\ exec.phase = "items" /\ \A i \in DOMAIN batch : batch[i].st \in {"ok", "failed"}
        /\ UNCHANGED <<remote, local>> /\ exec'.phase = "start"
        /\ exec'.trees = (IF exec.tree THEN exec.trees \ {Min(exec.trees)} ELSE exec.trees)
        /\ exec'.files = (IF exec.tree THEN exec.files ELSE {})
        /\ exec'.failures = exec.failures \cup {batch[i].code : i \in Failures}
    BY <1>2 DEF Merged
  <2>2. UNCHANGED <<plan, base>> /\ Src' = Src /\ Dst' = Dst /\ exec.tree \in BOOLEAN
    BY <1>2, <2>1 DEF Src, Dst, Staging, Core, Typed, Execs
  <2>3. Worked /\ Quiet' /\ Preflight' /\ Reported' /\ (Careful' <=> Careful)
    BY <1>2, StagingWorks
  <2>4. TreeWalked' /\ RootMade' /\ BatchCopied'
    BY <2>1 DEF TreeWalked, RootMade, BatchCopied
  <2>5. exec.tree = FALSE => exec.trees = {} /\ exec.then = [i \in exec.files |-> plan.items[i]]
    BY <2>1 DEF Core, Staged
  <2>6. Fresh'
    <3> SUFFICES ASSUME Careful, plan.dir = "Upload", NEW j \in exec'.trees
                 PROVE  \A q \in DOMAIN remote :
                           IsPrefix(plan.items[j].dst, q) /\ IsFile(remote[q]) => IsFile(base.remote[q])
      BY <2>1, <2>2, <2>3 DEF Fresh
    <3>1. j \in exec.trees /\ ~(exec.tree /\ j = Min(exec.trees))
      BY <2>1, <2>2
    <3> QED BY <2>1, <3>1 DEF CopyInv, Fresh
  <2>7. DoneCopied'
    <3> SUFFICES ASSUME Careful, exec'.failures = {}, NEW i \in DOMAIN plan.items,
                        i \notin exec'.trees \cup exec'.files
                 PROVE  ItemCopied(plan.items[i])
      BY <2>1, <2>2, <2>3 DEF DoneCopied, ItemCopied
    <3>1. exec.failures = {} /\ Failures = {}
      BY <2>1
    <3>2. ASSUME NEW k \in DOMAIN batch PROVE At(Dst, batch[k].dst) = At(Src, batch[k].src)
      <4>1. batch[k].st = "ok"
        BY <2>1, <3>1 DEF Failures
      <4> QED BY <2>1, <3>1, <4>1 DEF CopyInv, BatchCopied
    <3>3. /\ DOMAIN batch = DOMAIN exec.then
          /\ \A k \in DOMAIN batch : batch[k].src = exec.then[k].src /\ batch[k].dst = exec.then[k].dst
      BY <2>1 DEF Core, Staged
    <3>4. CASE i \notin exec.trees \cup exec.files
      BY <2>1, <3>1, <3>4 DEF CopyInv, DoneCopied
    <3>5. CASE exec.tree = TRUE /\ i \in exec.trees \cup exec.files
      <4>1. i = Min(exec.trees) /\ InTree /\ plan.items[i] = Tree
        BY <2>1, <3>5 DEF InTree, Tree
      <4>2. ASSUME NEW p \in EntriesOf(Src, Tree) PROVE EntryCopied(Tree, p)
        <5>1. CASE At(Src, p) = "dir"
          BY <2>1, <4>1, <5>1 DEF CopyInv, TreeWalked
        <5>2. CASE At(Src, p) # "dir"
          <6>1. PICK k \in DOMAIN exec.then : exec.then[k].src = p /\ exec.then[k].dst = target(Tree, p)
            BY <2>1, <4>1, <5>2 DEF CopyInv, TreeWalked
          <6>2. At(Dst, target(Tree, p)) = At(Src, p)
            BY <3>2, <3>3, <6>1
          <6> QED BY <6>2 DEF EntryCopied, EntryAt
        <5> QED BY <5>1, <5>2
      <4> QED BY <4>1, <4>2 DEF ItemCopied, ItemAt, EntryCopied
    <3>6. CASE exec.tree = FALSE /\ i \in exec.trees \cup exec.files
      <4>1. i \in exec.files /\ i \in DOMAIN batch /\ exec.then[i] = plan.items[i]
        BY <2>5, <3>3, <3>6
      <4>2. ~plan.items[i].isDir /\ plan.items[i] \in PlanItems
        BY <2>1, <4>1, ItemType DEF Core, Staged, Files
      <4>3. EntriesOf(Src, plan.items[i]) = {plan.items[i].src}
        BY <4>2, FileIsAlone DEF CopyInv
      <4>4. At(Dst, plan.items[i].dst) = At(Src, plan.items[i].src)
        BY <3>2, <3>3, <4>1
      <4>5. target(plan.items[i], plan.items[i].src) = plan.items[i].dst
        BY <4>2, TargetSelf
      <4> QED BY <4>3, <4>4, <4>5 DEF ItemCopied, ItemAt, EntryAt
    <3> QED BY <2>2, <3>4, <3>5, <3>6
  <2> QED BY <2>3, <2>4, <2>6, <2>7 DEF CopyInv
<1> QED BY <1>1, <1>2, BatchEndsStep

\* What a step of an item does to the two sides.
LEMMA ItemSides ==
    ASSUME Core, NEW i \in DOMAIN batch, NEW b \in BatchItems, ItemStep(i, b)
    PROVE  /\ Src' = Src /\ DOMAIN Dst' = DOMAIN Dst
           /\ \A q : At(Dst', q) # At(Dst, q) =>
                 q = batch[i].dst /\ At(Dst, q) # "dir" /\ b.st \in {"ok", "failed"}
           /\ b.st = "ok" => /\ batch[i].st \in {"got", "complete"}
                             /\ At(Dst', batch[i].dst) = batch[i].body
<1>1. /\ local \in Locals /\ remote \in Remotes /\ local' \in Locals /\ remote' \in Remotes
      /\ \A q \in DOMAIN local : local'[q] # local[q] =>
            q = b.dst /\ plan.dir = "Download" /\ local[q] # "dir"
      /\ \A q \in DOMAIN remote : remote'[q] # remote[q] =>
            q = b.dst /\ plan.dir = "Upload" /\ remote[q] # "dir"
  BY ItemWrites DEF Core, Typed
<1>2. b.dst = batch[i].dst /\ UNCHANGED plan /\ plan.dir \in {"Download", "Upload"}
  BY DEF ItemStep, ItemFrame, Core, Typed, Plans, Directions
<1>3. DOMAIN local' = DOMAIN local /\ DOMAIN remote' = DOMAIN remote
  BY <1>1 DEF Locals, Remotes
<1>4. plan.dir = "Download" => remote' = remote
  BY <1>1 DEF Remotes
<1>5. plan.dir = "Upload" => local' = local
  BY <1>1 DEF Locals
<1>6. Src' = Src /\ DOMAIN Dst' = DOMAIN Dst
  BY <1>2, <1>3, <1>4, <1>5 DEF Src, Dst
<1>7. Written(i, b)
  BY DEF ItemStep
<1>8. ASSUME NEW q, At(Dst', q) # At(Dst, q)
      PROVE  q = batch[i].dst /\ At(Dst, q) # "dir" /\ b.st \in {"ok", "failed"}
  <2>1. q = batch[i].dst /\ At(Dst, q) # "dir"
    BY <1>1, <1>2, <1>3, <1>8 DEF At, Dst
  <2>2. b.st \in {"ok", "failed"}
    BY <1>2, <1>7, <1>8 DEF Written, files, Dst
  <2> QED BY <2>1, <2>2
<1>9. ASSUME b.st = "ok"
      PROVE  batch[i].st \in {"got", "complete"} /\ At(Dst', batch[i].dst) = batch[i].body
  <2>1. CASE /\ plan.dir = "Download" /\ batch[i].st = "got"
             /\ CanHold(local, b.dst) /\ local' = [local EXCEPT ![b.dst] = batch[i].body]
    <3>1. b.dst \in DOMAIN local
      BY <2>1 DEF CanHold
    <3>2. b.dst \in DOMAIN local' /\ local'[b.dst] = batch[i].body
      BY <1>1, <2>1, <3>1 DEF Locals
    <3>3. At(local', b.dst) = batch[i].body
      BY <3>2 DEF At
    <3>4. Dst' = local'
      BY <1>2, <2>1 DEF Dst
    <3> QED BY <1>2, <2>1, <3>3, <3>4
  <2>2. CASE /\ plan.dir = "Upload" /\ batch[i].st = "complete" /\ CanHold(remote, b.dst)
             /\ remote' = [remote EXCEPT ![b.dst] = batch[i].body]
    <3>1. b.dst \in DOMAIN remote
      BY <2>2 DEF CanHold
    <3>2. b.dst \in DOMAIN remote' /\ remote'[b.dst] = batch[i].body
      BY <1>1, <2>2, <3>1 DEF Remotes
    <3>3. At(remote', b.dst) = batch[i].body
      BY <3>2 DEF At
    <3>4. Dst' = remote'
      BY <1>2, <2>2 DEF Dst
    <3> QED BY <1>2, <2>2, <3>3, <3>4
  <2> QED BY <1>7, <1>9, <2>1, <2>2 DEF Written
<1> QED BY <1>6, <1>8, <1>9

\* An item that is over takes no step.
LEMMA ItemBusy ==
    ASSUME NEW i \in DOMAIN batch, Item(i)
    PROVE  batch[i].st \notin {"ok", "failed"}
BY DEF Item, DownloadStarts, DownloadHeader, DownloadChunk, DownloadBody, DownloadRenames,
       UploadStarts, UploadExists, file_md5, UploadHeader, UploadSends, UploadCompletes, MayStart

\* The item of the plan that an item of the batch belongs to is not done.
LEMMA Owner ==
    ASSUME Core, CopyInv, Careful, exec.phase = "items", NEW k \in DOMAIN batch
    PROVE  /\ batch[k].dst \in Paths /\ batch[k].src \in Paths
           /\ \E j \in exec.trees \cup exec.files :
                 /\ j \in DOMAIN plan.items /\ IsPrefix(plan.items[j].dst, batch[k].dst)
                 /\ exec.tree => j = Min(exec.trees)
<1>1. batch[k].dst \in Paths /\ batch[k].src \in Paths /\ exec.tree \in BOOLEAN
  BY BatchType DEF Core, BatchItems, Typed, Execs
<1>2. k \in DOMAIN exec.then /\ batch[k].src = exec.then[k].src /\ batch[k].dst = exec.then[k].dst
  BY DEF Core, Staged
<1>3. CASE exec.tree = TRUE
  <2>1. InTree
    BY <1>3 DEF InTree
  <2>2. batch[k].dst = target(Tree, batch[k].src)
    BY <1>2, <2>1 DEF CopyInv, TreeWalked
  <2>3. Tree \in PlanItems /\ Min(exec.trees) \in exec.trees /\ Min(exec.trees) \in DOMAIN plan.items
        /\ Tree = plan.items[Min(exec.trees)]
    BY <2>1, TreeItem DEF Core, Tree
  <2>4. IsPrefix(Tree.dst, batch[k].dst)
    BY <1>1, <2>2, <2>3, TargetType
  <2> QED BY <1>1, <2>3, <2>4
<1>4. CASE exec.tree = FALSE
  <2>1. k \in exec.files /\ exec.then[k] = plan.items[k] /\ k \in DOMAIN plan.items
    BY <1>2, <1>4 DEF Core, Staged, Files
  <2>2. IsPrefix(plan.items[k].dst, batch[k].dst)
    BY <1>1, <1>2, <2>1, PrefixRefl
  <2> QED BY <1>1, <1>4, <2>1, <2>2
<1> QED BY <1>1, <1>3, <1>4

\* Two items of a batch with one destination are copies of one source.
LEMMA SameTarget ==
    ASSUME Core, CopyInv, Careful, exec.phase = "items", NEW k \in DOMAIN batch, NEW i \in DOMAIN batch,
           batch[k].dst = batch[i].dst
    PROVE  batch[k].src = batch[i].src
<1>1. /\ DOMAIN batch = DOMAIN exec.then /\ batch[k].src = exec.then[k].src /\ batch[k].dst = exec.then[k].dst
      /\ batch[i].src = exec.then[i].src /\ batch[i].dst = exec.then[i].dst
  BY DEF Core, Staged
<1>2. exec.tree \in BOOLEAN /\ DOMAIN remote \subseteq Paths /\ DOMAIN local \subseteq Paths
  BY EntryFacts DEF Core, Typed, Execs, Remotes, Locals
<1>3. CASE exec.tree = TRUE
  <2>1. InTree
    BY <1>3 DEF InTree
  <2>2. Tree.src \in Paths /\ Tree.dst \in Paths
    BY <2>1, TreeItem DEF Core, PlanItems
  <2>3. /\ batch[k].src \in Below(Src, Tree.src) /\ batch[k].dst = target(Tree, batch[k].src)
        /\ batch[i].src \in Below(Src, Tree.src) /\ batch[i].dst = target(Tree, batch[i].src)
    BY <1>1, <2>1 DEF CopyInv, TreeWalked
  <2>4. /\ batch[k].src \in Paths /\ IsPrefix(Tree.src, batch[k].src)
        /\ batch[i].src \in Paths /\ IsPrefix(Tree.src, batch[i].src)
    BY <1>2, <2>3 DEF Below, Src, IsStrictPrefix
  <2> QED BY <2>2, <2>3, <2>4, StripInjective DEF target
<1>4. CASE exec.tree = FALSE
  <2>1. /\ exec.then[k] = plan.items[k] /\ k \in DOMAIN plan.items
        /\ exec.then[i] = plan.items[i] /\ i \in DOMAIN plan.items
    BY <1>1, <1>4 DEF Core, Staged, Files
  <2>2. plan.phase = "planned" /\ plan.checked /\ plan.items[k].dst = plan.items[i].dst
    BY <1>1, <2>1 DEF Careful, Core, Staged
  <2>3. \A m, n \in DOMAIN plan.items : m # n => plan.items[m].dst # plan.items[n].dst
    BY <2>2 DEF CopyInv, Preflight, Careful
  <2>4. k = i
    BY <2>1, <2>2, <2>3
  <2> QED BY <2>4
<1> QED BY <1>2, <1>3, <1>4

\* A step of an item leaves alone what is done, and writes what it was sent for.
LEMMA ItemCopy ==
    ASSUME Core, CopyInv, NEW i \in DOMAIN batch, batch[i].st \notin {"ok", "failed"},
           NEW b \in BatchItems, ItemStep(i, b)
    PROVE  CopyInv'
<1>1. /\ DOMAIN batch' = DOMAIN batch /\ batch'[i] = b
      /\ \A k \in DOMAIN batch : k # i => batch'[k] = batch[k]
      /\ UNCHANGED <<plan, exec, xfer, others, base>>
  BY ItemOthers DEF Core
<1>2. /\ Src' = Src /\ DOMAIN Dst' = DOMAIN Dst
      /\ \A q : At(Dst', q) # At(Dst, q) =>
            q = batch[i].dst /\ At(Dst, q) # "dir" /\ b.st \in {"ok", "failed"}
      /\ b.st = "ok" => /\ batch[i].st \in {"got", "complete"}
                        /\ At(Dst', batch[i].dst) = batch[i].body
  BY ItemSides
<1>3. /\ exec.phase = "items" /\ b.src = batch[i].src /\ b.dst = batch[i].dst /\ Contained(i, b)
  BY DEF ItemStep
<1>4. Worked
  BY <1>1, <1>2, <1>3 DEF Worked
<1>5. Quiet' /\ Preflight' /\ (Careful' <=> Careful)
  BY <1>4, WorkedKeeps DEF CopyInv
<1>6. RootMade' /\ Reported'
  BY <1>1, <1>3 DEF RootMade, Reported, CopyInv
<1>7. ASSUME Careful, NEW n \in DOMAIN plan.items, n \notin exec.trees \cup exec.files,
             NEW q \in Paths, IsPrefix(plan.items[n].dst, q)
      PROVE  At(Dst', q) = At(Dst, q)
  <2> SUFFICES ASSUME q = batch[i].dst PROVE FALSE
    BY <1>2
  <2>1. PICK j \in exec.trees \cup exec.files : j \in DOMAIN plan.items /\ IsPrefix(plan.items[j].dst, q)
    BY <1>3, <1>7, Owner
  <2> QED BY <1>7, <2>1, DisjointTargets DEF CopyInv
<1>8. DoneCopied'
  <2> SUFFICES ASSUME Careful, exec.failures = {}, NEW n \in DOMAIN plan.items,
                      n \notin exec.trees \cup exec.files
               PROVE  ItemAt(Src, Dst', plan.dir, base.remote, plan.items[n])
    BY <1>1, <1>2, <1>5 DEF DoneCopied, ItemCopied
  <2>1. ItemAt(Src, Dst, plan.dir, base.remote, plan.items[n])
    BY <1>3 DEF CopyInv, DoneCopied, ItemCopied
  <2>2. ASSUME NEW p \in EntriesOf(Src, plan.items[n])
        PROVE  EntryAt(Src, Dst', plan.dir, base.remote, plan.items[n], p)
    <3>1. plan.items[n] \in PlanItems /\ p \in Paths
      BY ItemType, EntriesThere DEF CopyInv
    <3>2. target(plan.items[n], p) \in Paths /\ IsPrefix(plan.items[n].dst, target(plan.items[n], p))
      BY <3>1, TargetType
    <3>3. At(Dst', target(plan.items[n], p)) = At(Dst, target(plan.items[n], p))
      BY <1>7, <3>2
    <3>4. EntryAt(Src, Dst, plan.dir, base.remote, plan.items[n], p)
      BY <2>1 DEF ItemAt
    <3> QED BY <3>3, <3>4 DEF EntryAt
  <2> QED BY <2>2 DEF ItemAt
<1>9. TreeWalked'
  <2> SUFFICES ASSUME Careful, InTree PROVE TreeWalked'
    BY <1>1, <1>5 DEF TreeWalked, InTree
  <2>1. Tree' = Tree
    BY <1>1 DEF Tree
  <2>2. ASSUME NEW p \in EntriesOf(Src, Tree), At(Src, p) = "dir"
        PROVE  EntryAt(Src, Dst', plan.dir, base.remote, Tree, p)
    <3>1. EntryAt(Src, Dst, plan.dir, base.remote, Tree, p)
      BY <1>3, <2>2 DEF CopyInv, TreeWalked, EntryCopied
    <3> QED BY <1>2, <2>2, <3>1 DEF EntryAt
  <2>3. /\ \A p \in EntriesOf(Src, Tree) : At(Src, p) # "dir" =>
              \E k \in DOMAIN exec.then : exec.then[k].src = p /\ exec.then[k].dst = target(Tree, p)
        /\ \A k \in DOMAIN exec.then :
              exec.then[k].src \in Below(Src, Tree.src)
                /\ exec.then[k].dst = target(Tree, exec.then[k].src)
    BY <1>3 DEF CopyInv, TreeWalked
  <2> QED BY <1>1, <1>2, <2>1, <2>2, <2>3 DEF TreeWalked, EntryCopied
<1>10. Fresh'
  <2> SUFFICES ASSUME Careful, plan.dir = "Upload", NEW j \in exec.trees, ~(exec.tree /\ j = Min(exec.trees)),
                      NEW q \in DOMAIN remote, IsPrefix(plan.items[j].dst, q), IsFile(remote'[q])
               PROVE  IsFile(base.remote[q])
    BY <1>1, <1>2, <1>3, <1>5 DEF Fresh, Dst
  <2>1. exec.tree = TRUE /\ j # Min(exec.trees) /\ j \in DOMAIN plan.items
    BY <1>3 DEF Core, Staged, Trees, Typed, Execs
  <2>2. IsFile(remote[q]) => IsFile(base.remote[q])
    BY <1>3, <2>1 DEF CopyInv, Fresh
  <2>3. q \in Paths /\ DOMAIN remote' = DOMAIN remote
    BY <1>1, <1>2, EntryFacts DEF Core, Typed, Remotes, Dst
  <2>4. ASSUME remote'[q] # remote[q] PROVE FALSE
    <3>1. At(Dst', q) # At(Dst, q)
      BY <1>1, <2>3, <2>4 DEF At, Dst
    <3>2. q = batch[i].dst
      BY <1>2, <3>1
    <3>3. PICK m \in DOMAIN plan.items : IsPrefix(plan.items[m].dst, q) /\ m = Min(exec.trees)
      BY <1>3, <2>1, <3>2, Owner
    <3> QED BY <2>1, <2>3, <3>3, DisjointTargets DEF CopyInv
  <2> QED BY <2>2, <2>4
<1>11. BatchCopied'
  <2> SUFFICES ASSUME Careful, NEW k \in DOMAIN batch
               PROVE  LET c == batch'[k]
                          e == At(Src, c.src)
                      IN  /\ c.st \in {"receive", "rest", "got"} => c.head = e
                          /\ c.st \in {"rest", "got", "complete"} => c.body = e
                          /\ c.st \in {"receive", "rest", "got", "complete"} => IsFile(e)
                          /\ Failures' = {} /\ c.st = "ok" => At(Dst', c.dst) = e
    BY <1>1, <1>2, <1>5 DEF BatchCopied
  <2>1. \A m \in DOMAIN batch :
            LET e == At(Src, batch[m].src)
            IN  /\ batch[m].st \in {"receive", "rest", "got"} => batch[m].head = e
                /\ batch[m].st \in {"rest", "got", "complete"} => batch[m].body = e
                /\ batch[m].st \in {"receive", "rest", "got", "complete"} => IsFile(e)
                /\ Failures = {} /\ batch[m].st = "ok" => At(Dst, batch[m].dst) = e
    BY <1>3 DEF CopyInv, BatchCopied
  <2>2. CASE k = i
    BY <1>1, <1>2, <1>3, <2>1, <2>2 DEF Contained
  <2>3. CASE k # i
    <3>1. batch'[k] = batch[k]
      BY <1>1, <2>3
    <3>2. ASSUME Failures' = {}, batch[k].st = "ok" PROVE At(Dst', batch[k].dst) = At(Src, batch[k].src)
      <4>1. Failures = {} /\ b.st # "failed"
        BY <1>1, <3>2 DEF Failures
      <4>2. At(Dst, batch[k].dst) = At(Src, batch[k].src)
        BY <2>1, <3>2, <4>1
      <4>3. CASE At(Dst', batch[k].dst) = At(Dst, batch[k].dst)
        BY <4>2, <4>3
      <4>4. CASE At(Dst', batch[k].dst) # At(Dst, batch[k].dst)
        <5>1. batch[k].dst = batch[i].dst /\ b.st = "ok"
          BY <1>2, <4>1, <4>4
        <5>2. At(Dst', batch[k].dst) = At(Src, batch[i].src)
          BY <1>2, <2>1, <5>1
        <5>3. batch[k].src = batch[i].src
          BY <1>3, <5>1, SameTarget
        <5> QED BY <5>2, <5>3
      <4> QED BY <4>3, <4>4
    <3> QED BY <2>1, <3>1, <3>2
  <2> QED BY <2>2, <2>3
<1> QED BY <1>5, <1>6, <1>8, <1>9, <1>10, <1>11 DEF CopyInv

\* While files, plan and task stay, so does all that is known of the copies.
LEMMA SameCopy ==
    ASSUME CopyInv, UNCHANGED <<remote, local, plan, exec, batch, others, base>>,
           xfer' = "Completed" => xfer = "Completed"
    PROVE  CopyInv'
<1>1. /\ Src' = Src /\ Dst' = Dst /\ SrcInit' = SrcInit /\ DstInit' = DstInit /\ Careful' = Careful
      /\ InTree' = InTree /\ Tree' = Tree /\ Failures' = Failures
  BY DEF Src, Dst, SrcInit, DstInit, Careful, InTree, Tree, Failures
<1>2. Quiet'
  BY <1>1 DEF CopyInv, Quiet
<1>3. Preflight'
  BY <1>1 DEF CopyInv, Preflight
<1>4. DoneCopied'
  BY <1>1 DEF CopyInv, DoneCopied, ItemCopied
<1>5. TreeWalked'
  BY <1>1 DEF CopyInv, TreeWalked, EntryCopied
<1>6. RootMade'
  BY <1>1 DEF CopyInv, RootMade
<1>7. BatchCopied'
  BY <1>1 DEF CopyInv, BatchCopied
<1>8. Fresh'
  BY <1>1 DEF CopyInv, Fresh
<1>9. Reported'
  BY <1>1 DEF CopyInv, Reported, CompletedMeansCopied
<1> QED BY <1>2, <1>3, <1>4, <1>5, <1>6, <1>7, <1>8, <1>9 DEF CopyInv

\* cancel() changes nothing that was copied.
LEMMA SignalsCopy ==
    ASSUME Core, CopyInv, Signals
    PROVE  CopyInv'
BY SameCopy DEF Signals

\* While a plan is made there is nothing to copy yet.
LEMMA PlanningCopy ==
    ASSUME Core, CopyInv, Planning, Preflight'
    PROVE  CopyInv'
<1>1. exec.phase = "none" /\ xfer = "none"
      /\ UNCHANGED <<remote, local, exec, xfer, others, base>>
  BY DEF Planning, Core, Staged
<1>2. Quiet'
  BY <1>1 DEF CopyInv, Quiet, Src, SrcInit
<1>3. DoneCopied' /\ TreeWalked' /\ RootMade' /\ BatchCopied' /\ Fresh'
  BY <1>1 DEF DoneCopied, TreeWalked, RootMade, BatchCopied, Fresh, Careful
<1>4. Reported'
  BY <1>1 DEF Reported
<1> QED BY <1>2, <1>3, <1>4 DEF CopyInv

\* The items of a plan are what preflight saw.
LEMMA PlanCopy ==
    ASSUME Core, InsideRoot, CopyInv, Plan
    PROVE  CopyInv'
<1>0. Planning
  BY PlanSteps
<1>1. exec.phase = "none" /\ exec'.phase = "none" /\ UNCHANGED <<remote, local, others>>
  BY <1>0 DEF Planning
<1>2. ASSUME NEW dir \in Directions, NEW recursive \in BOOLEAN, NEW overwrite \in BOOLEAN,
             NEW sources \in Sources[dir], NEW dest \in Destinations[dir],
             PlanBegins(dir, sources, dest, recursive, overwrite)
      PROVE  Preflight'
  <2>1. plan'.items = <<>> /\ plan'.todo = sources /\ plan'.count = Len(sources)
        /\ plan'.phase # "planned"
    BY <1>2, PlanBeginsStep DEF Core
  <2>2. Len(sources) \in Nat
    <3>1. sources \in Seq(Paths)
      BY RequestsAssumption DEF Directions, Paths
    <3> QED BY <3>1
  <2> QED BY <1>1, <2>1, <2>2 DEF Preflight
<1>3. ASSUME PlanSource PROVE Preflight'
  <2> DEFINE src == IF plan.dir = "Download" THEN resolve_remote_path(Relative(Head(plan.todo)))
                    ELSE Head(plan.todo)
             entry == At(Src, src)
             it(d) == [src |-> src, dst |-> d, isDir |-> entry = "dir"]
  <2>1. /\ plan' \in Plans /\ plan'.phase # "planned" /\ plan'.dir = plan.dir /\ plan'.dest = plan.dest
        /\ plan'.count = plan.count /\ plan'.checked = plan.checked /\ plan.conflicts \subseteq plan'.conflicts
        /\ \/ plan'.items = plan.items /\ Len(plan'.todo) <= Len(plan.todo)
           \/ \E d \in Paths :
                /\ plan'.items = Append(plan.items, it(d)) /\ it(d) \in PlanItems
                /\ Len(plan'.todo) = Len(plan.todo) - 1
                /\ plan.count > 1 => Len(d) = Len(plan.dest) + 1
                /\ plan.dir = "Download" => d # <<>>
                /\ entry # "none"
                /\ entry = "dir" /\ IsFile(At(Dst, d)) => Mismatch \in plan'.conflicts
    BY <1>3, PlanSourceStep DEF Core
  <2>2. SrcInit' = SrcInit /\ DstInit' = DstInit
    BY <2>1 DEF SrcInit, DstInit
  <2>3. others = 0 => Src = SrcInit /\ Dst = DstInit
    BY <1>1 DEF CopyInv, Quiet, Dst, DstInit
  <2>4. /\ plan.items \in Seq(PlanItems) /\ Len(plan.items) \in Nat /\ Len(plan.todo) \in Nat
        /\ Len(plan'.todo) \in Nat /\ plan.count \in Nat /\ DOMAIN plan.items = 1 .. Len(plan.items)
    BY <2>1 DEF Core, Typed, Plans
  <2> SUFFICES ASSUME plan'.checked PROVE Preflight'
    BY DEF Preflight
  <2>0. plan.checked
    BY <2>1
  <2>5. Preflight /\ plan.checked
    BY <2>0 DEF CopyInv
  <2>6. CASE plan'.items = plan.items /\ Len(plan'.todo) <= Len(plan.todo)
    <3>1. Len(plan'.items) + Len(plan'.todo) <= plan'.count
      <4>1. Len(plan.items) + Len(plan.todo) <= plan.count
        BY <2>5 DEF Preflight
      <4> DEFINE a == Len(plan.items)
                 n == Len(plan.todo)
                 m == Len(plan'.todo)
                 c == plan.count
      <4>2. a \in Nat /\ n \in Nat /\ m \in Nat /\ c \in Nat /\ a + n <= c /\ m <= n
        BY <2>4, <2>6, <4>1
      <4> HIDE DEF a, n, m, c
      <4>3. a + m <= c
        BY <4>2
      <4> QED BY <2>1, <2>6, <4>3 DEF a, m, c
    <3>2. others = 0 => \A i \in DOMAIN plan.items :
             /\ At(SrcInit, plan.items[i].src) # "none"
             /\ plan.items[i].isDir = (At(SrcInit, plan.items[i].src) = "dir")
             /\ plan.items[i].isDir /\ IsFile(At(DstInit, plan.items[i].dst)) => Mismatch \in plan.conflicts
      BY <2>5 DEF Preflight
    <3>3. /\ plan.count > 1 => \A i \in DOMAIN plan.items : Len(plan.items[i].dst) = Len(plan.dest) + 1
          /\ plan.dir = "Download" => \A i \in DOMAIN plan.items : plan.items[i].dst # <<>>
      BY <2>5 DEF Preflight
    <3>4. ASSUME others' = 0, NEW i \in DOMAIN plan'.items
          PROVE  /\ At(SrcInit', plan'.items[i].src) # "none"
                 /\ plan'.items[i].isDir = (At(SrcInit', plan'.items[i].src) = "dir")
                 /\ plan'.items[i].isDir /\ IsFile(At(DstInit', plan'.items[i].dst))
                      => Mismatch \in plan'.conflicts
      BY <1>1, <2>1, <2>2, <2>6, <3>2, <3>4
    <3>5. /\ plan'.count > 1 => \A i \in DOMAIN plan'.items : Len(plan'.items[i].dst) = Len(plan'.dest) + 1
          /\ plan'.dir = "Download" => \A i \in DOMAIN plan'.items : plan'.items[i].dst # <<>>
      BY <2>1, <2>6, <3>3
    <3> QED BY <1>1, <2>1, <3>1, <3>4, <3>5 DEF Preflight
  <2>7. ASSUME NEW d \in Paths,
               plan'.items = Append(plan.items, it(d)), it(d) \in PlanItems,
               Len(plan'.todo) = Len(plan.todo) - 1,
               plan.count > 1 => Len(d) = Len(plan.dest) + 1,
               plan.dir = "Download" => d # <<>>, entry # "none",
               entry = "dir" /\ IsFile(At(Dst, d)) => Mismatch \in plan'.conflicts
        PROVE  Preflight'
    <3>0. /\ it(d).src = src /\ it(d).dst = d /\ it(d).isDir = (entry = "dir")
      OBVIOUS
    <3> DEFINE x == it(d)
    <3> HIDE DEF it, x
    <3>1. /\ Len(plan'.items) = Len(plan.items) + 1
          /\ \A n \in DOMAIN plan.items : plan'.items[n] = plan.items[n]
          /\ plan'.items[Len(plan.items) + 1] = x
          /\ x.src = src /\ x.dst = d /\ x.isDir = (entry = "dir")
      BY <2>4, <2>7, <3>0, AppendType DEF x
    <3>2. \A n \in DOMAIN plan'.items :
             n \in DOMAIN plan.items \/ n = Len(plan.items) + 1
      <4>1. DOMAIN plan'.items = 1 .. Len(plan.items) + 1
        <5>1. Append(plan.items, x) \in Seq(PlanItems)
          BY <2>4, <2>7, AppendType DEF x
        <5>2. plan'.items \in Seq(PlanItems)
          BY <2>7, <5>1 DEF x
        <5> QED BY <3>1, <5>2
      <4> QED BY <2>4, <4>1
    <3>3. Len(plan'.items) + Len(plan'.todo) <= plan'.count
      <4>1. Len(plan.items) + Len(plan.todo) <= plan.count
        BY <2>5 DEF Preflight
      <4> DEFINE a == Len(plan.items)
                 n == Len(plan.todo)
                 m == Len(plan'.todo)
                 c == plan.count
      <4>2. a \in Nat /\ n \in Nat /\ m \in Nat /\ c \in Nat /\ a + n <= c /\ m = n - 1
        BY <2>4, <2>7, <4>1
      <4> HIDE DEF a, n, m, c
      <4>3. (a + 1) + m <= c
        BY <4>2
      <4> QED BY <2>1, <3>1, <4>3 DEF a, m, c
    <3>4. ASSUME NEW n \in DOMAIN plan'.items
          PROVE  /\ plan.count > 1 => Len(plan'.items[n].dst) = Len(plan.dest) + 1
                 /\ plan.dir = "Download" => plan'.items[n].dst # <<>>
      <4>1. CASE n \in DOMAIN plan.items
        BY <2>5, <3>1, <4>1 DEF Preflight
      <4>2. CASE n = Len(plan.items) + 1
        BY <2>7, <3>1, <4>2
      <4> QED BY <3>2, <4>1, <4>2
    <3>5. ASSUME others = 0, NEW n \in DOMAIN plan'.items
          PROVE  /\ At(SrcInit, plan'.items[n].src) # "none"
                 /\ plan'.items[n].isDir = (At(SrcInit, plan'.items[n].src) = "dir")
                 /\ plan'.items[n].isDir /\ IsFile(At(DstInit, plan'.items[n].dst))
                      => Mismatch \in plan'.conflicts
      <4>1. CASE n \in DOMAIN plan.items
        BY <2>1, <2>5, <3>1, <3>5, <4>1 DEF Preflight
      <4>2. CASE n = Len(plan.items) + 1
        BY <2>3, <2>7, <3>1, <3>5, <4>2
      <4> QED BY <3>2, <4>1, <4>2
    <3> QED BY <1>1, <2>1, <2>2, <3>3, <3>4, <3>5 DEF Preflight
  <2> QED BY <2>1, <2>6, <2>7
<1>4. ASSUME finalize_file_plan PROVE Preflight'
  <2>1. Finalized
    BY <1>4, FinalizeStep
  <2> SUFFICES ASSUME plan'.checked PROVE Preflight'
    BY DEF Preflight
  <2>2. SrcInit' = SrcInit /\ DstInit' = DstInit
    BY <2>1 DEF Finalized, SrcInit, DstInit
  <2>3. /\ plan'.items = plan.items /\ plan'.todo = plan.todo /\ plan'.count = plan.count
        /\ plan'.dest = plan.dest /\ plan'.dir = plan.dir /\ plan'.checked = plan.checked
        /\ plan.conflicts \subseteq plan'.conflicts
    BY <2>1 DEF Finalized
  <2>4. plan.checked /\ Preflight
    BY <2>3 DEF CopyInv
  <2>5. /\ Len(plan'.items) + Len(plan'.todo) <= plan'.count
        /\ plan'.count > 1 => \A i \in DOMAIN plan'.items : Len(plan'.items[i].dst) = Len(plan'.dest) + 1
        /\ plan'.dir = "Download" => \A i \in DOMAIN plan'.items : plan'.items[i].dst # <<>>
    BY <2>3, <2>4 DEF Preflight
  <2>6. Duplicate \notin plan'.conflicts =>
           \A i, j \in DOMAIN plan'.items : i # j => plan'.items[i].dst # plan'.items[j].dst
    BY <2>1, <2>3 DEF Finalized
  <2>7. others = 0 => \A i \in DOMAIN plan.items :
           /\ At(SrcInit, plan.items[i].src) # "none"
           /\ plan.items[i].isDir = (At(SrcInit, plan.items[i].src) = "dir")
           /\ plan.items[i].isDir /\ IsFile(At(DstInit, plan.items[i].dst)) => Mismatch \in plan.conflicts
    BY <2>4 DEF Preflight
  <2>8. ASSUME others' = 0, NEW i \in DOMAIN plan'.items
        PROVE  /\ At(SrcInit', plan'.items[i].src) # "none"
               /\ plan'.items[i].isDir = (At(SrcInit', plan'.items[i].src) = "dir")
               /\ plan'.items[i].isDir /\ IsFile(At(DstInit', plan'.items[i].dst))
                    => Mismatch \in plan'.conflicts
    BY <1>1, <2>2, <2>3, <2>7, <2>8
  <2> QED BY <1>1, <2>5, <2>6, <2>8 DEF Preflight
<1> QED BY <1>0, <1>2, <1>3, <1>4, PlanningCopy DEF Plan

\* A plan that may be executed has neither of the two conflicts.
LEMMA BeginsCopy ==
    ASSUME Core, CopyInv, Begins
    PROVE  CopyInv'
<1>1. /\ exec.phase = "none" /\ exec'.phase = "start" /\ xfer' # "Completed"
      /\ base' = [remote |-> remote, local |-> local]
      /\ UNCHANGED <<remote, local, others>>
      /\ exec'.trees = Trees(plan'.items) /\ exec'.files = Files(plan'.items)
  BY DEF Begins
<1>2. Quiet'
  BY <1>1 DEF CopyInv, Quiet, Src, SrcInit
<1>3. Preflight'
  <2> SUFFICES ASSUME plan'.checked PROVE Preflight'
    BY DEF Preflight
  <2>1. UNCHANGED plan /\ plan.phase = "planned"
    BY DEF Begins
  <2>2. \A c \in plan.conflicts : c.overridable
    BY DEF Begins, is_executable_with
  <2>3. ~Duplicate.overridable /\ ~Mismatch.overridable
    BY DEF Duplicate, Mismatch, Conflict
  <2>4. Duplicate \notin plan.conflicts /\ Mismatch \notin plan.conflicts
    BY <2>2, <2>3
  <2> QED BY <1>1, <2>1, <2>4 DEF CopyInv, Preflight, SrcInit, DstInit
<1>4. DoneCopied'
  BY <1>1 DEF DoneCopied, Trees, Files
<1>5. TreeWalked' /\ RootMade' /\ BatchCopied' /\ Reported'
  BY <1>1 DEF TreeWalked, RootMade, BatchCopied, Reported
<1>6. Fresh'
  BY <1>1 DEF Fresh
<1> QED BY <1>2, <1>3, <1>4, <1>5, <1>6 DEF CopyInv

\* Once somebody else has acted, nothing is claimed.
LEMMA OutsideCopy ==
    ASSUME Core, CopyInv, Outside
    PROVE  CopyInv'
<1>1. UNCHANGED <<plan, exec, batch, xfer, base>> /\ others \in Nat
  BY DEF Outside, Core, Typed
<1>2. CASE others' = others + 1
  <2>1. others' # 0
    BY <1>1, <1>2
  <2>2. Quiet' /\ DoneCopied' /\ TreeWalked' /\ RootMade' /\ BatchCopied' /\ Fresh'
    BY <2>1 DEF Quiet, DoneCopied, TreeWalked, RootMade, BatchCopied, Fresh, Careful
  <2>3. Preflight'
    BY <1>1, <2>1 DEF CopyInv, Preflight
  <2>4. Reported'
    BY <1>1, <2>1 DEF CopyInv, Reported, CompletedMeansCopied
  <2> QED BY <2>2, <2>3, <2>4 DEF CopyInv
<1>3. CASE UNCHANGED <<remote, local, others>>
  BY <1>1, <1>3, SameCopy
<1> QED BY <1>2, <1>3 DEF Outside

LEMMA InitCopy ==
    ASSUME Init
    PROVE  CopyInv
<1>1. Quiet
  BY DEF Init, Quiet, Src, SrcInit
<1>2. Preflight /\ DoneCopied /\ TreeWalked /\ RootMade /\ BatchCopied /\ Fresh /\ Reported
  BY DEF Init, Preflight, DoneCopied, TreeWalked, RootMade, BatchCopied, Fresh, Reported, Careful
<1> QED BY <1>1, <1>2 DEF CopyInv

\* Every step is one of the kinds above.
LEMMA NextCopy ==
    ASSUME Core, Targets, CopyInv, [Next]_vars
    PROVE  CopyInv'
<1>0. InsideRoot /\ Aimed
  BY DEF Targets
<1>1. CASE Plan
  BY <1>0, <1>1, PlanCopy
<1>2. CASE cancel_transfer \/ cancel_transition \/ cancel_for_session
  BY <1>2, CancelSteps, SignalsCopy, FailingCopy
<1>3. CASE Call
  <2>1. ASSUME NEW overwrite \in BOOLEAN, NEW concurrency \in ConcurrencyChoices,
               execute_file_plan(overwrite, concurrency)
        PROVE  CopyInv'
    BY <1>0, <2>1, ExecuteStep, BeginsCopy
  <2>2. ASSUME NEW dir \in Directions, NEW background \in BOOLEAN, NEW overwrite \in BOOLEAN,
               NEW pairs \in Pairs[dir], start_batch(dir, background, overwrite, pairs)
        PROVE  CopyInv'
    BY <1>0, <2>2, StartBatchStep, BeginsCopy
  <2> QED BY <1>2, <1>3, <2>1, <2>2 DEF Call
<1>4. CASE Task
  <2>1. ASSUME NEW i \in DOMAIN batch, Item(i) PROVE CopyInv'
    <3>1. PICK b \in BatchItems : ItemStep(i, b)
      BY <2>1, ItemSteps DEF Core
    <3>2. batch[i].st \notin {"ok", "failed"}
      BY <2>1, ItemBusy
    <3> QED BY <3>1, <3>2, ItemCopy
  <2>2. CASE TaskReports
    BY <2>2, TaskReportsStep, ReportsCopy
  <2> QED BY <1>0, <1>4, <2>1, <2>2, NextStageCopy, TreeMakesRootCopy, TreeListedCopy, CollectCopy,
             TreeMakesRemoteCopy, BatchBeginsCopy, BatchEndsCopy DEF Task
<1>5. CASE OtherCallers /\ ~cancel_for_session
  BY <1>0, <1>5, OutsideSteps, OutsideCopy
<1>6. CASE UNCHANGED vars
  BY <1>6, SameCopy DEF vars
<1> QED BY <1>1, <1>2, <1>3, <1>4, <1>5, <1>6 DEF Next

\* Only a delete changes what was said to be deleted.
LEMMA NextReplied ==
    ASSUME Core, Targets, Next
    PROVE  replied' # replied => \A p \in replied' : At(remote', p) = "none"
<1>0. InsideRoot
  BY DEF Targets
<1>1. CASE Plan
  BY <1>0, <1>1, PlanSteps DEF Planning
<1>2. CASE cancel_transfer \/ cancel_transition \/ cancel_for_session
  BY <1>2, CancelSteps DEF Signals, Failing, Ends
<1>3. CASE Call
  <2>1. ASSUME NEW overwrite \in BOOLEAN, NEW concurrency \in ConcurrencyChoices,
               execute_file_plan(overwrite, concurrency)
        PROVE  UNCHANGED replied
    BY <1>0, <2>1, ExecuteStep DEF Begins
  <2>2. ASSUME NEW dir \in Directions, NEW background \in BOOLEAN, NEW overwrite \in BOOLEAN,
               NEW pairs \in Pairs[dir], start_batch(dir, background, overwrite, pairs)
        PROVE  UNCHANGED replied
    BY <1>0, <2>2, StartBatchStep DEF Begins
  <2> QED BY <1>2, <1>3, <2>1, <2>2 DEF Call
<1>4. CASE Task
  <2>1. ASSUME NEW i \in DOMAIN batch, Item(i) PROVE UNCHANGED replied
    <3>1. PICK b \in BatchItems : ItemStep(i, b)
      BY <2>1, ItemSteps DEF Core
    <3> QED BY <3>1, ItemOthers DEF Core
  <2>2. CASE NextStage
    BY <2>2 DEF NextStage, ghosts
  <2>3. CASE TreeMakesRoot
    BY <2>3 DEF TreeMakesRoot, TaskFails, ghosts
  <2>4. CASE TreeListed
    BY <2>4 DEF TreeListed, TaskFails, ghosts
  <2>5. CASE collect_upload_tree
    BY <2>5 DEF collect_upload_tree, TaskFails, ghosts
  <2>6. CASE TreeMakesRemote
    BY <2>6 DEF TreeMakesRemote, TaskFails, ghosts
  <2>7. CASE BatchBegins
    BY <2>7 DEF BatchBegins, TaskFails, ghosts
  <2>8. CASE BatchEnds
    BY <2>8 DEF BatchEnds, TaskFails, ghosts
  <2>9. CASE TaskReports
    BY <2>9 DEF TaskReports, ghosts
  <2> QED BY <1>4, <2>1, <2>2, <2>3, <2>4, <2>5, <2>6, <2>7, <2>8, <2>9 DEF Task
<1>5. CASE OtherCallers /\ ~cancel_for_session
  BY <1>0, <1>5, OutsideSteps
<1> QED BY <1>1, <1>2, <1>3, <1>4, <1>5 DEF Next

\* What the caller is told is what happened: a transfer with preflight that is
\* Completed has copied every item and the contents of every tree if nobody else
\* changed a file, a task that has ended shows it, and a delete that succeeded
\* deleted every path (batch_transfer, transition, ensure_deleted_files_succeeded).
THEOREM OutcomeIsTold == Spec => OutcomeTold
<1>1. Init => IndInv
  BY InitTargets, InitCopy DEF IndInv
<1>2. IndInv /\ [Next]_vars => IndInv'
  BY NextTargets, NextCopy DEF IndInv
<1>3. IndInv => CompletedMeansCopied /\ EndedIsTerminal
  BY DEF IndInv, Core, Told, CopyInv, Reported, CompletedMeansCopied
<1>4. IndInv /\ [Next]_vars =>
        [replied' # replied => \A p \in replied' : At(remote', p) = "none"]_vars
  BY NextReplied DEF IndInv
<1> QED BY <1>1, <1>2, <1>3, <1>4, PTL DEF Spec, OutcomeTold, DeletedIsGone
=============================================================================
