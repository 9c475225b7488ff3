--------------------------- MODULE ConfStoreSteps ---------------------------
(***************************************************************************)
(* Steps of the configuration store (module ConfStore), for any set of     *)
(* storage keys and any number of writes, rotations, crashes and failing   *)
(* fsync calls. What a call has still to do is the end of its program      *)
(* (Ends), so the number of steps left, Left, tells which disk operation   *)
(* is next. The first part finds it; the second says what each disk        *)
(* operation does; then StoreInv is preserved by each step of              *)
(* meshlink_setup, of the end of meshlink_open_ex, of a write and of       *)
(* meshlink_confbase_exists. Module ConfStoreProofs goes on with           *)
(* meshlink_encrypted_key_rotate and states the theorems.                  *)
(***************************************************************************)
EXTENDS ConfStore, TLAPS

\* The provers get 30 seconds for a leaf, however busy the machine is.
USE SMTT(30), ZenonT(30)

-----------------------------------------------------------------------------
\* Steps that change nothing.

\* A step of another part of the library leaves the store's invariant as it is.
LEMMA StoreStutters ==
    ASSUME StoreInv, MainValues, UNCHANGED vars
    PROVE  StoreInv' /\ MainValues'
<1>1. /\ disk' = disk /\ mode' = mode /\ todo' = todo /\ key' = key /\ newkey' = newkey
      /\ id' = id /\ ids' = ids /\ keys' = keys /\ tried' = tried /\ fails' = fails
      /\ newFirst' = newFirst /\ counts' = counts /\ saved' = saved /\ ident' = ident
  BY Zenon DEF vars
<1>2. TypeOK' /\ (fails' = 0 => Identity') /\ MainValues'
  BY <1>1 DEF StoreInv, TypeOK, Identity, Uniform, MainValues, File
<1>3. /\ OldKeyFirst' <=> OldKeyFirst
      /\ SameNode' <=> SameNode
      /\ Recoverable' <=> Recoverable
      /\ SecondKey' <=> SecondKey
      /\ Usable' <=> Usable
  BY <1>1, Zenon
     DEF OldKeyFirst, SameNode, Recoverable, SecondKey, Usable, MainKept, Full, HostsFull, Only,
         Opens, Holds, File
<1>4. (mode' = "down" => IsDown') /\ (mode' = "lost" => IsLost')
  BY <1>1, <1>3, Zenon DEF StoreInv, IsDown, IsLost, Holds, File
<1>5. mode' = "setup" => IsSetup'
  BY <1>1, Zenon DEF StoreInv, IsSetup, Left, Only, Holds, Opens, File
<1>6. mode' = "recover" => IsRecover'
  BY <1>1, <1>3, Zenon DEF StoreInv, IsRecover, Left, Full, HostsFull, Holds, Opens, File
<1>7. mode' = "finish" => IsFinish'
  BY <1>1, <1>3, Zenon DEF StoreInv, IsFinish, Left, Full, HostsFull, Holds, Opens, File
<1>8. mode' = "up" => IsUp'
  BY <1>1, <1>3, Zenon DEF StoreInv, IsUp, Opens, File
<1>9. mode' = "write" => IsWrite'
  <2>1. WritesPeer' <=> WritesPeer
    BY <1>1, Zenon DEF WritesPeer, Left, Opens, File
  <2>2. WritesMain' <=> WritesMain
    BY <1>1, Zenon DEF WritesMain, Left, Holds, Opens, File
  <2> QED BY <1>1, <1>3, <2>1, <2>2, Zenon DEF StoreInv, IsWrite
<1>10. mode' = "rotate" => IsRotate'
  BY <1>1, <1>3, Zenon
     DEF StoreInv, IsRotate, MainKept, Left, Full, HostsFull, Only, Holds, Opens, File, Copied
<1> QED BY <1>2, <1>4, <1>5, <1>6, <1>7, <1>8, <1>9, <1>10, Zenon DEF StoreInv

-----------------------------------------------------------------------------
\* Programs: which operation is next.

\* Doing the first operation left of a program leaves the end of that program.
LEMMA EndsTail ==
    ASSUME NEW S, NEW p \in Seq(S), NEW t, t # <<>>, Ends(t, p)
    PROVE  /\ Len(t) \in 1 .. Len(p) /\ Head(t) = p[Len(p) - Len(t) + 1]
           /\ Len(Tail(t)) = Len(t) - 1
           /\ Ends(Tail(t), p)
<1> DEFINE n == Len(t)
<1> USE DEF Ends
<1>1. n \in Nat
  OBVIOUS
<1>2. t \in Seq(S) /\ n > 0
  <2>1. SubSeq(p, Len(p) - n + 1, Len(p)) \in Seq(S)
    BY <1>1
  <2>2. t \in Seq(S)
    BY <2>1, Zenon
  <2>3. n # 0
    BY <2>2
  <2> QED BY <1>1, <2>2, <2>3
<1>3. Head(t) = p[Len(p) - n + 1]
  BY <1>1, <1>2
<1>4. Len(Tail(t)) = n - 1 /\ Tail(t) \in Seq(S)
  BY <1>2
<1>5. \A i \in 1 .. n - 1 : Tail(t)[i] = p[Len(p) - (n - 1) + i]
  BY <1>1, <1>2
<1>6. SubSeq(p, Len(p) - (n - 1) + 1, Len(p)) \in Seq(S)
  BY <1>1, <1>2
<1>7. Len(SubSeq(p, Len(p) - (n - 1) + 1, Len(p))) = n - 1
  BY <1>1, <1>2
<1>8. \A i \in 1 .. n - 1 : SubSeq(p, Len(p) - (n - 1) + 1, Len(p))[i] = p[Len(p) - (n - 1) + i]
  BY <1>1, <1>2
<1>9. Tail(t) = SubSeq(p, Len(p) - (n - 1) + 1, Len(p))
  BY <1>1, <1>4, <1>5, <1>6, <1>7, <1>8
<1> QED BY <1>1, <1>2, <1>3, <1>4, <1>9

\* A program is done when no operation is left.
LEMMA Empties ==
    ASSUME NEW S, NEW p \in Seq(S), NEW t, Ends(t, p)
    PROVE  t = <<>> <=> Len(t) = 0
BY EndsTail DEF Ends

\* A call begins with all of its program.
LEMMA Whole ==
    ASSUME NEW S, NEW p \in Seq(S)
    PROVE  Ends(p, p)
BY DEF Ends

\* Nothing is left at the end of any program.
LEMMA Nothing ==
    ASSUME NEW S, NEW p \in Seq(S)
    PROVE  Ends(<<>>, p)
BY DEF Ends

\* The operations of config_write for our own host file.
LEMMA SelfOps ==
    ASSUME NEW p, p = config_write("self", 0)
    PROVE  /\ \E S : p \in Seq(S)
           /\ Len(p) = 3 /\ p[1] = OpenTmp("self") /\ p[2] = Flush("self.tmp", 0)
           /\ p[3] = MvTmp("self")
<1>1. p = <<OpenTmp("self"), Flush("self.tmp", 0), MvTmp("self")>>
  BY Zenon DEF config_write, Tmp
<1>2. p \in Seq({OpenTmp("self"), Flush("self.tmp", 0), MvTmp("self")})
  BY DEF config_write, Tmp
<1>3. \E S : p \in Seq(S)
  BY <1>2, Zenon
<1>4. QED BY <1>1, <1>3 DEF config_write, Tmp

\* The operations of config_write for the host file of a peer.
LEMMA PeerOps ==
    ASSUME NEW v, NEW p, p = WriteProgram(v)
    PROVE  /\ \E S : p \in Seq(S)
           /\ Len(p) = 4 /\ p[1] = OpenTmp("peer") /\ p[2] = Flush("peer.tmp", v)
           /\ p[3] = MvTmp("peer") /\ p[4] = Written(v)
<1>1. p = Append(<<OpenTmp("peer"), Flush("peer.tmp", v), MvTmp("peer")>>, Written(v))
  BY Zenon DEF config_write, Tmp, WriteProgram
<1>2. p \in Seq({OpenTmp("peer"), Flush("peer.tmp", v), MvTmp("peer"), Written(v)})
  BY <1>1
<1>3. \E S : p \in Seq(S)
  BY <1>2, Zenon
<1>4. QED BY <1>1, <1>3

\* The operations of write_main_config_files.
LEMMA MainOps ==
    ASSUME NEW v, NEW p, p = write_main_config_files(v)
    PROVE  /\ \E S : p \in Seq(S)
           /\ Len(p) = 6
           /\ p[1] = OpenTmp("main") /\ p[2] = MvTmp("main") /\ p[3] = Flush("main", v)
           /\ p[4] = OpenTmp("self") /\ p[5] = Flush("self.tmp", 0) /\ p[6] = MvTmp("self")
<1>1. p = <<OpenTmp("main"), MvTmp("main"), Flush("main", v)>>
          \o <<OpenTmp("self"), Flush("self.tmp", 0), MvTmp("self")>>
  BY Zenon DEF config_write, Tmp, write_main_config_files, main_config_write
<1>2. p \in Seq({OpenTmp("main"), MvTmp("main"), Flush("main", v),
                OpenTmp("self"), Flush("self.tmp", 0), MvTmp("self")})
  BY <1>1
<1>3. \E S : p \in Seq(S)
  BY <1>2, Zenon
<1>4. QED BY <1>1, <1>3

\* The operations of meshlink_setup and of the end of meshlink_open_ex.
LEMMA SetupOps ==
    ASSUME NEW v, NEW p, p = meshlink_setup(v)
    PROVE  /\ \E S : p \in Seq(S)
           /\ Len(p) = 13
           /\ p[1] = Destroy("new") /\ p[2] = Destroy("old") /\ p[3] = Deltree("current")
           /\ p[4] = Mkdir("current")
           /\ p[5] = OpenTmp("main") /\ p[6] = MvTmp("main") /\ p[7] = Flush("main", v)
           /\ p[8] = OpenTmp("self") /\ p[9] = Flush("self.tmp", 0) /\ p[10] = MvTmp("self")
           /\ p[11] = OpenTmp("self") /\ p[12] = Flush("self.tmp", 0) /\ p[13] = MvTmp("self")
<1>1. p = <<Destroy("new"), Destroy("old"), Deltree("current"), Mkdir("current")>>
          \o (<<OpenTmp("main"), MvTmp("main"), Flush("main", v)>>
              \o <<OpenTmp("self"), Flush("self.tmp", 0), MvTmp("self")>>)
          \o <<OpenTmp("self"), Flush("self.tmp", 0), MvTmp("self")>>
  BY Zenon DEF config_write, Tmp, write_main_config_files, main_config_write, meshlink_setup
<1>2. p \in Seq({Destroy("new"), Destroy("old"), Deltree("current"), Mkdir("current"),
                OpenTmp("main"), MvTmp("main"), Flush("main", v),
                OpenTmp("self"), Flush("self.tmp", 0), MvTmp("self")})
  BY <1>1
<1>3. \E S : p \in Seq(S)
  BY <1>2, Zenon
<1>4. QED BY <1>1, <1>3

\* The operations of meshlink_encrypted_key_rotate.
LEMMA RotateOps ==
    ASSUME NEW p, p = meshlink_encrypted_key_rotate
    PROVE  /\ \E S : p \in Seq(S)
           /\ Len(p) = 7
           /\ p[1] = Deltree("new") /\ p[2] = Mkdir("new") /\ p[3] = Copy
           /\ p[4] = Rename("current", "old") /\ p[5] = Rename("new", "current")
           /\ p[6] = Destroy("old") /\ p[7] = SetKey
<1>1. p = <<Deltree("new"), Mkdir("new"), Copy, Rename("current", "old"),
            Rename("new", "current"), Destroy("old"), SetKey>>
  BY Zenon DEF meshlink_encrypted_key_rotate
<1>2. p \in Seq({Deltree("new"), Mkdir("new"), Copy, Rename("current", "old"),
                Rename("new", "current"), Destroy("old"), SetKey})
  BY <1>1
<1>3. \E S : p \in Seq(S)
  BY <1>2, Zenon
<1>4. QED BY <1>1, <1>3

\* The operations of meshlink_confbase_exists when it restores a directory.
LEMMA RestoreOps ==
    ASSUME NEW d, NEW p, p = Restore(d)
    PROVE  /\ \E S : p \in Seq(S)
           /\ Len(p) = 4
           /\ p[1] = Destroy("current") /\ p[2] = Rename(d, "current")
           /\ p[3] = Destroy("old") /\ p[4] = Destroy("new")
<1>1. p = <<Destroy("current"), Rename(d, "current"), Destroy("old"), Destroy("new")>>
  BY Zenon DEF Restore
<1>2. p \in Seq({Destroy("current"), Rename(d, "current"), Destroy("old"), Destroy("new")})
  BY <1>1
<1>3. \E S : p \in Seq(S)
  BY <1>2, Zenon
<1>4. QED BY <1>1, <1>3

\* Which operation of meshlink_setup is next, from the number of those left.
LEMMA SetupTable ==
    ASSUME NEW v, NEW t, Ends(t, meshlink_setup(v))
    PROVE  /\ Len(t) \in 0 .. 13 /\ (t = <<>> <=> Len(t) = 0)
           /\ t # <<>> => Ends(Tail(t), meshlink_setup(v)) /\ Len(Tail(t)) = Len(t) - 1
           /\ Len(t) = 13 => Head(t) = Destroy("new")
           /\ Len(t) = 12 => Head(t) = Destroy("old")
           /\ Len(t) = 11 => Head(t) = Deltree("current")
           /\ Len(t) = 10 => Head(t) = Mkdir("current")
           /\ Len(t) = 9 => Head(t) = OpenTmp("main")
           /\ Len(t) = 8 => Head(t) = MvTmp("main")
           /\ Len(t) = 7 => Head(t) = Flush("main", v)
           /\ Len(t) = 6 => Head(t) = OpenTmp("self")
           /\ Len(t) = 5 => Head(t) = Flush("self.tmp", 0)
           /\ Len(t) = 4 => Head(t) = MvTmp("self")
           /\ Len(t) = 3 => Head(t) = OpenTmp("self")
           /\ Len(t) = 2 => Head(t) = Flush("self.tmp", 0)
           /\ Len(t) = 1 => Head(t) = MvTmp("self")
<1> DEFINE p == meshlink_setup(v)
<1>1. \E S : p \in Seq(S)
  BY SetupOps, Zenon
<1>2. Len(p) = 13 /\ p[1] = Destroy("new") /\ p[2] = Destroy("old") /\ p[3] = Deltree("current")
      /\ p[4] = Mkdir("current") /\ p[5] = OpenTmp("main") /\ p[6] = MvTmp("main")
      /\ p[7] = Flush("main", v) /\ p[8] = OpenTmp("self") /\ p[9] = Flush("self.tmp", 0)
      /\ p[10] = MvTmp("self") /\ p[11] = OpenTmp("self") /\ p[12] = Flush("self.tmp", 0)
      /\ p[13] = MvTmp("self")
  BY SetupOps
<1> HIDE DEF p
<1>3. PICK S : p \in Seq(S)
  BY <1>1, Zenon
<1>4. t = <<>> <=> Len(t) = 0
  BY <1>3, Empties, Zenon DEF p
<1>5. Len(t) \in 0 .. 13
  BY <1>2, Zenon DEF Ends, p
<1>6. t # <<>> => Ends(Tail(t), p) /\ Len(Tail(t)) = Len(t) - 1 /\ Head(t) = p[13 - Len(t) + 1]
  BY <1>2, <1>3, EndsTail, Zenon DEF p
<1> DEFINE n == Len(t)
<1>7. t # <<>> => Head(t) = p[13 - n + 1]
  BY <1>6, Zenon
<1>8. n \in 0 .. 13 /\ (t = <<>> <=> n = 0)
  BY <1>4, <1>5, Zenon
<1> HIDE DEF n
<1>9. /\ n = 13 => Head(t) = Destroy("new")
      /\ n = 12 => Head(t) = Destroy("old")
      /\ n = 11 => Head(t) = Deltree("current")
      /\ n = 10 => Head(t) = Mkdir("current")
      /\ n = 9 => Head(t) = OpenTmp("main")
      /\ n = 8 => Head(t) = MvTmp("main")
      /\ n = 7 => Head(t) = Flush("main", v)
      /\ n = 6 => Head(t) = OpenTmp("self")
      /\ n = 5 => Head(t) = Flush("self.tmp", 0)
      /\ n = 4 => Head(t) = MvTmp("self")
      /\ n = 3 => Head(t) = OpenTmp("self")
      /\ n = 2 => Head(t) = Flush("self.tmp", 0)
      /\ n = 1 => Head(t) = MvTmp("self")
  BY <1>2, <1>7, <1>8
<1> QED BY <1>4, <1>5, <1>6, <1>9, Zenon DEF p, n

\* The same for config_write for our own host file.
LEMMA SelfTable ==
    ASSUME NEW t, Ends(t, config_write("self", 0))
    PROVE  /\ Len(t) \in 0 .. 3 /\ (t = <<>> <=> Len(t) = 0)
           /\ t # <<>> => Ends(Tail(t), config_write("self", 0)) /\ Len(Tail(t)) = Len(t) - 1
           /\ Len(t) = 3 => Head(t) = OpenTmp("self")
           /\ Len(t) = 2 => Head(t) = Flush("self.tmp", 0)
           /\ Len(t) = 1 => Head(t) = MvTmp("self")
<1> DEFINE p == config_write("self", 0)
<1>1. \E S : p \in Seq(S)
  BY SelfOps, Zenon
<1>2. Len(p) = 3 /\ p[1] = OpenTmp("self") /\ p[2] = Flush("self.tmp", 0) /\ p[3] = MvTmp("self")
  BY SelfOps, Zenon
<1> HIDE DEF p
<1>3. PICK S : p \in Seq(S)
  BY <1>1, Zenon
<1>4. t = <<>> <=> Len(t) = 0
  BY <1>3, Empties, Zenon DEF p
<1>5. Len(t) \in 0 .. 3
  BY <1>2, Zenon DEF Ends, p
<1>6. t # <<>> => Ends(Tail(t), p) /\ Len(Tail(t)) = Len(t) - 1 /\ Head(t) = p[3 - Len(t) + 1]
  BY <1>2, <1>3, EndsTail, Zenon DEF p
<1> DEFINE n == Len(t)
<1>7. t # <<>> => Head(t) = p[3 - n + 1]
  BY <1>6, Zenon
<1>8. n \in 0 .. 3 /\ (t = <<>> <=> n = 0)
  BY <1>4, <1>5, Zenon
<1> HIDE DEF n
<1>9. /\ n = 3 => Head(t) = OpenTmp("self")
      /\ n = 2 => Head(t) = Flush("self.tmp", 0)
      /\ n = 1 => Head(t) = MvTmp("self")
  BY <1>2, <1>7, <1>8
<1> QED BY <1>4, <1>5, <1>6, <1>9, Zenon DEF p, n

\* The same for the host file of a peer.
LEMMA PeerTable ==
    ASSUME NEW v, NEW t, Ends(t, WriteProgram(v))
    PROVE  /\ Len(t) \in 0 .. 4 /\ (t = <<>> <=> Len(t) = 0)
           /\ t # <<>> => Ends(Tail(t), WriteProgram(v)) /\ Len(Tail(t)) = Len(t) - 1
           /\ Len(t) = 4 => Head(t) = OpenTmp("peer")
           /\ Len(t) = 3 => Head(t) = Flush("peer.tmp", v)
           /\ Len(t) = 2 => Head(t) = MvTmp("peer")
           /\ Len(t) = 1 => Head(t) = Written(v)
<1> DEFINE p == WriteProgram(v)
<1>1. \E S : p \in Seq(S)
  BY PeerOps, Zenon
<1>2. Len(p) = 4 /\ p[1] = OpenTmp("peer") /\ p[2] = Flush("peer.tmp", v) /\ p[3] = MvTmp("peer")
      /\ p[4] = Written(v)
  BY PeerOps, Zenon
<1> HIDE DEF p
<1>3. PICK S : p \in Seq(S)
  BY <1>1, Zenon
<1>4. t = <<>> <=> Len(t) = 0
  BY <1>3, Empties, Zenon DEF p
<1>5. Len(t) \in 0 .. 4
  BY <1>2, Zenon DEF Ends, p
<1>6. t # <<>> => Ends(Tail(t), p) /\ Len(Tail(t)) = Len(t) - 1 /\ Head(t) = p[4 - Len(t) + 1]
  BY <1>2, <1>3, EndsTail, Zenon DEF p
<1> DEFINE n == Len(t)
<1>7. t # <<>> => Head(t) = p[4 - n + 1]
  BY <1>6, Zenon
<1>8. n \in 0 .. 4 /\ (t = <<>> <=> n = 0)
  BY <1>4, <1>5, Zenon
<1> HIDE DEF n
<1>9. /\ n = 4 => Head(t) = OpenTmp("peer")
      /\ n = 3 => Head(t) = Flush("peer.tmp", v)
      /\ n = 2 => Head(t) = MvTmp("peer")
      /\ n = 1 => Head(t) = Written(v)
  BY <1>2, <1>7, <1>8
<1> QED BY <1>4, <1>5, <1>6, <1>9, Zenon DEF p, n

\* The same for write_main_config_files.
LEMMA MainTable ==
    ASSUME NEW v, NEW t, Ends(t, write_main_config_files(v))
    PROVE  /\ Len(t) \in 0 .. 6 /\ (t = <<>> <=> Len(t) = 0)
           /\ t # <<>> => Ends(Tail(t), write_main_config_files(v)) /\ Len(Tail(t)) = Len(t) - 1
           /\ Len(t) = 6 => Head(t) = OpenTmp("main")
           /\ Len(t) = 5 => Head(t) = MvTmp("main")
           /\ Len(t) = 4 => Head(t) = Flush("main", v)
           /\ Len(t) = 3 => Head(t) = OpenTmp("self")
           /\ Len(t) = 2 => Head(t) = Flush("self.tmp", 0)
           /\ Len(t) = 1 => Head(t) = MvTmp("self")
<1> DEFINE p == write_main_config_files(v)
<1>1. \E S : p \in Seq(S)
  BY MainOps, Zenon
<1>2. Len(p) = 6 /\ p[1] = OpenTmp("main") /\ p[2] = MvTmp("main") /\ p[3] = Flush("main", v)
      /\ p[4] = OpenTmp("self") /\ p[5] = Flush("self.tmp", 0) /\ p[6] = MvTmp("self")
  BY MainOps, Zenon
<1> HIDE DEF p
<1>3. PICK S : p \in Seq(S)
  BY <1>1, Zenon
<1>4. t = <<>> <=> Len(t) = 0
  BY <1>3, Empties, Zenon DEF p
<1>5. Len(t) \in 0 .. 6
  BY <1>2, Zenon DEF Ends, p
<1>6. t # <<>> => Ends(Tail(t), p) /\ Len(Tail(t)) = Len(t) - 1 /\ Head(t) = p[6 - Len(t) + 1]
  BY <1>2, <1>3, EndsTail, Zenon DEF p
<1> DEFINE n == Len(t)
<1>7. t # <<>> => Head(t) = p[6 - n + 1]
  BY <1>6, Zenon
<1>8. n \in 0 .. 6 /\ (t = <<>> <=> n = 0)
  BY <1>4, <1>5, Zenon
<1> HIDE DEF n
<1>9. /\ n = 6 => Head(t) = OpenTmp("main")
      /\ n = 5 => Head(t) = MvTmp("main")
      /\ n = 4 => Head(t) = Flush("main", v)
      /\ n = 3 => Head(t) = OpenTmp("self")
      /\ n = 2 => Head(t) = Flush("self.tmp", 0)
      /\ n = 1 => Head(t) = MvTmp("self")
  BY <1>2, <1>7, <1>8
<1> QED BY <1>4, <1>5, <1>6, <1>9, Zenon DEF p, n

\* The same for meshlink_encrypted_key_rotate.
LEMMA RotateTable ==
    ASSUME NEW t, Ends(t, meshlink_encrypted_key_rotate)
    PROVE  /\ Len(t) \in 0 .. 7 /\ (t = <<>> <=> Len(t) = 0)
           /\ t # <<>> => Ends(Tail(t), meshlink_encrypted_key_rotate) /\ Len(Tail(t)) = Len(t) - 1
           /\ Len(t) = 7 => Head(t) = Deltree("new")
           /\ Len(t) = 6 => Head(t) = Mkdir("new")
           /\ Len(t) = 5 => Head(t) = Copy
           /\ Len(t) = 4 => Head(t) = Rename("current", "old")
           /\ Len(t) = 3 => Head(t) = Rename("new", "current")
           /\ Len(t) = 2 => Head(t) = Destroy("old")
           /\ Len(t) = 1 => Head(t) = SetKey
<1> DEFINE p == meshlink_encrypted_key_rotate
<1>1. \E S : p \in Seq(S)
  BY RotateOps, Zenon
<1>2. Len(p) = 7 /\ p[1] = Deltree("new") /\ p[2] = Mkdir("new") /\ p[3] = Copy
      /\ p[4] = Rename("current", "old") /\ p[5] = Rename("new", "current")
      /\ p[6] = Destroy("old") /\ p[7] = SetKey
  BY RotateOps, Zenon
<1> HIDE DEF p
<1>3. PICK S : p \in Seq(S)
  BY <1>1, Zenon
<1>4. t = <<>> <=> Len(t) = 0
  BY <1>3, Empties, Zenon DEF p
<1>5. Len(t) \in 0 .. 7
  BY <1>2, Zenon DEF Ends, p
<1>6. t # <<>> => Ends(Tail(t), p) /\ Len(Tail(t)) = Len(t) - 1 /\ Head(t) = p[7 - Len(t) + 1]
  BY <1>2, <1>3, EndsTail, Zenon DEF p
<1> DEFINE n == Len(t)
<1>7. t # <<>> => Head(t) = p[7 - n + 1]
  BY <1>6, Zenon
<1>8. n \in 0 .. 7 /\ (t = <<>> <=> n = 0)
  BY <1>4, <1>5, Zenon
<1> HIDE DEF n
<1>9. /\ n = 7 => Head(t) = Deltree("new")
      /\ n = 6 => Head(t) = Mkdir("new")
      /\ n = 5 => Head(t) = Copy
      /\ n = 4 => Head(t) = Rename("current", "old")
      /\ n = 3 => Head(t) = Rename("new", "current")
      /\ n = 2 => Head(t) = Destroy("old")
      /\ n = 1 => Head(t) = SetKey
  BY <1>2, <1>7, <1>8
<1> QED BY <1>4, <1>5, <1>6, <1>9, Zenon DEF p, n

\* The same for meshlink_confbase_exists.
LEMMA RestoreTable ==
    ASSUME NEW d, NEW t, Ends(t, Restore(d))
    PROVE  /\ Len(t) \in 0 .. 4 /\ (t = <<>> <=> Len(t) = 0)
           /\ t # <<>> => Ends(Tail(t), Restore(d)) /\ Len(Tail(t)) = Len(t) - 1
           /\ Len(t) = 4 => Head(t) = Destroy("current")
           /\ Len(t) = 3 => Head(t) = Rename(d, "current")
           /\ Len(t) = 2 => Head(t) = Destroy("old")
           /\ Len(t) = 1 => Head(t) = Destroy("new")
<1> DEFINE p == Restore(d)
<1>1. \E S : p \in Seq(S)
  BY RestoreOps, Zenon
<1>2. Len(p) = 4 /\ p[1] = Destroy("current") /\ p[2] = Rename(d, "current")
      /\ p[3] = Destroy("old") /\ p[4] = Destroy("new")
  BY RestoreOps, Zenon
<1> HIDE DEF p
<1>3. PICK S : p \in Seq(S)
  BY <1>1, Zenon
<1>4. t = <<>> <=> Len(t) = 0
  BY <1>3, Empties, Zenon DEF p
<1>5. Len(t) \in 0 .. 4
  BY <1>2, Zenon DEF Ends, p
<1>6. t # <<>> => Ends(Tail(t), p) /\ Len(Tail(t)) = Len(t) - 1 /\ Head(t) = p[4 - Len(t) + 1]
  BY <1>2, <1>3, EndsTail, Zenon DEF p
<1> DEFINE n == Len(t)
<1>7. t # <<>> => Head(t) = p[4 - n + 1]
  BY <1>6, Zenon
<1>8. n \in 0 .. 4 /\ (t = <<>> <=> n = 0)
  BY <1>4, <1>5, Zenon
<1> HIDE DEF n
<1>9. /\ n = 4 => Head(t) = Destroy("current")
      /\ n = 3 => Head(t) = Rename(d, "current")
      /\ n = 2 => Head(t) = Destroy("old")
      /\ n = 1 => Head(t) = Destroy("new")
  BY <1>2, <1>7, <1>8
<1> QED BY <1>4, <1>5, <1>6, <1>9, Zenon DEF p, n

\* A disk step does the operation that is next.
LEMMA Picks ==
    ASSUME DiskStep
    PROVE  /\ todo # <<>>
           /\ Head(todo).op = "destroy" => DoDestroy
           /\ Head(todo).op = "deltree" => DoDeltree
           /\ Head(todo).op = "mkdir" => DoMkdir
           /\ Head(todo).op = "rename" => DoRename
           /\ Head(todo).op = "copy" => DoCopy
           /\ Head(todo).op = "opentmp" => DoOpenTmp
           /\ Head(todo).op = "flush" => DoFlush
           /\ Head(todo).op = "mvtmp" => DoMvTmp
           /\ Head(todo).op = "setkey" => DoSetKey
           /\ Head(todo).op = "written" => DoWritten
<1>1. /\ DoDestroy => Doing("destroy")
      /\ DoDeltree => Doing("deltree")
      /\ DoMkdir => Doing("mkdir")
      /\ DoRename => Doing("rename")
      /\ DoCopy => Doing("copy")
      /\ DoOpenTmp => Doing("opentmp")
      /\ DoFlush => Doing("flush")
      /\ DoMvTmp => Doing("mvtmp")
      /\ DoSetKey => Doing("setkey")
      /\ DoWritten => Doing("written")
  BY Zenon
     DEF DoDestroy, DoDeltree, DoMkdir, DoRename, DoCopy, DoOpenTmp, DoFlush, DoMvTmp, DoSetKey,
         DoWritten
<1> QED BY <1>1, Zenon DEF DiskStep, Doing

-----------------------------------------------------------------------------
\* Disk operations: what each of them does.

\* A directory of the store.
Dir == [made : BOOLEAN, file : [Names -> Contents]]

\* The disk is well-formed: no directory that is not there has files.
DiskOK == disk \in [Dirs -> Dir] /\ \A d \in Dirs : ~disk[d].made => disk[d].file = NoFiles

\* File n of directory d gets the contents c.
Sets(d, n, c) ==
    /\ DiskOK'
    /\ \A e \in Dirs : e # d => disk'[e] = disk[e]
    /\ disk'[d].made = disk[d].made
    /\ disk'[d].file[n] = c
    /\ \A m \in Names : m # n => disk'[d].file[m] = disk[d].file[m]

\* Directory d becomes x.
Becomes(d, x) ==
    /\ DiskOK'
    /\ \A e \in Dirs : e # d => disk'[e] = disk[e]
    /\ disk'[d] = x

\* A directory that does not exist, or has just been made, has no files.
LEMMA GoneDir ==
    /\ Gone \in Dir /\ ~Gone.made /\ Gone.file = NoFiles
    /\ \A n \in Names : Gone.file[n] = None /\ NoFiles[n] = None
    /\ [Gone EXCEPT !.made = TRUE] \in Dir
    /\ [Gone EXCEPT !.made = TRUE].made
    /\ [Gone EXCEPT !.made = TRUE].file = NoFiles
BY Zenon DEF Gone, NoFiles, Dir, Contents

\* Creating, writing or removing one file of a directory.
LEMMA SetsFile ==
    ASSUME DiskOK, NEW d \in Dirs, NEW n \in Names, NEW c \in Contents,
           disk' = [disk EXCEPT ![d] = [disk[d] EXCEPT !.file[n] = c]],
           disk[d].made \/ c = None
    PROVE  Sets(d, n, c)
<1> DEFINE x == [disk[d] EXCEPT !.file[n] = c]
<1>1. disk[d] \in Dir /\ disk \in [Dirs -> Dir]
  BY Zenon DEF DiskOK
<1>2. /\ x \in Dir /\ x.made = disk[d].made /\ x.file[n] = c
      /\ \A m \in Names : m # n => x.file[m] = disk[d].file[m]
  BY <1>1, Zenon DEF Dir
<1>3. ~x.made => x.file = NoFiles
  <2>1. SUFFICES ASSUME ~x.made PROVE x.file = NoFiles
    BY Zenon
  <2>2. c = None /\ disk[d].file = NoFiles
    BY <2>1, <1>2, Zenon DEF DiskOK
  <2>3. x.file \in [Names -> Contents] /\ \A m \in Names : x.file[m] = None
    BY <1>2, <2>2, GoneDir, Zenon DEF Dir
  <2> HIDE DEF x
  <2> QED BY <2>3, Zenon DEF NoFiles
<1> HIDE DEF x
<1>4. disk' = [disk EXCEPT ![d] = x]
  BY Zenon DEF x
<1>5. disk' \in [Dirs -> Dir] /\ disk'[d] = x /\ \A e \in Dirs : e # d => disk'[e] = disk[e]
  BY <1>1, <1>2, <1>4, Zenon
<1>6. \A e \in Dirs : ~disk'[e].made => disk'[e].file = NoFiles
  BY <1>3, <1>5, Zenon DEF DiskOK
<1> QED BY <1>2, <1>5, <1>6, Zenon DEF Sets, DiskOK

\* Making or removing a directory.
LEMMA BecomesDir ==
    ASSUME DiskOK, NEW d \in Dirs, NEW x \in Dir, ~x.made => x.file = NoFiles,
           disk' = [disk EXCEPT ![d] = x]
    PROVE  Becomes(d, x)
<1>5. disk' \in [Dirs -> Dir] /\ disk'[d] = x /\ \A e \in Dirs : e # d => disk'[e] = disk[e]
  BY Zenon DEF DiskOK
<1>6. \A e \in Dirs : ~disk'[e].made => disk'[e].file = NoFiles
  BY <1>5, Zenon DEF DiskOK
<1> QED BY <1>5, <1>6, Zenon DEF Becomes, DiskOK
\* Everything but the disk and what is left to do.
rest == <<mode, key, newkey, id, ids, keys, tried, fails, newFirst, counts, saved, ident>>

\* The operation is not complete.
Stays == UNCHANGED <<todo, rest>>

\* It is complete and the call goes on.
Steps == todo' = Tail(todo) /\ UNCHANGED rest

\* The fsync at its end fails.
SyncFails == /\ fails' = fails + 1 /\ fails' <= MaxFail /\ Failed
             /\ UNCHANGED <<key, newkey, newFirst, counts>>

\* After an operation that ends with sync_path the call goes on, or fails.
LEMMA SyncedEffect ==
    ASSUME TypeOK, Synced, UNCHANGED <<key, newkey, newFirst, counts>>
    PROVE  Steps \/ SyncFails
BY DEF TypeOK, Synced, Done, Steps, SyncFails, rest, app

\* The disk is well-formed.
LEMMA TypeDisk ==
    ASSUME TypeOK
    PROVE  DiskOK
BY Zenon DEF TypeOK, DiskOK, Dir

\* A step that changes nothing but the disk and what is left to do preserves the

\* type invariant.
LEMMA TypeStays ==
    ASSUME TypeOK, DiskOK', Stays \/ Steps
    PROVE  TypeOK'
BY Zenon DEF TypeOK, DiskOK, Stays, Steps, rest, Dir

\* config_destroy removes one file, meshlink.conf first, or the empty directory.
LEMMA DestroyEffect ==
    ASSUME TypeOK, DiskStep, newFirst' = newFirst, NEW d \in Dirs, Head(todo) = Destroy(d)
    PROVE  \/ \E n \in Names : Sets(d, n, None) /\ Stays /\ (n = "main" \/ ~Holds(d, "main"))
           \/ Becomes(d, Gone) /\ Steps /\ \A n \in Names : ~Holds(d, n)
           \/ Becomes(d, Gone) /\ SyncFails /\ \A n \in Names : ~Holds(d, n)
<1>1. DoDestroy /\ Head(todo).dir = d
  BY Picks DEF Destroy
<1>2. DiskOK
  BY TypeDisk, Zenon
<1> DEFINE left == {n \in Names : File(d, n) # None}
<1>3. None \in Contents /\ "main" \in Names
  BY Zenon DEF Contents, Names
<1>4. ASSUME NEW n \in Names, Put(d, [disk[d] EXCEPT !.file[n] = None])
      PROVE  Sets(d, n, None)
  BY <1>2, <1>3, <1>4, SetsFile, Zenon DEF Put
<1>5. Put(d, Gone) => Becomes(d, Gone)
  BY <1>2, GoneDir, BecomesDir, Zenon DEF Put
<1>6. CASE "main" \in left
  <2>1. Put(d, [disk[d] EXCEPT !.file["main"] = None]) /\ Stays
    BY <1>1, <1>6, Zenon DEF DoDestroy, Stays, rest, app
  <2> QED BY <2>1, <1>4, <1>3, Zenon
<1>7. CASE /\ "main" \notin left /\ left # {}
           /\ \E n \in left : Put(d, [disk[d] EXCEPT !.file[n] = None])
                                           /\ Stays
  BY <1>7, <1>4, <1>3, Zenon DEF Holds
<1>8. CASE /\ left = {} /\ Put(d, Gone) /\ (Synced \/ (Done /\ fails' = fails))
           /\ UNCHANGED <<key, newkey, counts>>
  <2>1. Steps \/ SyncFails
    BY <1>8, SyncedEffect, Zenon DEF Steps, Done, rest, app
  <2> QED BY <2>1, <1>5, <1>8, Zenon DEF Holds
<1>9. <1>6!1 \/ <1>7!1 \/ <1>8!1
  BY <1>1, Zenon DEF DoDestroy, Stays, rest, app
<1> QED BY <1>6, <1>7, <1>8, <1>9, Zenon

\* deltree removes one file, or the empty directory.
LEMMA DeltreeEffect ==
    ASSUME TypeOK, DiskStep, newFirst' = newFirst, NEW d \in Dirs, Head(todo) = Deltree(d)
    PROVE  \/ \E n \in Names : Sets(d, n, None) /\ Stays
           \/ Becomes(d, Gone) /\ Steps
<1>1. DoDeltree /\ Head(todo).dir = d
  BY Picks DEF Deltree
<1>2. DiskOK
  BY TypeDisk, Zenon
<1>3. None \in Contents
  BY Zenon DEF Contents
<1>4. ASSUME NEW n \in Names, Put(d, [disk[d] EXCEPT !.file[n] = None])
      PROVE  Sets(d, n, None)
  BY <1>2, <1>3, <1>4, SetsFile, Zenon DEF Put
<1>5. Put(d, Gone) => Becomes(d, Gone)
  BY <1>2, GoneDir, BecomesDir, Zenon DEF Put
<1>6. \/ \E n \in Names : Put(d, [disk[d] EXCEPT !.file[n] = None]) /\ Stays
      \/ Put(d, Gone) /\ Steps
  BY <1>1, Zenon DEF DoDeltree, Stays, Steps, Done, rest, app
<1> QED BY <1>4, <1>5, <1>6, Zenon

\* mkdir makes an empty directory.
LEMMA MkdirEffect ==
    ASSUME TypeOK, DiskStep, newFirst' = newFirst, NEW d \in Dirs, Head(todo) = Mkdir(d)
    PROVE  Becomes(d, [Gone EXCEPT !.made = TRUE]) /\ Steps
<1>1. DoMkdir /\ Head(todo).dir = d
  BY Picks DEF Mkdir
<1>2. Put(d, [Gone EXCEPT !.made = TRUE]) /\ Steps
  BY <1>1, Zenon DEF DoMkdir, Steps, Done, rest, app
<1> QED BY <1>2, TypeDisk, GoneDir, BecomesDir, Zenon DEF Put

\* fopen of a temporary file in current leaves it empty.
LEMMA OpenTmpEffect ==
    ASSUME TypeOK, DiskStep, newFirst' = newFirst, NEW f \in {"main", "self", "peer"},
           Head(todo) = OpenTmp(f), disk["current"].made
    PROVE  Sets("current", Tmp[f], Empty) /\ Steps
<1>1. DoOpenTmp /\ Head(todo).f = f
  BY Picks DEF OpenTmp
<1>2. Put("current", [disk["current"] EXCEPT !.file[Tmp[f]] = Empty]) /\ Steps
  BY <1>1, Zenon DEF DoOpenTmp, Steps, Done, rest, app
<1>3. Empty \in Contents /\ Tmp[f] \in Names /\ "current" \in Dirs
  BY DEF Contents, Tmp, Names, Dirs, Hosts
<1> QED BY <1>2, <1>3, TypeDisk, SetsFile, Zenon DEF Put

\* fclose leaves the contents with the key of the handle.
LEMMA FlushEffect ==
    ASSUME TypeOK, DiskStep, newFirst' = newFirst, NEW n \in Names, NEW v \in Nat,
           Head(todo) = Flush(n, v), disk["current"].made, key \in Keys
    PROVE  /\ Sets("current", n, [key |-> key, val |-> v]) /\ Steps
           /\ [key |-> key, val |-> v] \notin {None, Empty}
<1>1. DoFlush /\ Head(todo).n = n /\ Head(todo).v = v
  BY Picks DEF Flush
<1>2. Put("current", [disk["current"] EXCEPT !.file[n] = [key |-> key, val |-> v]]) /\ Steps
  BY <1>1, Zenon DEF DoFlush, Steps, Done, rest, app
<1>3. [key |-> key, val |-> v] \in Contents /\ "current" \in Dirs
  BY Zenon DEF Contents, Dirs
<1>4. [key |-> key, val |-> v] \notin {None, Empty}
  BY FilesAssumption
<1> QED BY <1>2, <1>3, <1>4, TypeDisk, SetsFile, Zenon DEF Put

\* The temporary file of f replaces it.
Moves(f) ==
    /\ DiskOK'
    /\ \A e \in Dirs : e # "current" => disk'[e] = disk[e]
    /\ disk'["current"].made = disk["current"].made
    /\ disk'["current"].file[f] = File("current", Tmp[f])
    /\ disk'["current"].file[Tmp[f]] = None
    /\ \A m \in Names : m \notin {f, Tmp[f]} => disk'["current"].file[m] = disk["current"].file[m]

\* A directory is moved.
Moved(from, to) ==
    /\ DiskOK'
    /\ disk'[to] = disk[from] /\ disk'[from] = Gone
    /\ \A e \in Dirs : e \notin {from, to} => disk'[e] = disk[e]

\* The call returns false.
CallFails == Failed /\ UNCHANGED <<disk, fails, key, newkey, newFirst, counts>>

\* rename of the temporary file replaces the file.
LEMMA MvTmpEffect ==
    ASSUME TypeOK, DiskStep, newFirst' = newFirst, NEW f \in {"main", "self", "peer"},
           Head(todo) = MvTmp(f)
    PROVE  Moves(f) /\ Steps
<1> DEFINE d == "current"
           x == [disk[d] EXCEPT !.file[f] = File(d, Tmp[f]), !.file[Tmp[f]] = None]
<1>1. DoMvTmp /\ Head(todo).f = f
  BY Picks DEF MvTmp
<1>2. Put(d, x) /\ Steps
  BY <1>1, Zenon DEF DoMvTmp, Steps, Done, rest, app
<1>3. f \in Names /\ Tmp[f] \in Names /\ f # Tmp[f] /\ d \in Dirs /\ None \in Contents
  BY DEF Contents, Tmp, Names, Dirs, Hosts
<1>4. DiskOK /\ disk[d] \in Dir /\ File(d, Tmp[f]) \in Contents
  BY <1>3, TypeDisk, Zenon DEF DiskOK, Dir, File
<1>5. /\ x \in Dir /\ x.made = disk[d].made /\ x.file[f] = File(d, Tmp[f]) /\ x.file[Tmp[f]] = None
      /\ \A m \in Names : m \notin {f, Tmp[f]} => x.file[m] = disk[d].file[m]
  BY <1>3, <1>4, Zenon DEF Dir
<1>6. ~x.made => x.file = NoFiles
  <2>1. SUFFICES ASSUME ~x.made PROVE x.file = NoFiles
    BY Zenon
  <2>2. disk[d].file = NoFiles
    BY <1>3, <1>4, <1>5, <2>1, Zenon DEF DiskOK
  <2>3. x.file \in [Names -> Contents] /\ \A m \in Names : x.file[m] = None
    BY <1>3, <1>5, <2>2, GoneDir DEF Dir, File
  <2> HIDE DEF x
  <2> QED BY <2>3, Zenon DEF NoFiles
<1> HIDE DEF x
<1>7. Becomes(d, x)
  BY <1>2, <1>3, <1>4, <1>5, <1>6, BecomesDir, Zenon DEF Put
<1> QED BY <1>2, <1>5, <1>7, Zenon DEF Becomes, Moves

\* config_rename moves a directory, or fails because there is none or the target

\* exists.
LEMMA RenameEffect ==
    ASSUME TypeOK, DiskStep, newFirst' = newFirst, NEW from \in Dirs, NEW to \in Dirs, from # to,
           Head(todo) = Rename(from, to)
    PROVE  \/ disk[from].made /\ ~disk[to].made /\ Moved(from, to) /\ (Steps \/ SyncFails)
           \/ ~(disk[from].made /\ ~disk[to].made) /\ CallFails
<1>1. DoRename /\ Head(todo).from = from /\ Head(todo).to = to
  BY Picks DEF Rename
<1>2. CASE disk[from].made /\ ~disk[to].made
  <2>1. disk' = [disk EXCEPT ![to] = disk[from], ![from] = Gone] /\ Synced
        /\ UNCHANGED <<key, newkey, counts>>
    BY <1>1, <1>2, Zenon DEF DoRename
  <2>2. Steps \/ SyncFails
    BY <2>1, SyncedEffect, Zenon
  <2>3. /\ disk' \in [Dirs -> Dir] /\ disk'[to] = disk[from] /\ disk'[from] = Gone
        /\ \A e \in Dirs : e \notin {from, to} => disk'[e] = disk[e]
    BY <2>1, TypeDisk, GoneDir, Zenon DEF DiskOK
  <2>4. DiskOK'
    BY <2>3, TypeDisk, GoneDir DEF DiskOK
  <2> QED BY <1>2, <2>2, <2>3, <2>4, Zenon DEF Moved
<1>3. CASE ~(disk[from].made /\ ~disk[to].made)
  BY <1>1, <1>3, Zenon DEF DoRename, CallFails
<1> QED BY <1>2, <1>3, Zenon

\* config_copy fills a file of new that it has opened, opens the next, fails because

\* it cannot read one (or there is no current), or has copied all.
LEMMA CopyEffect ==
    ASSUME TypeOK, DiskStep, newFirst' = newFirst, Head(todo) = Copy,
           disk["new"].made, newkey \in Keys,
           \A n \in Names : Holds("new", n) => Readable(File("current", n), key)
    PROVE  \/ \E n \in Names : /\ File("new", n) = Empty
                               /\ Sets("new", n, Copied(File("current", n))) /\ Stays
                               /\ Copied(File("current", n)) \notin {None, Empty}
           \/ \E n \in Names : /\ Readable(File("current", n), key) /\ ~Holds("new", n)
                               /\ Sets("new", n, Empty) /\ Stays
           \/ /\ CallFails
              /\ \/ ~disk["current"].made
                 \/ \E n \in Names : Holds("current", n) /\ ~Readable(File("current", n), key)
           \/ /\ Steps /\ disk' = disk /\ disk["current"].made
              /\ \A n \in Names : File("new", n) # Empty /\ (Holds("current", n) => Holds("new", n))
<1> DEFINE src == disk["current"].file
           dst == disk["new"].file
           left == {n \in Names : src[n] # None /\ dst[n] = None}
           open == {n \in Names : dst[n] = Empty}
<1>1. DoCopy
  BY Picks DEF Copy
<1>2. DiskOK /\ "new" \in Dirs /\ "current" \in Dirs /\ Empty \in Contents
  BY TypeDisk, Zenon DEF Dirs, Contents
<1>3. \/ \E n \in open : Put("new", [disk["new"] EXCEPT !.file[n] = Copied(src[n])]) /\ Stays
      \/ \E n \in left : /\ Readable(src[n], key) /\ Stays
                         /\ Put("new", [disk["new"] EXCEPT !.file[n] = Empty])
      \/ \E n \in left : ~Readable(src[n], key) /\ CallFails
      \/ open = {} /\ left = {} /\ disk' = disk /\ Steps /\ disk["current"].made
      \/ ~disk["current"].made /\ CallFails
  BY <1>1, Zenon DEF DoCopy, Stays, Steps, CallFails, Done, rest, app
<1>4. ASSUME NEW n \in open, Put("new", [disk["new"] EXCEPT !.file[n] = Copied(src[n])]), Stays
      PROVE  /\ File("new", n) = Empty /\ Sets("new", n, Copied(File("current", n)))
             /\ Copied(File("current", n)) \notin {None, Empty}
  <2>1. Readable(src[n], key) /\ dst[n] = Empty
    BY FilesAssumption, Zenon DEF Holds, File
  <2>2. src[n] \in [key : Keys, val : Nat]
    BY <1>2, <2>1, Zenon DEF DiskOK, Dir, Contents, Readable
  <2>3. Copied(src[n]) \in [key : Keys, val : Nat]
    BY <2>2, Zenon DEF Copied
  <2>4. Copied(src[n]) \in Contents /\ Copied(src[n]) \notin {None, Empty}
    BY <2>3, FilesAssumption, Zenon DEF Contents
  <2>5. disk' = [disk EXCEPT !["new"] = [disk["new"] EXCEPT !.file[n] = Copied(src[n])]]
    BY <1>4, Zenon DEF Put
  <2>6. Sets("new", n, Copied(src[n]))
    BY <1>2, <2>4, <2>5, SetsFile, Zenon
  <2> QED BY <2>1, <2>4, <2>6, Zenon DEF File
<1>5. ASSUME NEW n \in left, Put("new", [disk["new"] EXCEPT !.file[n] = Empty])
      PROVE  Sets("new", n, Empty) /\ ~Holds("new", n)
  BY <1>2, <1>5, SetsFile, Zenon DEF Put, Holds, File
<1>6. ASSUME NEW n \in left
      PROVE  n \in Names /\ Holds("current", n)
  BY Zenon DEF Holds, File
<1>7. open = {} /\ left = {} =>
        \A n \in Names : File("new", n) # Empty /\ (Holds("current", n) => Holds("new", n))
  BY Zenon DEF Holds, File
<1> QED BY <1>3, <1>4, <1>5, <1>6, <1>7, Zenon DEF File

\* The rotation changes nothing but the key of the handle in its last operation.
LEMMA SetKeyEffect ==
    ASSUME DiskStep, newFirst' = newFirst, Head(todo) = SetKey
    PROVE  /\ key' = newkey /\ disk' = disk /\ todo' = Tail(todo)
           /\ UNCHANGED <<mode, newkey, id, ids, keys, tried, fails, newFirst, counts, saved,
                          ident>>
<1>1. DoSetKey
  BY Picks DEF SetKey
<1> QED BY <1>1, Zenon DEF DoSetKey, Done, app

\* The end of config_write changes nothing on disk.
LEMMA WrittenEffect ==
    ASSUME DiskStep, newFirst' = newFirst, NEW v, Head(todo) = Written(v)
    PROVE  /\ saved' = v /\ disk' = disk /\ todo' = Tail(todo)
           /\ UNCHANGED <<mode, key, newkey, id, ids, keys, tried, fails, newFirst, counts, ident>>
<1>1. DoWritten /\ Head(todo).v = v
  BY Picks DEF Written
<1> QED BY <1>1, Zenon DEF DoWritten, handle

\* fopen fails in a directory that is not there.
LEMMA OpenTmpFails ==
    ASSUME DiskStep, newFirst' = newFirst, NEW f, Head(todo) = OpenTmp(f), ~disk["current"].made
    PROVE  CallFails
<1>1. DoOpenTmp
  BY Picks DEF OpenTmp
<1> QED BY <1>1, Zenon DEF DoOpenTmp, CallFails

-----------------------------------------------------------------------------
\* Identities in meshlink.conf.

\* MainValues for one directory.
Values(dir) ==
    /\ dir.file["main"] \in {None, Empty} \/ dir.file["main"].val \in 1 .. ids
    /\ dir.file["main.tmp"] \in {None, Empty}

\* The operations of the programs.
Ops ==
    \/ \E d \in Dirs : Head(todo) \in {Destroy(d), Deltree(d), Mkdir(d)}
    \/ \E from, to \in Dirs : from # to /\ Head(todo) = Rename(from, to)
    \/ Head(todo) = Copy /\ mode = "rotate" /\ Left = 5
    \/ \E f \in {"main", "self", "peer"} : Head(todo) \in {OpenTmp(f), MvTmp(f)}
    \/ Head(todo) = Flush("main", id) /\ mode \in {"setup", "write"}
    \/ \E n \in {"self.tmp", "peer.tmp"}, v \in Nat : Head(todo) = Flush(n, v)
    \/ Head(todo) = SetKey
    \/ \E v : Head(todo) = Written(v)

\* The operations that can be next, and when.
LEMMA NextOp ==
    ASSUME StoreInv, todo # <<>>
    PROVE  Ops /\ mode \in {"setup", "recover", "finish", "write", "rotate"}
<1> DEFINE n == Len(todo)
<1>1. mode \in {"setup", "recover", "finish", "write", "rotate"}
  BY Zenon DEF StoreInv, TypeOK, IsDown, IsLost, IsUp
<1>2. {"current", "new", "old"} \subseteq Dirs /\ "new" # "current" /\ "old" # "current"
  BY Zenon DEF Dirs
<1>3. CASE mode = "setup"
  <2>1. Ends(todo, meshlink_setup(id))
    BY <1>3, Zenon DEF StoreInv, IsSetup
  <2>2. n \in 0 .. 13 /\ n # 0
    <3>1. n \in 0 .. 13
      BY <2>1, SetupTable, Zenon
    <3>2. n # 0
      BY <2>1, SetupTable
    <3> QED BY <3>1, <3>2, Zenon
  <2>3. /\ n = 13 => Head(todo) = Destroy("new")
        /\ n = 12 => Head(todo) = Destroy("old")
        /\ n = 11 => Head(todo) = Deltree("current")
        /\ n = 10 => Head(todo) = Mkdir("current")
        /\ n = 9 => Head(todo) = OpenTmp("main")
        /\ n = 8 => Head(todo) = MvTmp("main")
        /\ n = 7 => Head(todo) = Flush("main", id)
        /\ n \in {3, 6} => Head(todo) = OpenTmp("self")
        /\ n \in {2, 5} => Head(todo) = Flush("self.tmp", 0)
        /\ n \in {1, 4} => Head(todo) = MvTmp("self")
    BY <2>1, SetupTable, Zenon
  <2> HIDE DEF n
  <2> QED BY <1>1, <1>2, <1>3, <2>2, <2>3 DEF Ops
<1>4. CASE mode = "recover"
  <2>1. PICK r \in {"new", "old"} : Ends(todo, Restore(r))
    BY <1>4, Zenon DEF StoreInv, IsRecover
  <2>2. n \in 0 .. 4 /\ n # 0
    <3>1. n \in 0 .. 4
      BY <2>1, RestoreTable, Zenon
    <3>2. n # 0
      BY <2>1, RestoreTable
    <3> QED BY <3>1, <3>2, Zenon
  <2>3. /\ n = 4 => Head(todo) = Destroy("current")
        /\ n = 3 => Head(todo) = Rename(r, "current")
        /\ n = 2 => Head(todo) = Destroy("old")
        /\ n = 1 => Head(todo) = Destroy("new")
    BY <2>1, RestoreTable, Zenon
  <2> HIDE DEF n
  <2> QED BY <1>1, <1>2, <2>1, <2>2, <2>3 DEF Ops
<1>5. CASE mode = "finish"
  <2>1. Ends(todo, config_write("self", 0))
    BY <1>5, Zenon DEF StoreInv, IsFinish
  <2>2. n \in 0 .. 3 /\ n # 0
    BY <2>1, SelfTable, Zenon
  <2>3. /\ n = 3 => Head(todo) = OpenTmp("self")
        /\ n = 2 => Head(todo) = Flush("self.tmp", 0)
        /\ n = 1 => Head(todo) = MvTmp("self")
    BY <2>1, SelfTable, Zenon
  <2> HIDE DEF n
  <2> QED BY <1>1, <2>2, <2>3 DEF Ops
<1>6. CASE mode = "write" /\ WritesPeer
  <2>1. Ends(todo, WriteProgram(counts.writes)) /\ counts.writes \in Nat
    BY <1>6, Zenon DEF StoreInv, WritesPeer, TypeOK
  <2>2. n \in 0 .. 4 /\ n # 0
    <3>1. n \in 0 .. 4
      BY <2>1, PeerTable, Zenon
    <3>2. n # 0
      BY <2>1, PeerTable
    <3> QED BY <3>1, <3>2, Zenon
  <2>3. /\ n = 4 => Head(todo) = OpenTmp("peer")
        /\ n = 3 => Head(todo) = Flush("peer.tmp", counts.writes)
        /\ n = 2 => Head(todo) = MvTmp("peer")
        /\ n = 1 => Head(todo) = Written(counts.writes)
    BY <2>1, PeerTable, Zenon
  <2> HIDE DEF n
  <2> QED BY <1>1, <2>1, <2>2, <2>3 DEF Ops
<1>7. CASE mode = "write" /\ WritesMain
  <2>1. Ends(todo, write_main_config_files(id))
    BY <1>7, Zenon DEF StoreInv, WritesMain
  <2>2. n \in 0 .. 6 /\ n # 0
    <3>1. n \in 0 .. 6
      BY <2>1, MainTable, Zenon
    <3>2. n # 0
      BY <2>1, MainTable
    <3> QED BY <3>1, <3>2, Zenon
  <2>3. /\ n = 6 => Head(todo) = OpenTmp("main")
        /\ n = 5 => Head(todo) = MvTmp("main")
        /\ n = 4 => Head(todo) = Flush("main", id)
        /\ n = 3 => Head(todo) = OpenTmp("self")
        /\ n = 2 => Head(todo) = Flush("self.tmp", 0)
        /\ n = 1 => Head(todo) = MvTmp("self")
    BY <2>1, MainTable, Zenon
  <2> HIDE DEF n
  <2> QED BY <1>1, <1>7, <2>2, <2>3 DEF Ops
<1>8. CASE mode = "rotate"
  <2>1. Ends(todo, meshlink_encrypted_key_rotate)
    BY <1>8, Zenon DEF StoreInv, IsRotate
  <2>2. n \in 0 .. 7 /\ n # 0 /\ Left = n
    BY <2>1, RotateTable, Zenon DEF Left
  <2>3. /\ n = 7 => Head(todo) = Deltree("new")
        /\ n = 6 => Head(todo) = Mkdir("new")
        /\ n = 5 => Head(todo) = Copy
        /\ n = 4 => Head(todo) = Rename("current", "old")
        /\ n = 3 => Head(todo) = Rename("new", "current")
        /\ n = 2 => Head(todo) = Destroy("old")
        /\ n = 1 => Head(todo) = SetKey
    BY <2>1, RotateTable, Zenon
  <2> HIDE DEF n
  <2> QED BY <1>1, <1>2, <1>8, <2>2, <2>3 DEF Ops
<1>9. mode = "write" => WritesPeer \/ WritesMain
  BY Zenon DEF StoreInv, IsWrite
<1> QED BY <1>1, <1>3, <1>4, <1>5, <1>6, <1>7, <1>8, <1>9, Zenon

\* A step that makes an identity only for meshlink_setup preserves MainValues.
LEMMA ValuesNext ==
    ASSUME StoreInv, MainValues, \A d \in Dirs : Values(disk'[d]),
           \/ ids' = ids /\ id' = id /\ mode' \in {mode, "down", "lost"}
           \/ mode' = "up" /\ mode \in {"write", "rotate"} /\ id' = id /\ ids' = ids
           \/ mode' = "setup" /\ ids' = ids + 1
    PROVE  MainValues'
<1>1. ids \in Nat /\ ids' \in Nat /\ ids <= ids'
  BY DEF StoreInv, TypeOK
<1>2. \A x \in 1 .. ids : x \in 1 .. ids'
  BY <1>1
<1>3. mode' \in {"finish", "up", "write", "rotate"} => id' # 0
  BY Zenon DEF MainValues
<1> QED BY <1>2, <1>3, Zenon DEF MainValues, Values, File

\* MainValues, directory by directory.
LEMMA ValuesNow ==
    ASSUME MainValues
    PROVE  \A d \in Dirs : Values(disk[d])
BY Zenon DEF MainValues, Values, File

\* Creating, removing or writing a file with an identity that was made preserves it.
LEMMA ValuesSets ==
    ASSUME MainValues, NEW d \in Dirs, NEW n \in Names, NEW c, Sets(d, n, c),
           n = "main" => c \in {None, Empty} \/ c.val \in 1 .. ids,
           n = "main.tmp" => c \in {None, Empty}
    PROVE  \A e \in Dirs : Values(disk'[e])
<1>1. "main" \in Names /\ "main.tmp" \in Names
  BY Zenon DEF Names
<1> QED BY <1>1, ValuesNow, Zenon DEF Values, Sets

\* So does making or removing a directory.
LEMMA ValuesGone ==
    ASSUME MainValues, NEW d \in Dirs, NEW x, Becomes(d, x), x.file = NoFiles
    PROVE  \A e \in Dirs : Values(disk'[e])
<1>1. "main" \in Names /\ "main.tmp" \in Names
  BY Zenon DEF Names
<1>2. Values(x)
  BY <1>1, GoneDir, Zenon DEF Values
<1> QED BY <1>2, ValuesNow, Zenon DEF Becomes

\* So does the failure of a call.
LEMMA ValuesFailed ==
    ASSUME StoreInv, MainValues, todo # <<>>, Failed, \A d \in Dirs : Values(disk'[d])
    PROVE  MainValues'
<1>1. mode \in {"setup", "recover", "finish", "write", "rotate"}
  BY NextOp, Zenon
<1>2. CASE mode = "recover"
  BY <1>2, ValuesNext, Zenon DEF Failed, Setup
<1>3. CASE mode \in {"setup", "finish"}
  BY <1>3, ValuesNext, Zenon DEF Failed, OpenFails
<1>4. CASE mode \in {"write", "rotate"}
  BY <1>4, ValuesNext, Zenon DEF Failed
<1> QED BY <1>1, <1>2, <1>3, <1>4, Zenon

\* Every disk step preserves MainValues.
LEMMA ValuesStep ==
    ASSUME StoreInv, MainValues, DiskStep, newFirst' = newFirst
    PROVE  MainValues'
<1>1. TypeOK /\ todo # <<>> /\ Ops
  BY Picks, NextOp, Zenon DEF StoreInv
<1>2. Stays \/ Steps => ids' = ids /\ id' = id /\ mode' = mode
  BY Zenon DEF Stays, Steps, rest
<1>3. ASSUME Stays \/ Steps, \A d \in Dirs : Values(disk'[d])
      PROVE  MainValues'
  BY <1>2, <1>3, ValuesNext, Zenon
<1>4. ASSUME SyncFails \/ CallFails, \A d \in Dirs : Values(disk'[d])
      PROVE  MainValues'
  BY <1>1, <1>4, ValuesFailed, Zenon DEF SyncFails, CallFails
<1>5. disk' = disk => \A d \in Dirs : Values(disk'[d])
  BY ValuesNow, Zenon
<1>6. "main" \in Names /\ "main.tmp" \in Names /\ "current" \in Dirs /\ "new" \in Dirs
  BY Zenon DEF Names, Dirs
<1>7. ASSUME NEW d \in Dirs, Head(todo) \in {Destroy(d), Deltree(d), Mkdir(d)}
      PROVE  MainValues'
  <2>1. ASSUME NEW n \in Names, Sets(d, n, None) PROVE \A e \in Dirs : Values(disk'[e])
    BY <1>7, <2>1, ValuesSets, Zenon
  <2>2. Becomes(d, Gone) => \A e \in Dirs : Values(disk'[e])
    BY <1>7, ValuesGone, GoneDir, Zenon
  <2>3. CASE Head(todo) = Destroy(d)
    BY <1>1, <1>3, <1>4, <1>7, <2>1, <2>2, <2>3, DestroyEffect, Zenon
  <2>4. CASE Head(todo) = Deltree(d)
    BY <1>1, <1>3, <1>7, <2>1, <2>2, <2>4, DeltreeEffect, Zenon
  <2>5. CASE Head(todo) = Mkdir(d)
    <3>1. Becomes(d, [Gone EXCEPT !.made = TRUE]) /\ Steps
      BY <1>1, <1>7, <2>5, MkdirEffect, Zenon
    <3>2. \A e \in Dirs : Values(disk'[e])
      BY <1>7, <3>1, ValuesGone, GoneDir, Zenon
    <3> QED BY <1>3, <3>1, <3>2, Zenon
  <2> QED BY <1>7, <2>3, <2>4, <2>5, Zenon
<1>8. ASSUME NEW from \in Dirs, NEW to \in Dirs, from # to, Head(todo) = Rename(from, to)
      PROVE  MainValues'
  <2>1. Values(Gone)
    BY <1>6, GoneDir, Zenon DEF Values
  <2>2. Moved(from, to) => \A e \in Dirs : Values(disk'[e])
    BY <1>8, <2>1, ValuesNow, Zenon DEF Moved
  <2> QED BY <1>1, <1>3, <1>4, <1>5, <1>8, <2>2, RenameEffect, Zenon DEF CallFails
<1>9. ASSUME Head(todo) = Copy, mode = "rotate", Left = 5
      PROVE  MainValues'
  <2>1. IsRotate
    BY <1>9, Zenon DEF StoreInv
  <2>2. /\ disk["new"].made /\ newkey \in Keys
        /\ \A n \in Names : Holds("new", n) => Readable(File("current", n), key)
    BY <1>9, <2>1, Zenon DEF IsRotate
  <2>3. ASSUME NEW n \in Names, File("new", n) = Empty, Sets("new", n, Copied(File("current", n)))
        PROVE  \A e \in Dirs : Values(disk'[e])
    <3>1. Readable(File("current", n), key)
      BY <2>2, <2>3, FilesAssumption, Zenon DEF Holds
    <3>2. n # "main.tmp" /\ (n = "main" => File("current", n).val \in 1 .. ids)
      BY <1>6, <3>1, Zenon DEF MainValues, Readable
    <3>3. Copied(File("current", n)).val = File("current", n).val
      BY Zenon DEF Copied
    <3> QED BY <1>6, <2>3, <3>2, <3>3, ValuesSets, Zenon
  <2>4. ASSUME NEW n \in Names, Sets("new", n, Empty)
        PROVE  \A e \in Dirs : Values(disk'[e])
    BY <1>6, <2>4, ValuesSets, Zenon
  <2> QED BY <1>1, <1>3, <1>4, <1>5, <1>9, <2>2, <2>3, <2>4, CopyEffect DEF CallFails
<1>10. ASSUME NEW f \in {"main", "self", "peer"}, Head(todo) \in {OpenTmp(f), MvTmp(f)}
       PROVE  MainValues'
  <2>1. CASE Head(todo) = OpenTmp(f)
    <3>1. CASE disk["current"].made
      <4>1. Sets("current", Tmp[f], Empty) /\ Steps /\ Tmp[f] \in Names
        BY <1>1, <1>10, <2>1, <3>1, OpenTmpEffect DEF Tmp, Names, Hosts
      <4> QED BY <1>3, <1>6, <4>1, ValuesSets, Zenon
    <3>2. CASE ~disk["current"].made
      <4>1. CallFails
        BY <2>1, <3>2, OpenTmpFails, Zenon
      <4> QED BY <1>4, <1>5, <4>1, Zenon DEF CallFails
    <3> QED BY <3>1, <3>2, Zenon
  <2>2. CASE Head(todo) = MvTmp(f)
    <3>1. Moves(f) /\ Steps
      BY <1>1, <1>10, <2>2, MvTmpEffect, Zenon
    <3>2. Values(disk'["current"])
      BY <1>6, <1>10, <3>1, ValuesNow DEF Moves, Values, Tmp, File
    <3>3. \A e \in Dirs : Values(disk'[e])
      BY <3>1, <3>2, ValuesNow, Zenon DEF Moves
    <3> QED BY <1>3, <3>1, <3>3, Zenon
  <2> QED BY <1>10, <2>1, <2>2, Zenon
<1>11. ASSUME NEW n \in Names, NEW v \in Nat, Head(todo) = Flush(n, v),
              n # "main.tmp", n = "main" => v \in 1 .. ids
       PROVE  MainValues'
  <2> DEFINE c == [key |-> key, val |-> v]
  <2>1. DoFlush /\ Head(todo).n = n /\ Head(todo).v = v
    BY <1>11, Picks DEF Flush
  <2>2. /\ disk' = [disk EXCEPT !["current"] = [disk["current"] EXCEPT !.file[n] = c]]
        /\ UNCHANGED <<mode, id, ids>>
    BY <2>1, Zenon DEF DoFlush, Put, Done
  <2>3. c.val = v
    BY Zenon
  <2> HIDE DEF c
  <2>4. disk \in [Dirs -> Dir]
    BY <1>1, TypeDisk, Zenon DEF DiskOK
  <2>5. disk["current"] \in Dir /\ disk'["current"] = [disk["current"] EXCEPT !.file[n] = c]
        /\ \A e \in Dirs : e # "current" => disk'[e] = disk[e]
    BY <1>6, <2>2, <2>4, Zenon
  <2>6. disk'["current"].file = [disk["current"].file EXCEPT ![n] = c]
        /\ disk["current"].file \in [Names -> Contents]
    BY <2>5, Zenon DEF Dir
  <2>7. /\ disk'["current"].file["main"] = IF n = "main" THEN c ELSE disk["current"].file["main"]
        /\ disk'["current"].file["main.tmp"] = disk["current"].file["main.tmp"]
    BY <1>6, <1>11, <2>6, Zenon
  <2>8. \A e \in Dirs : Values(disk'[e])
    BY <1>6, <1>11, <2>3, <2>5, <2>7, ValuesNow, Zenon DEF Values
  <2> QED BY <2>2, <2>8, ValuesNext, Zenon
<1>12. ASSUME Head(todo) = Flush("main", id), mode \in {"setup", "write"}
       PROVE  MainValues'
  <2>1. id \in 1 .. ids /\ id \in Nat
    BY <1>1, <1>12 DEF StoreInv, IsSetup, MainValues, TypeOK
  <2> QED BY <1>6, <1>11, <1>12, <2>1, Zenon
<1>13. ASSUME NEW n \in {"self.tmp", "peer.tmp"}, NEW v \in Nat, Head(todo) = Flush(n, v)
       PROVE  MainValues'
  <2>1. n \in Names /\ n # "main.tmp" /\ n # "main"
    BY <1>13, Zenon DEF Names, Hosts
  <2> QED BY <1>11, <1>13, <2>1, Zenon
<1>14. ASSUME Head(todo) = SetKey \/ \E v : Head(todo) = Written(v)
       PROVE  MainValues'
  <2>1. disk' = disk /\ UNCHANGED <<mode, id, ids>>
    BY <1>14, SetKeyEffect, WrittenEffect, Zenon
  <2> QED BY <1>5, <2>1, ValuesNext, Zenon
<1> QED BY <1>1, <1>7, <1>8, <1>9, <1>10, <1>12, <1>13, <1>14, Zenon DEF Ops

\* Every call preserves MainValues.
LEMMA ValuesCall ==
    ASSUME StoreInv, MainValues, Call
    PROVE  MainValues'
<1>1. disk' = disk
  BY Zenon DEF Call, Open, ReadConfig, Return, WritePeer, SetPort, Rotate, Close, Crash
<1>2. \A d \in Dirs : Values(disk'[d])
  BY <1>1, ValuesNow, Zenon
<1>3. ASSUME ids' = ids, mode' \in {"finish", "up", "write", "rotate"} => id' # 0
      PROVE  MainValues'
  BY <1>2, <1>3, Zenon DEF MainValues, Values, File
<1>4. CASE Open
  <2>1. CASE Setup
    BY <1>2, <2>1, ValuesNext, Zenon DEF Setup
  <2>2. CASE mode' = "recover" /\ ids' = ids
    BY <1>3, <2>2, Zenon
  <2> QED BY <1>4, <2>1, <2>2, Zenon DEF Open
<1>5. CASE ReadConfig
  <2>1. CASE OpenFails
    BY <1>3, <2>1, Zenon DEF OpenFails
  <2>2. CASE ~OpenFails
    <3>1. /\ Readable(File("current", "main"), key) /\ id' = File("current", "main").val
          /\ ids' = ids
      BY <1>5, <2>2, Zenon DEF ReadConfig
    <3>2. id' \in 1 .. ids
      BY <3>1, Zenon DEF MainValues, Readable, Dirs
    <3>3. id' # 0
      BY <3>2
    <3> QED BY <1>3, <3>1, <3>3, Zenon
  <2> QED BY <2>1, <2>2, Zenon
<1>6. CASE Return
  <2>1. id # 0
    BY <1>6 DEF Return, MainValues, StoreInv, IsSetup, TypeOK
  <2> QED BY <1>3, <1>6, <2>1, Zenon DEF Return, handle
<1>7. CASE WritePeer \/ SetPort \/ \E k \in Keys : Rotate(k)
  <2>1. mode = "up" /\ id' = id /\ ids' = ids
    BY <1>7, Zenon DEF WritePeer, SetPort, Rotate, handle
  <2> QED BY <1>3, <2>1, Zenon DEF MainValues
<1>8. CASE Close \/ Crash
  <2>1. mode' = "down" /\ ids' = ids
    BY <1>8, Zenon DEF Close, Crash, handle
  <2> QED BY <1>3, <2>1, Zenon
<1> QED BY <1>4, <1>5, <1>6, <1>7, <1>8, Zenon DEF Call

-----------------------------------------------------------------------------
\* Keys and identities.

\* Files with one key have no different keys.
LEMMA OnlyUniform ==
    ASSUME NEW x, NEW k, Only(x, k)
    PROVE  Uniform(x)
BY Zenon DEF Only, Uniform

\* If meshlink.conf can be read with a key, so can all files of a directory that has

\* no two keys.
LEMMA UniformOnly ==
    ASSUME NEW x, NEW k, Uniform(x), Readable(x.file["main"], k)
    PROVE  Only(x, k)
<1>1. "main" \in Names
  BY Zenon DEF Names
<1>2. ASSUME NEW n \in Names, x.file[n] \notin {None, Empty}
      PROVE  x.file[n].key = k
  <2>1. {x.file["main"], x.file[n]} \cap {None, Empty} = {}
    BY <1>2, Zenon DEF Readable
  <2>2. x.file["main"].key = x.file[n].key
    BY <1>1, <2>1, Zenon DEF Uniform
  <2> QED BY <2>2, Zenon DEF Readable
<1> QED BY <1>2, Zenon DEF Only

\* A directory with one key keeps it when a file with that key, or none, is put in

\* it.
LEMMA OnlyPut ==
    ASSUME NEW x, NEW y, NEW k, NEW n, NEW c, Only(x, k), y.file[n] = c,
           c \in {None, Empty} \/ c.key = k,
           \A m \in Names : m # n => y.file[m] = x.file[m]
    PROVE  Only(y, k)
BY Zenon DEF Only

\* A directory has still one key after a file was created or removed.
LEMMA UniformPut ==
    ASSUME NEW x, NEW y, NEW n, NEW c, Uniform(x), y.file[n] = c, c \in {None, Empty},
           \A m \in Names : m # n => y.file[m] = x.file[m]
    PROVE  Uniform(y)
<1>1. SUFFICES ASSUME NEW m1 \in Names, NEW m2 \in Names,
                      {y.file[m1], y.file[m2]} \cap {None, Empty} = {}
               PROVE  y.file[m1].key = y.file[m2].key
  BY Zenon DEF Uniform
<1>2. m1 # n /\ m2 # n
  BY <1>1, Zenon
<1>3. y.file[m1] = x.file[m1] /\ y.file[m2] = x.file[m2]
  BY <1>2, Zenon
<1> QED BY <1>1, <1>3, Zenon DEF Uniform

\* A directory without files has no key.
LEMMA OnlyGone ==
    ASSUME NEW x, NEW k, x.file = NoFiles
    PROVE  Only(x, k) /\ Uniform(x) /\ ~Readable(x.file["main"], k)
BY GoneDir, OnlyUniform, Zenon DEF Only, Readable, Names

\* Renaming a temporary file adds no key.
LEMMA OnlyMove ==
    ASSUME NEW f \in {"main", "self", "peer"}, NEW k, Moves(f), Only(disk["current"], k)
    PROVE  Only(disk'["current"], k)
<1>1. Tmp[f] \in Names
  BY DEF Tmp, Names, Hosts
<1> QED BY <1>1, Zenon DEF Only, Moves, File

\* Identity is about each directory by itself.
LEMMA IdentityKept ==
    ASSUME Identity, UNCHANGED <<ident, ids, saved>>, NEW d \in Dirs,
           \A e \in Dirs : e # d => disk'[e] = disk[e],
           Uniform(disk'[d]),
           disk'[d].file["main"] \in {None, Empty} \/ disk'[d].file["main"].val = ids
    PROVE  Identity'
BY DEF Identity, File, Uniform

\* Creating or removing a file preserves Identity.
LEMMA IdentitySets ==
    ASSUME Identity, UNCHANGED <<ident, ids, saved>>, NEW d \in Dirs, NEW n \in Names,
           NEW c \in {None, Empty}, Sets(d, n, c)
    PROVE  Identity'
<1>1. Uniform(disk'[d])
  <2>1. Uniform(disk[d])
    BY Zenon DEF Identity
  <2> QED BY <2>1, UniformPut DEF Sets
<1>2. disk'[d].file["main"] \in {None, Empty} \/ disk'[d].file["main"].val = ids
  BY Zenon DEF Identity, Sets, File, Names
<1> QED BY <1>1, <1>2, IdentityKept, Zenon DEF Sets

\* Making or removing a directory preserves Identity.
LEMMA IdentityNone ==
    ASSUME Identity, UNCHANGED <<ident, ids, saved>>, NEW d \in Dirs, NEW x, Becomes(d, x),
           x.file = NoFiles
    PROVE  Identity'
<1>1. Uniform(disk'[d])
  BY OnlyGone, Zenon DEF Becomes
<1>2. disk'[d].file["main"] = None
  BY GoneDir, Zenon DEF Becomes, Names
<1> QED BY <1>1, <1>2, IdentityKept, Zenon DEF Becomes

\* Moving a directory preserves Identity.
LEMMA IdentityMoved ==
    ASSUME Identity, UNCHANGED <<ident, ids, saved>>, NEW from \in Dirs, NEW to \in Dirs,
           from # to, Moved(from, to)
    PROVE  Identity'
<1>1. Uniform(Gone) /\ Gone.file["main"] = None
  BY OnlyGone, GoneDir, Zenon DEF Names
<1>2. \A e \in Dirs : /\ Uniform(disk'[e])
                      /\ disk'[e].file["main"] \in {None, Empty} \/ disk'[e].file["main"].val = ids
  BY <1>1, Zenon DEF Moved, Identity, File
<1> QED BY <1>2, Zenon DEF Identity, File, Uniform

\* So does any change of current that leaves it with one key and this identity.
LEMMA IdentityOnly ==
    ASSUME Identity, UNCHANGED <<ident, ids, saved>>, NEW k,
           \A e \in Dirs : e # "current" => disk'[e] = disk[e],
           Only(disk'["current"], k),
           \/ disk'["current"].file["main"] \in {None, Empty}
           \/ disk'["current"].file["main"].val = ids
    PROVE  Identity'
<1>1. Uniform(disk'["current"])
  BY OnlyUniform, Zenon
<1> QED BY <1>1, IdentityKept, Zenon DEF Dirs

-----------------------------------------------------------------------------
\* meshlink_setup.

\* meshlink_setup before it has made current.
LEMMA SetupEarly ==
    ASSUME TypeOK, IsSetup, id' = id, ids' = ids, ident' = ident, key' = key, fails' = fails,
           Ends(todo', meshlink_setup(id)), NEW n \in 10 .. 13, Len(todo') = n,
           n <= 12 => disk'["new"] = Gone, n <= 11 => disk'["old"] = Gone
    PROVE  IsSetup'
<1>1. Ends(todo', meshlink_setup(id')) /\ key' \in Keys /\ ident' < ids' /\ id' = ids'
  BY Zenon DEF IsSetup
<1>2. ~(n <= 9) /\ n # 8 /\ ~(n <= 7) /\ ~(n <= 6) /\ n \notin {1, 4} /\ ~(n <= 3)
  OBVIOUS
<1> QED BY <1>1, <1>2, Zenon DEF IsSetup, Left

\* meshlink_setup destroys new and old.
LEMMA SetupDestroys ==
    ASSUME StoreInv, mode = "setup", DiskStep, newFirst' = newFirst, Left \in {12, 13}
    PROVE  StoreInv'
<1> DEFINE d == IF Left = 13 THEN "new" ELSE "old"
<1>1. TypeOK /\ IsSetup /\ (fails = 0 => Identity)
  BY Zenon DEF StoreInv
<1>2. Ends(todo, meshlink_setup(id)) /\ todo # <<>>
  BY <1>1, Picks, Zenon DEF IsSetup
<1>3. /\ Head(todo) = Destroy(d) /\ d \in Dirs
      /\ Ends(Tail(todo), meshlink_setup(id)) /\ Len(Tail(todo)) = Len(todo) - 1
  BY <1>2, SetupTable, Zenon DEF Left, Dirs
<1>4. CASE \E n \in Names : Sets(d, n, None) /\ Stays
  <2>1. PICK n \in Names : Sets(d, n, None) /\ Stays
    BY <1>4, Zenon
  <2>2. TypeOK'
    BY <1>1, <2>1, TypeStays, Zenon DEF Sets
  <2>3. fails' = 0 => Identity'
    BY <1>1, <1>3, <2>1, IdentitySets, Zenon DEF Stays, rest
  <2>4. IsSetup'
    <3>1. Left = 12 => disk["new"] = Gone /\ disk'["new"] = disk["new"]
      BY <1>1, <2>1 DEF IsSetup, Sets, Dirs
    <3> QED BY <1>1, <1>2, <2>1, <3>1, SetupEarly DEF Stays, rest, Left
  <2> QED BY <2>1, <2>2, <2>3, <2>4, Zenon DEF StoreInv, Stays, rest
<1>5. CASE Becomes(d, Gone) /\ Steps
  <2>2. TypeOK'
    BY <1>1, <1>5, TypeStays, Zenon DEF Becomes
  <2>3. fails' = 0 => Identity'
    BY <1>1, <1>3, <1>5, IdentityNone, GoneDir, Zenon DEF Steps, rest
  <2>4. IsSetup'
    <3>1. Left = 12 => disk["new"] = Gone /\ disk'["new"] = disk["new"]
      BY <1>1, <1>5 DEF IsSetup, Becomes, Dirs
    <3>2. disk'[d] = Gone
      BY <1>5, Zenon DEF Becomes
    <3>3. \A n \in {12, 13} : n - 1 \in 10 .. 13
      OBVIOUS
    <3> QED BY <1>1, <1>3, <1>5, <3>1, <3>2, <3>3, SetupEarly DEF Steps, rest, Left
  <2> QED BY <1>5, <2>2, <2>3, <2>4, Zenon DEF StoreInv, Steps, rest
<1>6. CASE Becomes(d, Gone) /\ SyncFails
  <2>1. OpenFails /\ fails' = fails + 1 /\ fails' <= MaxFail
        /\ UNCHANGED <<key, newkey, newFirst, counts>>
    BY <1>6, Zenon DEF SyncFails, Failed
  <2>2. TypeOK'
    BY <1>1, <1>6, <2>1 DEF TypeOK, OpenFails, Becomes, DiskOK, Dir
  <2>3. fails' # 0
    BY <1>1, <2>1 DEF TypeOK
  <2>4. IsDown' /\ IsLost' /\ mode' \in {"down", "lost"}
    BY <1>1, <2>1, <2>3 DEF IsSetup, TypeOK, OpenFails, IsDown, IsLost, SameNode, OldKeyFirst
  <2> QED BY <2>2, <2>3, <2>4, Zenon DEF StoreInv
<1> QED BY <1>1, <1>3, <1>4, <1>5, <1>6, DestroyEffect, Zenon

\* meshlink_setup removes what is in current.
LEMMA SetupClears ==
    ASSUME StoreInv, mode = "setup", DiskStep, newFirst' = newFirst, Left = 11
    PROVE  StoreInv'
<1> DEFINE d == "current"
<1>1. TypeOK /\ IsSetup /\ (fails = 0 => Identity) /\ d \in Dirs
  BY Zenon DEF StoreInv, Dirs
<1>2. Ends(todo, meshlink_setup(id)) /\ todo # <<>>
  BY <1>1, Picks, Zenon DEF IsSetup
<1>3. /\ Head(todo) = Deltree(d)
      /\ Ends(Tail(todo), meshlink_setup(id)) /\ Len(Tail(todo)) = Len(todo) - 1
  BY <1>2, SetupTable, Zenon DEF Left
<1>4. disk["new"] = Gone /\ disk["old"] = Gone
  BY <1>1 DEF IsSetup
<1>5. CASE \E n \in Names : Sets(d, n, None) /\ Stays
  <2>1. PICK n \in Names : Sets(d, n, None) /\ Stays
    BY <1>5, Zenon
  <2>2. TypeOK'
    BY <1>1, <2>1, TypeStays, Zenon DEF Sets
  <2>3. fails' = 0 => Identity'
    BY <1>1, <2>1, IdentitySets, Zenon DEF Stays, rest
  <2>4. disk'["new"] = Gone /\ disk'["old"] = Gone
    BY <1>4, <2>1, Zenon DEF Sets, Dirs
  <2>5. IsSetup'
    BY <1>1, <1>2, <2>1, <2>4, SetupEarly DEF Stays, rest, Left
  <2> QED BY <2>1, <2>2, <2>3, <2>5, Zenon DEF StoreInv, Stays, rest
<1>6. CASE Becomes(d, Gone) /\ Steps
  <2>2. TypeOK'
    BY <1>1, <1>6, TypeStays, Zenon DEF Becomes
  <2>3. fails' = 0 => Identity'
    BY <1>1, <1>6, IdentityNone, GoneDir, Zenon DEF Steps, rest
  <2>4. disk'["new"] = Gone /\ disk'["old"] = Gone
    BY <1>4, <1>6, Zenon DEF Becomes, Dirs
  <2>5. Len(todo') = 10
    BY <1>3, <1>6 DEF Steps, Left
  <2>6. IsSetup'
    BY <1>1, <1>3, <1>6, <2>4, <2>5, SetupEarly DEF Steps, rest
  <2> QED BY <1>6, <2>2, <2>3, <2>6, Zenon DEF StoreInv, Steps, rest
<1> QED BY <1>1, <1>3, <1>5, <1>6, DeltreeEffect, Zenon

\* meshlink_setup after it has made current: what it has written is there.
LEMMA SetupLate ==
    ASSUME StoreInv, mode = "setup", Steps, DiskOK',
           Ends(todo', meshlink_setup(id)), NEW n \in 0 .. 9, Len(todo') = n,
           disk["new"] = Gone, disk["old"] = Gone,
           \A e \in Dirs : e # "current" => disk'[e] = disk[e],
           disk'["current"].made, Only(disk'["current"], key),
           n = 8 => disk'["current"].file["main.tmp"] = Empty,
           n = 7 => disk'["current"].file["main"] = Empty,
           n <= 6 => Readable(disk'["current"].file["main"], key),
           fails = 0 => \/ disk'["current"].file["main"] \in {None, Empty}
                        \/ disk'["current"].file["main"].val = ids,
           n \in {1, 4} => Readable(disk'["current"].file["self.tmp"], key),
           n <= 3 => Readable(disk'["current"].file["self"], key)
    PROVE  StoreInv'
<1>1. TypeOK /\ IsSetup /\ (fails = 0 => Identity)
  BY Zenon DEF StoreInv
<1>2. TypeOK'
  BY <1>1, TypeStays, Zenon
<1>4. fails' = 0 => Identity'
  BY <1>1, IdentityOnly, Zenon DEF Steps, rest
<1>5. Ends(todo', meshlink_setup(id')) /\ key' \in Keys /\ ident' < ids' /\ id' = ids' /\ key' = key
  BY <1>1, Zenon DEF IsSetup, Steps, rest
<1>6. disk'["new"] = Gone /\ disk'["old"] = Gone
  BY Zenon DEF Dirs
<1>7. n <= 7 => disk'["current"].file["main"] # None
  BY FilesAssumption DEF Readable
<1>8. IsSetup'
  BY <1>5, <1>6, <1>7, Zenon DEF IsSetup, Left, File, Holds, Opens, Only
<1> QED BY <1>2, <1>4, <1>8, Zenon DEF StoreInv, Steps, rest

\* meshlink_setup makes current, or opens a temporary file.
LEMMA SetupOpens ==
    ASSUME StoreInv, mode = "setup", DiskStep, newFirst' = newFirst, Left \in {3, 6, 9, 10}
    PROVE  StoreInv'
<1>1. /\ TypeOK /\ IsSetup /\ "current" \in Dirs
      /\ fails = 0 => File("current", "main") \in {None, Empty} \/ File("current", "main").val = ids
  BY Zenon DEF StoreInv, Dirs, Identity
<1>2. Ends(todo, meshlink_setup(id)) /\ todo # <<>>
  BY <1>1, Picks, Zenon DEF IsSetup
<1>3. /\ Ends(Tail(todo), meshlink_setup(id)) /\ Len(Tail(todo)) = Left - 1
      /\ Left = 10 => Head(todo) = Mkdir("current")
      /\ Left = 9 => Head(todo) = OpenTmp("main")
      /\ Left \in {3, 6} => Head(todo) = OpenTmp("self")
  BY <1>2, SetupTable, Zenon DEF Left
<1>4. disk["new"] = Gone /\ disk["old"] = Gone
  BY <1>1 DEF IsSetup
<1>5. CASE Left = 10
  <2>1. Becomes("current", [Gone EXCEPT !.made = TRUE]) /\ Steps
    BY <1>1, <1>3, <1>5, MkdirEffect, Zenon
  <2>2. disk'["current"].made /\ disk'["current"].file = NoFiles
    BY <2>1, GoneDir, Zenon DEF Becomes
  <2>3. Only(disk'["current"], key) /\ disk'["current"].file["main"] = None
    BY <2>2, OnlyGone, GoneDir, Zenon DEF Names
  <2>4. Len(todo') = 9 /\ Ends(todo', meshlink_setup(id))
    BY <1>3, <1>5, <2>1 DEF Steps
  <2>5. DiskOK' /\ \A e \in Dirs : e # "current" => disk'[e] = disk[e]
    BY <2>1, Zenon DEF Becomes
  <2> QED BY <1>4, <2>1, <2>2, <2>3, <2>4, <2>5, SetupLate
<1>6. CASE Left \in {3, 6, 9}
  <2> DEFINE t == IF Left = 9 THEN "main.tmp" ELSE "self.tmp"
  <2>1. disk["current"].made /\ Only(disk["current"], key)
    BY <1>1, <1>6 DEF IsSetup
  <2>2. Tmp["main"] = "main.tmp" /\ Tmp["self"] = "self.tmp"
    BY Zenon DEF Tmp
  <2>3. Sets("current", t, Empty) /\ Steps
    BY <1>1, <1>3, <1>6, <2>1, <2>2, OpenTmpEffect, Zenon
  <2>4. Only(disk'["current"], key) /\ disk'["current"].made
    BY <2>1, <2>3, OnlyPut DEF Sets
  <2>5. /\ Left = 9 => disk'["current"].file["main.tmp"] = Empty
        /\ disk'["current"].file["main"] = disk["current"].file["main"]
        /\ disk'["current"].file["self"] = disk["current"].file["self"]
    BY <2>3, Zenon DEF Sets, Names, Hosts
  <2>6. DiskOK' /\ \A e \in Dirs : e # "current" => disk'[e] = disk[e]
    BY <2>3, Zenon DEF Sets
  <2> DEFINE n == Left - 1
  <2>7. Len(todo') = n /\ Ends(todo', meshlink_setup(id)) /\ n \in {2, 5, 8}
    BY <1>3, <1>6, <2>3 DEF Steps
  <2>8. /\ n <= 6 => Readable(disk'["current"].file["main"], key)
        /\ n <= 3 => Readable(disk'["current"].file["self"], key)
        /\ n = 8 => disk'["current"].file["main.tmp"] = Empty
        /\ fails = 0 => \/ disk'["current"].file["main"] \in {None, Empty}
                        \/ disk'["current"].file["main"].val = ids
    BY <1>1, <1>6, <2>5 DEF IsSetup, Opens, File
  <2> HIDE DEF n
  <2> QED BY <1>4, <2>3, <2>4, <2>6, <2>7, <2>8, SetupLate
<1> QED BY <1>5, <1>6, Zenon

\* meshlink_setup closes a file.
LEMMA SetupFlushes ==
    ASSUME StoreInv, mode = "setup", DiskStep, newFirst' = newFirst, Left \in {2, 5, 7}
    PROVE  StoreInv'
<1> DEFINE f == IF Left = 7 THEN "main" ELSE "self.tmp"
           v == IF Left = 7 THEN id ELSE 0
           c == [key |-> key, val |-> v]
<1>1. /\ TypeOK /\ IsSetup /\ "current" \in Dirs /\ id = ids /\ v \in Nat /\ f \in Names
      /\ fails = 0 => File("current", "main") \in {None, Empty} \/ File("current", "main").val = ids
  BY Zenon DEF StoreInv, Dirs, Identity, IsSetup, TypeOK, Names, Hosts
<1>2. Ends(todo, meshlink_setup(id)) /\ todo # <<>>
  BY <1>1, Picks, Zenon DEF IsSetup
<1>3. /\ Ends(Tail(todo), meshlink_setup(id)) /\ Len(Tail(todo)) = Left - 1
      /\ Head(todo) = Flush(f, v)
  BY <1>2, SetupTable, Zenon DEF Left
<1>4. /\ disk["new"] = Gone /\ disk["old"] = Gone /\ disk["current"].made
      /\ Only(disk["current"], key) /\ key \in Keys
  BY <1>1 DEF IsSetup
<1>5. Sets("current", f, c) /\ Steps /\ c \notin {None, Empty}
  BY <1>1, <1>3, <1>4, FlushEffect, Zenon
<1>6. c.key = key /\ c.val = v
  BY Zenon
<1> HIDE DEF c
<1>7. Only(disk'["current"], key) /\ disk'["current"].made
  BY <1>4, <1>5, <1>6, OnlyPut DEF Sets
<1>8. /\ Left = 7 => disk'["current"].file["main"] = c
      /\ Left # 7 => /\ disk'["current"].file["main"] = disk["current"].file["main"]
                     /\ disk'["current"].file["self.tmp"] = c
                     /\ disk'["current"].file["self"] = disk["current"].file["self"]
  BY <1>5, Zenon DEF Sets, Names, Hosts
<1>9. DiskOK' /\ \A e \in Dirs : e # "current" => disk'[e] = disk[e]
  BY <1>5, Zenon DEF Sets
<1> DEFINE n == Left - 1
<1>10. Len(todo') = n /\ Ends(todo', meshlink_setup(id)) /\ n \in {1, 4, 6}
  BY <1>3, <1>5 DEF Steps
<1>11. Readable(c, key)
  BY <1>5, <1>6, Zenon DEF Readable
<1>12. /\ Readable(disk'["current"].file["main"], key)
       /\ n <= 3 => Readable(disk'["current"].file["self"], key)
       /\ n \in {1, 4} => Readable(disk'["current"].file["self.tmp"], key)
       /\ fails = 0 => \/ disk'["current"].file["main"] \in {None, Empty}
                       \/ disk'["current"].file["main"].val = ids
  BY <1>1, <1>6, <1>8, <1>11 DEF IsSetup, Opens, File
<1> HIDE DEF n
<1> QED BY <1>4, <1>5, <1>7, <1>9, <1>10, <1>12, SetupLate

\* meshlink_setup renames a temporary file.
LEMMA SetupMoves ==
    ASSUME StoreInv, mode = "setup", DiskStep, newFirst' = newFirst, Left \in {1, 4, 8}
    PROVE  StoreInv'
<1> DEFINE f == IF Left = 8 THEN "main" ELSE "self"
<1>1. /\ TypeOK /\ IsSetup /\ "current" \in Dirs
      /\ fails = 0 => File("current", "main") \in {None, Empty} \/ File("current", "main").val = ids
  BY Zenon DEF StoreInv, Dirs, Identity
<1>2. Ends(todo, meshlink_setup(id)) /\ todo # <<>>
  BY <1>1, Picks, Zenon DEF IsSetup
<1>3. /\ Ends(Tail(todo), meshlink_setup(id)) /\ Len(Tail(todo)) = Left - 1
      /\ Head(todo) = MvTmp(f)
  BY <1>2, SetupTable, Zenon DEF Left
<1>4. /\ disk["new"] = Gone /\ disk["old"] = Gone /\ disk["current"].made
      /\ Only(disk["current"], key) /\ key \in Keys
  BY <1>1 DEF IsSetup
<1>5. Moves(f) /\ Steps
  BY <1>1, <1>3, MvTmpEffect, Zenon
<1>6. Tmp["main"] = "main.tmp" /\ Tmp["self"] = "self.tmp"
  BY Zenon DEF Tmp
<1>7. Only(disk'["current"], key) /\ disk'["current"].made
  BY <1>4, <1>5, OnlyMove, Zenon DEF Moves
<1>8. /\ Left = 8 => disk'["current"].file["main"] = disk["current"].file["main.tmp"]
      /\ Left # 8 => /\ disk'["current"].file["main"] = disk["current"].file["main"]
                     /\ disk'["current"].file["self"] = disk["current"].file["self.tmp"]
  BY <1>5, <1>6, Zenon DEF Moves, Names, Hosts, File
<1>9. DiskOK' /\ \A e \in Dirs : e # "current" => disk'[e] = disk[e]
  BY <1>5, Zenon DEF Moves
<1> DEFINE n == Left - 1
<1>10. Len(todo') = n /\ Ends(todo', meshlink_setup(id)) /\ n \in {0, 3, 7}
  BY <1>3, <1>5 DEF Steps
<1>11. /\ n <= 6 => Readable(disk'["current"].file["main"], key)
       /\ n = 7 => disk'["current"].file["main"] = Empty
       /\ n <= 3 => Readable(disk'["current"].file["self"], key)
       /\ fails = 0 => \/ disk'["current"].file["main"] \in {None, Empty}
                       \/ disk'["current"].file["main"].val = ids
  BY <1>1, <1>8 DEF IsSetup, Opens, File
<1> HIDE DEF n
<1> QED BY <1>4, <1>5, <1>7, <1>9, <1>10, <1>11, SetupLate

\* Every disk step of meshlink_setup preserves StoreInv.
LEMMA SetupStep ==
    ASSUME StoreInv, mode = "setup", DiskStep, newFirst' = newFirst
    PROVE  StoreInv'
<1>1. Ends(todo, meshlink_setup(id)) /\ todo # <<>>
  BY Picks, Zenon DEF StoreInv, IsSetup
<1>2. Left \in 0 .. 13 /\ Left # 0
  <2>1. Len(todo) \in 0 .. 13
    BY <1>1, SetupTable, Zenon
  <2>2. Len(todo) # 0
    BY <1>1, SetupTable
  <2> QED BY <2>1, <2>2, Zenon DEF Left
<1>3. \A n \in 0 .. 13 : n # 0 =>
        n \in {12, 13} \union {11} \union {3, 6, 9, 10} \union {2, 5, 7} \union {1, 4, 8}
  OBVIOUS
<1> QED BY <1>2, <1>3, SetupDestroys, SetupClears, SetupOpens, SetupFlushes, SetupMoves, Zenon

-----------------------------------------------------------------------------
\* The end of meshlink_open_ex.

\* The end of meshlink_open_ex leaves all but our own host file.
LEMMA FinishNext ==
    ASSUME StoreInv, mode = "finish", Steps, DiskOK', Ends(todo', config_write("self", 0)),
           NEW n \in 0 .. 2, Len(todo') = n, fails = 0 => Identity',
           \A e \in Dirs : e # "current" => disk'[e] = disk[e],
           disk'["current"].file["main"] = disk["current"].file["main"],
           disk'["current"].file["peer"] = disk["current"].file["peer"],
           fails = 0 => \/ disk'["current"].file["self"] = disk["current"].file["self"]
                        \/ Readable(disk'["current"].file["self"], key),
           n = 1 => Readable(disk'["current"].file["self.tmp"], key)
    PROVE  StoreInv'
<1>1. TypeOK /\ IsFinish
  BY Zenon DEF StoreInv
<1>2. TypeOK'
  BY <1>1, TypeStays, Zenon
<1>3. fails' = 0 => Identity'
  BY Zenon DEF Steps, rest
<1>4. disk'["new"] = disk["new"] /\ disk'["old"] = disk["old"]
  BY Zenon DEF Dirs
<1>5. \A d \in Dirs : disk'[d].file["main"] = disk[d].file["main"]
  BY Zenon
<1>6. /\ Ends(todo', config_write("self", 0)) /\ key' \in Keys
      /\ disk'["current"].file["main"] # None
      /\ fails = 0 =>
            /\ id' = ids' /\ key' = keys'[tried']
            /\ Readable(disk'["current"].file["main"], key')
            /\ Readable(disk'["current"].file["self"], key')
            /\ disk'["old"] = Gone /\ disk'["new"] = Gone
  BY <1>1, <1>4, Zenon DEF IsFinish, Steps, rest, File, Holds, Opens
<1>7. OldKeyFirst => Full(disk["current"], key) /\ (tried = 2 => SecondKey)
  BY <1>1, Zenon DEF IsFinish
<1>8. OldKeyFirst => (Full(disk["current"], key) /\ (tried = 2 => SecondKey))'
  BY <1>5, <1>6, <1>7, Zenon
     DEF OldKeyFirst, Full, HostsFull, SecondKey, Steps, rest, Opens, File, Readable
<1>9. IsFinish'
  BY <1>6, <1>8, Zenon DEF IsFinish, Steps, rest, Left, File, Holds, Opens, OldKeyFirst
<1> QED BY <1>2, <1>3, <1>9, Zenon DEF StoreInv, Steps, rest

\* Every disk step of the end of meshlink_open_ex preserves StoreInv.
LEMMA FinishStep ==
    ASSUME StoreInv, mode = "finish", DiskStep, newFirst' = newFirst
    PROVE  StoreInv'
<1>1. /\ TypeOK /\ IsFinish /\ (fails = 0 => Identity) /\ "current" \in Dirs
  BY Zenon DEF StoreInv, Dirs
<1>2. Ends(todo, config_write("self", 0)) /\ todo # <<>>
  BY <1>1, Picks, Zenon DEF IsFinish
<1>3. /\ Ends(Tail(todo), config_write("self", 0)) /\ Len(Tail(todo)) = Left - 1
      /\ Left = 3 => Head(todo) = OpenTmp("self")
      /\ Left = 2 => Head(todo) = Flush("self.tmp", 0)
      /\ Left = 1 => Head(todo) = MvTmp("self")
  BY <1>2, SelfTable, Zenon DEF Left
<1>4. Left \in 0 .. 3 /\ Left # 0
  BY <1>2, SelfTable, Zenon DEF Left
<1>5. disk["current"].made /\ key \in Keys
  <2>1. disk["current"].file["main"] # None
    BY <1>1, Zenon DEF IsFinish, Holds, File
  <2> QED BY <1>1, <2>1, GoneDir, Zenon DEF IsFinish, TypeOK, Names
<1> DEFINE c == [key |-> key, val |-> 0]
<1>6. "self.tmp" \in Names /\ 0 \in Nat /\ Tmp["self"] = "self.tmp"
  BY Zenon DEF Names, Hosts, Tmp
<1>7. c.key = key
  BY Zenon
<1>8. CASE Left = 3
  <2>1. Sets("current", "self.tmp", Empty) /\ Steps
    BY <1>1, <1>3, <1>5, <1>6, <1>8, OpenTmpEffect, Zenon
  <2>2. fails = 0 => Identity'
    BY <1>1, <1>6, <2>1, IdentitySets, Zenon DEF Steps, rest
  <2>3. Len(todo') = 2
    BY <1>3, <1>8, <2>1 DEF Steps
  <2>4. /\ DiskOK' /\ \A e \in Dirs : e # "current" => disk'[e] = disk[e]
        /\ \A m \in {"main", "peer", "self"} :
              disk'["current"].file[m] = disk["current"].file[m]
    BY <2>1, Zenon DEF Sets, Names, Hosts
  <2>5. Ends(todo', config_write("self", 0))
    BY <1>3, <2>1, Zenon DEF Steps
  <2> QED BY <2>1, <2>2, <2>3, <2>4, <2>5, FinishNext
<1>9. CASE Left = 2
  <2>1. Sets("current", "self.tmp", c) /\ Steps /\ c \notin {None, Empty}
    BY <1>1, <1>3, <1>5, <1>6, <1>9, FlushEffect, Zenon
  <2> HIDE DEF c
  <2>2. fails = 0 => Only(disk'["current"], key)
    <3>1. fails = 0 => Only(disk["current"], key)
      BY <1>1, UniformOnly, Zenon DEF IsFinish, Identity, Opens, File
    <3> QED BY <1>7, <2>1, <3>1, OnlyPut DEF Sets
  <2>3. disk'["current"].file["main"] = disk["current"].file["main"]
    BY <2>1, Zenon DEF Sets, Names
  <2>4. fails = 0 => Identity'
    BY <1>1, <2>1, <2>2, <2>3, IdentityOnly, Zenon DEF Steps, rest, Sets, Identity, File
  <2>5. Len(todo') = 1 /\ Readable(disk'["current"].file["self.tmp"], key)
    BY <1>3, <1>7, <1>9, <2>1 DEF Steps, Sets, Readable
  <2>6. /\ DiskOK' /\ \A e \in Dirs : e # "current" => disk'[e] = disk[e]
        /\ \A m \in {"main", "peer", "self"} :
              disk'["current"].file[m] = disk["current"].file[m]
    BY <2>1, Zenon DEF Sets, Names, Hosts
  <2>7. Ends(todo', config_write("self", 0))
    BY <1>3, <2>1, Zenon DEF Steps
  <2> QED BY <2>1, <2>4, <2>5, <2>6, <2>7, FinishNext
<1>10. CASE Left = 1
  <2>1. Moves("self") /\ Steps
    BY <1>1, <1>3, <1>10, MvTmpEffect, Zenon
  <2>2. fails = 0 => Only(disk'["current"], key)
    <3>1. fails = 0 => Only(disk["current"], key)
      BY <1>1, UniformOnly, Zenon DEF IsFinish, Identity, Opens, File
    <3> QED BY <2>1, <3>1, OnlyMove, Zenon
  <2>3. /\ disk'["current"].file["main"] = disk["current"].file["main"]
        /\ disk'["current"].file["peer"] = disk["current"].file["peer"]
        /\ disk'["current"].file["self"] = disk["current"].file["self.tmp"]
    BY <1>6, <2>1, Zenon DEF Moves, Names, Hosts, File
  <2>4. fails = 0 => Identity'
    BY <1>1, <2>1, <2>2, <2>3, IdentityOnly, Zenon DEF Steps, rest, Moves, Identity, File
  <2>5. Len(todo') = 0 /\ (fails = 0 => Readable(disk'["current"].file["self"], key))
    BY <1>1, <1>3, <1>10, <2>1, <2>3 DEF Steps, IsFinish, File
  <2>6. DiskOK' /\ \A e \in Dirs : e # "current" => disk'[e] = disk[e]
    BY <2>1, Zenon DEF Moves
  <2>7. Ends(todo', config_write("self", 0))
    BY <1>3, <2>1, Zenon DEF Steps
  <2> QED BY <2>1, <2>3, <2>4, <2>5, <2>6, <2>7, FinishNext
<1> QED BY <1>4, <1>8, <1>9, <1>10

-----------------------------------------------------------------------------
\* Writing a file.

\* A directory with a meshlink.conf is there.
LEMMA MadeIfHeld ==
    ASSUME TypeOK, NEW d \in Dirs, Holds(d, "main")
    PROVE  disk[d].made
BY GoneDir, Zenon DEF TypeOK, Holds, File, Names

\* A write fails only after a failing fsync has left no current; the handle stays as

\* it was.
LEMMA WriteFails ==
    ASSUME StoreInv, mode = "write", CallFails, fails # 0
    PROVE  StoreInv'
<1>1. TypeOK /\ Usable
  BY Zenon DEF StoreInv, IsWrite
<1>2. /\ mode' = "up" /\ todo' = <<>> /\ keys' = <<key>>
      /\ UNCHANGED <<id, ids, tried, saved, ident, disk, fails, key, newkey, newFirst, counts>>
  BY Zenon DEF CallFails, Failed
<1>3. key \in Keys
  BY <1>1, Zenon DEF Usable
<1>4. keys' \in Seq(Keys) /\ Len(keys') = 1
  BY <1>2, <1>3
<1>5. tried \in 1 .. Len(keys')
  BY <1>1, <1>4 DEF Usable
<1>6. TypeOK'
  BY <1>1, <1>2, <1>3, <1>4, <1>5, Zenon DEF TypeOK
<1>7. IsUp'
  BY <1>1, <1>2, Zenon DEF IsUp, Usable, SameNode, MainKept, Holds, File
<1> QED BY <1>2, <1>6, <1>7, Zenon DEF StoreInv

\* A step of a write that leaves current with one key and complete host files.
LEMMA WriteNext ==
    ASSUME StoreInv, mode = "write", Steps, DiskOK', disk["current"].made, disk'["current"].made,
           \A e \in Dirs : e # "current" => disk'[e] = disk[e],
           Holds("current", "main") => disk'["current"].file["main"] # None,
           fails = 0 => /\ Only(disk'["current"], key) /\ HostsFull(disk'["current"], key)
                        /\ \/ disk'["current"].file["main"] \in {None, Empty}
                           \/ disk'["current"].file["main"].val = ids,
           WritesPeer' \/ WritesMain'
    PROVE  StoreInv'
<1>1. TypeOK /\ Usable /\ (fails = 0 => Identity)
  BY Zenon DEF StoreInv, IsWrite
<1>2. TypeOK'
  BY <1>1, TypeStays, Zenon
<1>3. fails' = 0 => Identity'
  BY <1>1, IdentityOnly, Zenon DEF Steps, rest
<1>4. disk'["new"] = disk["new"] /\ disk'["old"] = disk["old"]
  BY Zenon DEF Dirs
<1>5. SameNode => disk'["current"].file["main"] # None
  BY <1>1, Zenon DEF Usable, MainKept
<1>6. /\ key' \in Keys /\ ident' # 0 /\ keys' = <<key'>> /\ tried' = 1
      /\ fails' = 0 => id' = ids' /\ disk'["old"] = Gone
      /\ fails' = 0 => ~Readable(disk'["new"].file["main"], key')
  BY <1>1, <1>4, Zenon DEF Usable, Steps, rest, Opens, File
<1>7. fails' = 0 => (Only(disk["current"], key) /\ HostsFull(disk["current"], key))'
  BY Zenon DEF Steps, rest, HostsFull, Only
<1>8. Usable'
  BY <1>5, <1>6, <1>7, Zenon DEF Usable, SameNode, MainKept, Holds, File, Opens, Steps, rest
<1> QED BY <1>2, <1>3, <1>8, Zenon DEF StoreInv, IsWrite, Steps, rest

\* What is in current while a file is written.
LEMMA WriteSees ==
    ASSUME StoreInv, mode = "write", fails = 0
    PROVE  /\ Only(disk["current"], key) /\ HostsFull(disk["current"], key) /\ id = ids /\ ident # 0
           /\ File("current", "main") \in {None, Empty} \/ File("current", "main").val = ids
BY Zenon DEF StoreInv, IsWrite, Usable, Identity, Dirs

\* A write opens its temporary file.
LEMMA WriteOpens ==
    ASSUME StoreInv, mode = "write", DiskStep, newFirst' = newFirst,
           NEW f \in {"main", "self", "peer"}, Head(todo) = OpenTmp(f), disk["current"].made,
           (\A m \in {"main", "self", "peer"} : disk'["current"].file[m] = disk["current"].file[m])
           /\ disk'["current"].file[Tmp[f]] = Empty /\ disk'["current"].made /\ Steps
           => WritesPeer' \/ WritesMain'
    PROVE  StoreInv'
<1>1. TypeOK /\ Tmp[f] \notin {"main", "self", "peer"}
  BY DEF StoreInv, Tmp
<1>2. Sets("current", Tmp[f], Empty) /\ Steps
  BY <1>1, OpenTmpEffect, Zenon
<1>3. /\ DiskOK' /\ disk'["current"].made /\ disk'["current"].file[Tmp[f]] = Empty
      /\ \A e \in Dirs : e # "current" => disk'[e] = disk[e]
      /\ \A m \in {"main", "self", "peer"} : disk'["current"].file[m] = disk["current"].file[m]
  BY <1>1, <1>2, Zenon DEF Sets, Names, Hosts
<1>4. fails = 0 => Only(disk'["current"], key)
  BY <1>2, WriteSees, OnlyPut DEF Sets
<1>5. fails = 0 => HostsFull(disk'["current"], key)
  BY <1>3, WriteSees, Zenon DEF HostsFull
<1>6. fails = 0 => \/ disk'["current"].file["main"] \in {None, Empty}
                   \/ disk'["current"].file["main"].val = ids
  BY <1>3, WriteSees, Zenon DEF File
<1>7. Holds("current", "main") => disk'["current"].file["main"] # None
  BY <1>3, Zenon DEF Holds, File
<1> QED BY <1>2, <1>3, <1>4, <1>5, <1>6, <1>7, WriteNext, ZenonT(30)

\* A write closes its file.
LEMMA WriteFlushes ==
    ASSUME StoreInv, mode = "write", DiskStep, newFirst' = newFirst,
           NEW n \in {"main", "self.tmp", "peer.tmp"}, NEW v \in Nat, Head(todo) = Flush(n, v),
           disk["current"].made, n = "main" => v = id,
           (\A m \in {"main", "self", "peer"} \ {n} :
               disk'["current"].file[m] = disk["current"].file[m])
           /\ Readable(disk'["current"].file[n], key) /\ disk'["current"].file[n].val = v
           /\ disk'["current"].made /\ Steps
           => WritesPeer' \/ WritesMain'
    PROVE  StoreInv'
<1> DEFINE c == [key |-> key, val |-> v]
<1>1. TypeOK /\ key \in Keys /\ n \in Names
  BY Zenon DEF StoreInv, IsWrite, Usable, Names, Hosts
<1>2. Sets("current", n, c) /\ Steps /\ c \notin {None, Empty}
  BY <1>1, FlushEffect, Zenon
<1>3. c.key = key /\ c.val = v
  BY Zenon
<1> HIDE DEF c
<1>4. /\ DiskOK' /\ disk'["current"].made /\ disk'["current"].file[n] = c
      /\ \A e \in Dirs : e # "current" => disk'[e] = disk[e]
      /\ \A m \in {"main", "self", "peer"} \ {n} :
            disk'["current"].file[m] = disk["current"].file[m]
  BY <1>1, <1>2, Zenon DEF Sets, Names, Hosts
<1>5. Readable(c, key)
  BY <1>2, <1>3, ZenonT(30) DEF Readable
<1>6. fails = 0 => Only(disk'["current"], key)
  BY <1>2, <1>3, WriteSees, OnlyPut DEF Sets
<1>7. fails = 0 => HostsFull(disk'["current"], key)
  BY <1>4, WriteSees, Zenon DEF HostsFull
<1>8. fails = 0 => \/ disk'["current"].file["main"] \in {None, Empty}
                   \/ disk'["current"].file["main"].val = ids
  BY <1>3, <1>4, WriteSees, Zenon DEF File
<1>9. Holds("current", "main") => disk'["current"].file["main"] # None
  BY <1>2, <1>4, Zenon DEF Holds, File
<1> QED BY <1>2, <1>3, <1>4, <1>5, <1>6, <1>7, <1>8, <1>9, WriteNext, Zenon

\* A write renames its temporary file.
LEMMA WriteMoves ==
    ASSUME StoreInv, mode = "write", DiskStep, newFirst' = newFirst,
           NEW f \in {"main", "self", "peer"}, Head(todo) = MvTmp(f), disk["current"].made,
           f = "main" => /\ Holds("current", "main.tmp")
                         /\ fails = 0 => File("current", "main.tmp") = Empty,
           fails = 0 /\ f # "main" => Readable(File("current", Tmp[f]), key),
           fails = 0 /\ f = "peer" => File("current", Tmp[f]).val >= saved,
           (\A m \in {"main", "self", "peer"} \ {f} :
               disk'["current"].file[m] = disk["current"].file[m])
           /\ disk'["current"].file[f] = File("current", Tmp[f]) /\ disk'["current"].made /\ Steps
           => WritesPeer' \/ WritesMain'
    PROVE  StoreInv'
<1>1. TypeOK /\ Tmp[f] \notin {"main", "self", "peer"} /\ (f = "main" => Tmp[f] = "main.tmp")
  BY DEF StoreInv, Tmp
<1>2. Moves(f) /\ Steps
  BY <1>1, MvTmpEffect, Zenon
<1>3. /\ DiskOK' /\ disk'["current"].made /\ disk'["current"].file[f] = File("current", Tmp[f])
      /\ \A e \in Dirs : e # "current" => disk'[e] = disk[e]
      /\ \A m \in {"main", "self", "peer"} \ {f} :
            disk'["current"].file[m] = disk["current"].file[m]
  BY <1>1, <1>2, Zenon DEF Moves, Names, Hosts
<1>4. fails = 0 => Only(disk'["current"], key)
  BY <1>2, WriteSees, OnlyMove, Zenon
<1>5. fails = 0 => HostsFull(disk'["current"], key)
  BY <1>3, WriteSees, Zenon DEF HostsFull
<1>6. fails = 0 => \/ disk'["current"].file["main"] \in {None, Empty}
                   \/ disk'["current"].file["main"].val = ids
  BY <1>1, <1>3, WriteSees, Zenon DEF File
<1>7. Holds("current", "main") => disk'["current"].file["main"] # None
  BY <1>1, <1>3, Zenon DEF Holds, File
<1> QED BY <1>2, <1>3, <1>4, <1>5, <1>6, <1>7, WriteNext, Zenon

\* Where a write of the host file of a peer is after a step.
LEMMA PeerNow ==
    ASSUME Ends(todo', WriteProgram(counts.writes)), counts' = counts, key' = key, fails' = fails,
           NEW n \in 0 .. 3, Len(todo') = n, disk'["current"].made,
           fails = 0 =>
             /\ Readable(disk'["current"].file["main"], key)
             /\ n = 2 => /\ Readable(disk'["current"].file["peer.tmp"], key)
                         /\ disk'["current"].file["peer.tmp"].val = counts.writes
             /\ n = 1 => /\ Readable(disk'["current"].file["peer"], key)
                         /\ disk'["current"].file["peer"].val = counts.writes
    PROVE  WritesPeer'
BY Zenon DEF WritesPeer, Left, Opens, File

\* Where a write of meshlink.conf is after a step.
LEMMA MainNow ==
    ASSUME Ends(todo', write_main_config_files(id)), id' = id, key' = key, fails' = fails,
           NEW n \in 0 .. 5, Len(todo') = n, disk'["current"].made,
           n = 5 => disk'["current"].file["main.tmp"] = Empty,
           fails = 0 =>
             /\ n # 4 => Readable(disk'["current"].file["main"], key)
             /\ n = 4 => disk'["current"].file["main"] = Empty
             /\ n = 1 => Readable(disk'["current"].file["self.tmp"], key)
    PROVE  WritesMain'
BY FilesAssumption, Zenon DEF WritesMain, Left, Opens, Holds, File

\* Every disk step of node_write_config for a peer preserves StoreInv.
LEMMA PeerStep ==
    ASSUME StoreInv, mode = "write", DiskStep, newFirst' = newFirst, WritesPeer
    PROVE  StoreInv'
<1> DEFINE p == WriteProgram(counts.writes)
           w == counts.writes
<1>1. /\ TypeOK /\ Usable /\ "current" \in Dirs /\ w \in Nat /\ saved <= w
  BY DEF StoreInv, IsWrite, Dirs, TypeOK
<1>2. Ends(todo, p) /\ todo # <<>>
  BY Picks, Zenon DEF WritesPeer
<1>3. /\ Ends(Tail(todo), p) /\ Len(Tail(todo)) = Left - 1
      /\ Left = 4 => Head(todo) = OpenTmp("peer")
      /\ Left = 3 => Head(todo) = Flush("peer.tmp", w)
      /\ Left = 2 => Head(todo) = MvTmp("peer")
      /\ Left = 1 => Head(todo) = Written(w)
  BY <1>2, PeerTable, Zenon DEF Left
<1>4. Left \in 0 .. 4 /\ Left # 0
  <2>1. Len(todo) \in 0 .. 4
    BY <1>2, PeerTable, Zenon
  <2>2. Len(todo) # 0
    BY <1>2, PeerTable
  <2> QED BY <2>1, <2>2, Zenon DEF Left
<1>5. fails = 0 => Opens("current", key) /\ Holds("current", "main")
  BY Zenon DEF WritesPeer, Opens, Readable, Holds
<1>6. Tmp["peer"] = "peer.tmp"
  BY Zenon DEF Tmp
<1>11. /\ Left = 4 => Len(Tail(todo)) = 3
       /\ Left = 3 => Len(Tail(todo)) = 2
       /\ Left = 2 => Len(Tail(todo)) = 1
  <2> DEFINE n == Len(Tail(todo))
  <2>1. n = Left - 1
    BY <1>3, Zenon
  <2> HIDE DEF n
  <2>2. (Left = 4 => n = 3) /\ (Left = 3 => n = 2) /\ (Left = 2 => n = 1)
    BY <1>4, <2>1
  <2> QED BY <2>2, Zenon DEF n
<1> HIDE DEF p
<1>7. CASE Left = 4
  <2>1. CASE disk["current"].made
    <3>1. SUFFICES ASSUME \A m \in {"main", "self", "peer"} :
                              disk'["current"].file[m] = disk["current"].file[m],
                          disk'["current"].made, Steps
                   PROVE  WritesPeer'
      BY <1>3, <1>7, <2>1, WriteOpens, Zenon
    <3>2. Len(todo') = 3 /\ Ends(todo', p)
      BY <1>3, <1>7, <1>11, <3>1, Zenon DEF Steps
    <3> QED BY <1>5, <3>1, <3>2, PeerNow DEF Steps, rest, Opens, File, p
  <2>2. CASE ~disk["current"].made
    <3>1. fails # 0
      BY <1>1, <1>5, <2>2, MadeIfHeld, Zenon
    <3> QED BY <1>3, <1>7, <2>2, <3>1, OpenTmpFails, WriteFails, Zenon
  <2> QED BY <2>1, <2>2, Zenon
<1>8. CASE Left = 3
  <2>1. disk["current"].made
    BY <1>8 DEF WritesPeer
  <2>2. SUFFICES ASSUME \A m \in {"main", "self", "peer"} \ {"peer.tmp"} :
                           disk'["current"].file[m] = disk["current"].file[m],
                        Readable(disk'["current"].file["peer.tmp"], key),
                        disk'["current"].file["peer.tmp"].val = w,
                        disk'["current"].made, Steps
                 PROVE  WritesPeer'
    BY <1>1, <1>3, <1>8, <2>1, WriteFlushes, Zenon
  <2>3. Len(todo') = 2 /\ Ends(todo', p)
    BY <1>3, <1>8, <1>11, <2>2, Zenon DEF Steps
  <2> QED BY <1>5, <2>2, <2>3, PeerNow DEF Steps, rest, Opens, File, p
<1>9. CASE Left = 2
  <2>1. /\ disk["current"].made
        /\ fails = 0 => /\ Readable(File("current", "peer.tmp"), key)
                        /\ File("current", "peer.tmp").val = w
    BY <1>9 DEF WritesPeer
  <2>2. SUFFICES ASSUME \A m \in {"main", "self", "peer"} \ {"peer"} :
                           disk'["current"].file[m] = disk["current"].file[m],
                        disk'["current"].file["peer"] = File("current", "peer.tmp"),
                        disk'["current"].made, Steps
                 PROVE  WritesPeer'
    BY <1>1, <1>3, <1>6, <1>9, <2>1, WriteMoves, Zenon
  <2>3. Len(todo') = 1 /\ Ends(todo', p)
    BY <1>3, <1>9, <1>11, <2>2, Zenon DEF Steps
  <2> QED BY <1>5, <2>1, <2>2, <2>3, PeerNow DEF Steps, rest, Opens, File, p
<1>10. CASE Left = 1
  <2>1. /\ saved' = w /\ disk' = disk /\ todo' = Tail(todo)
        /\ UNCHANGED <<mode, key, newkey, id, ids, keys, tried, fails, newFirst, counts, ident>>
    BY <1>3, <1>10, WrittenEffect, Zenon
  <2>2. /\ disk["current"].made
        /\ fails = 0 => Readable(File("current", "peer"), key) /\ File("current", "peer").val = w
    BY <1>10 DEF WritesPeer
  <2>3. TypeOK'
    BY <1>1, <2>1 DEF TypeOK
  <2>4. fails' = 0 => Identity'
    BY <1>1, <2>1, ZenonT(30) DEF StoreInv, Identity, Usable, File, Uniform
  <2>5. fails = 0 => HostsFull(disk["current"], key)'
    BY <1>1, <2>1, <2>2 DEF HostsFull, Usable, File
  <2>6. Usable'
    BY <1>1, <2>1, <2>5, Zenon DEF Usable, SameNode, MainKept, Holds, File, Only, Opens
  <2>7. Len(todo') = 0 /\ Ends(todo', p)
    BY <1>3, <1>10, <2>1
  <2>8. WritesPeer'
    BY <1>5, <2>1, <2>2, <2>7, PeerNow DEF Opens, File, p
  <2> QED BY <2>1, <2>3, <2>4, <2>6, <2>8, Zenon DEF StoreInv, IsWrite
<1> QED BY <1>4, <1>7, <1>8, <1>9, <1>10

\* Every disk step of write_main_config_files preserves StoreInv.
LEMMA MainStep ==
    ASSUME StoreInv, mode = "write", DiskStep, newFirst' = newFirst, WritesMain
    PROVE  StoreInv'
<1> DEFINE p == write_main_config_files(id)
<1>1. /\ TypeOK /\ Usable /\ "current" \in Dirs /\ id \in Nat
  BY DEF StoreInv, IsWrite, Dirs, TypeOK
<1>2. Ends(todo, p) /\ todo # <<>>
  BY Picks, Zenon DEF WritesMain
<1>3. /\ Ends(Tail(todo), p) /\ Len(Tail(todo)) = Left - 1
      /\ Left = 6 => Head(todo) = OpenTmp("main")
      /\ Left = 5 => Head(todo) = MvTmp("main")
      /\ Left = 4 => Head(todo) = Flush("main", id)
      /\ Left = 3 => Head(todo) = OpenTmp("self")
      /\ Left = 2 => Head(todo) = Flush("self.tmp", 0)
      /\ Left = 1 => Head(todo) = MvTmp("self")
  BY <1>2, MainTable, Zenon DEF Left
<1>4. Left \in 0 .. 6 /\ Left # 0
  <2>1. Len(todo) \in 0 .. 6
    BY <1>2, MainTable, Zenon
  <2>2. Len(todo) # 0
    BY <1>2, MainTable
  <2> QED BY <2>1, <2>2, Zenon DEF Left
<1>5. fails = 0 /\ Left # 4 => Opens("current", key) /\ Holds("current", "main")
  BY ZenonT(30) DEF WritesMain, Opens, Readable, Holds
<1>6. Tmp["main"] = "main.tmp" /\ Tmp["self"] = "self.tmp"
  BY Zenon DEF Tmp
<1>m. Left <= 5 => disk["current"].made
  BY Zenon DEF WritesMain
<1> HIDE DEF p
<1>7. CASE Left = 6
  <2>1. CASE disk["current"].made
    <3>1. SUFFICES ASSUME \A m \in {"main", "self", "peer"} :
                              disk'["current"].file[m] = disk["current"].file[m],
                          disk'["current"].file["main.tmp"] = Empty,
                          disk'["current"].made, Steps
                   PROVE  WritesMain'
      BY <1>3, <1>6, <1>7, <2>1, WriteOpens, Zenon
    <3>2. Len(todo') = 5 /\ Ends(todo', p)
      BY <1>3, <1>7, <3>1 DEF Steps
    <3> QED BY <1>5, <1>7, <3>1, <3>2, FilesAssumption, MainNow DEF Steps, rest, Opens, File, p
  <2>2. CASE ~disk["current"].made
    <3>1. fails # 0
      BY <1>1, <1>5, <1>7, <2>2, MadeIfHeld
    <3> QED BY <1>3, <1>7, <2>2, <3>1, OpenTmpFails, WriteFails, Zenon
  <2> QED BY <2>1, <2>2, Zenon
<1>8. CASE Left = 5
  <2>1. Holds("current", "main.tmp") /\ (fails = 0 => File("current", "main.tmp") = Empty)
    BY <1>8, Zenon DEF WritesMain
  <2>2. SUFFICES ASSUME disk'["current"].file["main"] = File("current", "main.tmp"),
                        disk'["current"].made, Steps
                 PROVE  WritesMain'
    BY <1>1, <1>3, <1>6, <1>8, <1>m, <2>1, WriteMoves
  <2>3. Len(todo') = 4 /\ Ends(todo', p)
    BY <1>3, <1>8, <2>2 DEF Steps
  <2> QED BY <2>1, <2>2, <2>3, MainNow DEF Steps, rest, Opens, File, p
<1>9. CASE Left = 4
  <2>2. SUFFICES ASSUME Readable(disk'["current"].file["main"], key),
                        disk'["current"].made, Steps
                 PROVE  WritesMain'
    BY <1>1, <1>3, <1>9, <1>m, WriteFlushes
  <2>3. Len(todo') = 3 /\ Ends(todo', p)
    BY <1>3, <1>9, <2>2 DEF Steps
  <2> QED BY <2>2, <2>3, MainNow DEF Steps, rest, Opens, File, p
<1>10. CASE Left = 3
  <2>1. SUFFICES ASSUME \A m \in {"main", "self", "peer"} :
                            disk'["current"].file[m] = disk["current"].file[m],
                        disk'["current"].made, Steps
                 PROVE  WritesMain'
    BY <1>3, <1>10, <1>m, WriteOpens
  <2>2. Len(todo') = 2 /\ Ends(todo', p)
    BY <1>3, <1>10, <2>1 DEF Steps
  <2> QED BY <1>5, <1>10, <2>1, <2>2, MainNow DEF Steps, rest, Opens, File, p
<1>11. CASE Left = 2
  <2>1. SUFFICES ASSUME \A m \in {"main", "self", "peer"} \ {"self.tmp"} :
                           disk'["current"].file[m] = disk["current"].file[m],
                        Readable(disk'["current"].file["self.tmp"], key),
                        disk'["current"].made, Steps
                 PROVE  WritesMain'
    BY <1>3, <1>11, <1>m, WriteFlushes
  <2>2. Len(todo') = 1 /\ Ends(todo', p)
    BY <1>3, <1>11, <2>1 DEF Steps
  <2> QED BY <1>5, <1>11, <2>1, <2>2, MainNow DEF Steps, rest, Opens, File, p
<1>12. CASE Left = 1
  <2>1. fails = 0 => Readable(File("current", "self.tmp"), key)
    BY <1>12, Zenon DEF WritesMain
  <2>2. SUFFICES ASSUME \A m \in {"main", "self", "peer"} \ {"self"} :
                           disk'["current"].file[m] = disk["current"].file[m],
                        disk'["current"].made, Steps
                 PROVE  WritesMain'
    BY <1>1, <1>3, <1>6, <1>12, <1>m, <2>1, WriteMoves
  <2>3. Len(todo') = 0 /\ Ends(todo', p)
    BY <1>3, <1>12, <2>2 DEF Steps
  <2> QED BY <1>5, <1>12, <2>2, <2>3, MainNow DEF Steps, rest, Opens, File, p
<1> QED BY <1>4, <1>7, <1>8, <1>9, <1>10, <1>11, <1>12

\* Every disk step of a write preserves StoreInv.
LEMMA WriteStep ==
    ASSUME StoreInv, mode = "write", DiskStep, newFirst' = newFirst
    PROVE  StoreInv'
BY PeerStep, MainStep, Zenon DEF StoreInv, IsWrite

-----------------------------------------------------------------------------
\* meshlink_confbase_exists.

\* meshlink_open_ex begins meshlink_setup with an identity that was not used before.
LEMMA SetupBegins ==
    ASSUME TypeOK, Setup, DiskOK', key' \in Keys, fails' \in 0 .. MaxFail,
           UNCHANGED <<newkey, newFirst, counts>>, fails' = 0 => Identity'
    PROVE  StoreInv'
<1>1. /\ mode' = "setup" /\ id' = ids + 1 /\ ids' = ids + 1 /\ todo' = meshlink_setup(ids + 1)
      /\ UNCHANGED <<keys, tried, saved, ident>>
  BY Zenon DEF Setup, app
<1>2. TypeOK'
  BY <1>1 DEF TypeOK, DiskOK, Dir
<1>3. ident' < ids' /\ id' = ids'
  BY <1>1 DEF TypeOK
<1>4. Ends(todo', meshlink_setup(id')) /\ Len(todo') = 13
  <2> DEFINE p == meshlink_setup(id')
  <2>1. todo' = p
    BY <1>1, Zenon
  <2>2. (\E S : p \in Seq(S)) /\ Len(p) = 13
    BY SetupOps, Zenon
  <2> HIDE DEF p
  <2>3. PICK S : p \in Seq(S)
    BY <2>2, Zenon
  <2>4. Ends(p, p)
    BY <2>3, Whole, Zenon
  <2> QED BY <2>1, <2>2, <2>4, Zenon DEF p
<1>5. \A n : n = 13 => /\ ~(n <= 12) /\ ~(n <= 11) /\ ~(n <= 9) /\ n # 8 /\ ~(n <= 7)
                       /\ ~(n <= 6) /\ n \notin {1, 4} /\ ~(n <= 3)
  OBVIOUS
<1>6. IsSetup'
  BY <1>3, <1>4, <1>5, Zenon DEF IsSetup, Left
<1> QED BY <1>1, <1>2, <1>6, Zenon DEF StoreInv

\* A recovery whose fsync fails ends in meshlink_setup.
LEMMA RecoverFails ==
    ASSUME StoreInv, mode = "recover", SyncFails, DiskOK'
    PROVE  StoreInv'
<1>1. TypeOK /\ key \in Keys /\ fails \in Nat
  BY DEF StoreInv, IsRecover, TypeOK
<1>2. Setup /\ fails' \in 0 .. MaxFail /\ fails' # 0 /\ UNCHANGED <<key, newkey, newFirst, counts>>
  BY <1>1, BoundsAssumption DEF SyncFails, Failed
<1> QED BY <1>1, <1>2, SetupBegins, ZenonT(30)

\* Only what is left after the move is common to restoring new and restoring old.
LEMMA RestoresOne ==
    ASSUME NEW t, Ends(t, Restore("new")), Ends(t, Restore("old"))
    PROVE  Len(t) \in {0, 1, 2}
<1>1. /\ Len(t) \in 0 .. 4 /\ (t = <<>> <=> Len(t) = 0)
  BY RestoreTable, Zenon
<1>2. ASSUME NEW u, Ends(u, Restore("new")), Ends(u, Restore("old"))
      PROVE  Len(u) # 3
  <2>1. Len(u) = 3 => Head(u) = Rename("new", "current") /\ Head(u) = Rename("old", "current")
    BY <1>2, RestoreTable, Zenon
  <2>2. Rename("new", "current").from = "new" /\ Rename("old", "current").from = "old"
    BY Zenon DEF Rename
  <2>3. Rename("new", "current") # Rename("old", "current")
    BY <2>2, Zenon
  <2> QED BY <2>1, <2>3, Zenon
<1>3. Len(t) # 4
  <2>1. t # <<>> => /\ Ends(Tail(t), Restore("new")) /\ Ends(Tail(t), Restore("old"))
                    /\ Len(Tail(t)) = Len(t) - 1
    BY RestoreTable, Zenon
  <2>2. SUFFICES ASSUME Len(t) = 4 PROVE FALSE
    BY Zenon
  <2>3. t # <<>>
    BY <1>1, <2>2
  <2>4. Len(Tail(t)) = 3
    BY <2>1, <2>2, <2>3
  <2>5. Len(Tail(t)) # 3
    BY <1>2, <2>1, <2>3, Zenon
  <2> QED BY <2>4, <2>5, Zenon
<1>4. Len(t) # 3
  BY <1>2, Zenon
<1>5. \A n \in 0 .. 4 : n # 3 /\ n # 4 => n \in {0, 1, 2}
  OBVIOUS
<1> QED BY <1>1, <1>3, <1>4, <1>5, Zenon

\* A recovery before the move: the directory to be restored is untouched.
LEMMA RecoverEarly ==
    ASSUME StoreInv, mode = "recover", Stays \/ Steps, DiskOK', fails = 0 => Identity',
           NEW r \in {"new", "old"}, Ends(todo, Restore(r)), Ends(todo', Restore(r)),
           NEW m \in {3, 4}, Left = m, NEW n \in {3, 4}, Len(todo') = n,
           \A e \in Dirs : e # "current" => disk'[e] = disk[e],
           disk'["current"].file["main"] \in {None, disk["current"].file["main"]},
           n = 3 => disk'["current"] = Gone
    PROVE  StoreInv'
<1>1. TypeOK /\ IsRecover
  BY Zenon DEF StoreInv
<1>2. TypeOK'
  BY <1>1, TypeStays, Zenon
<1>3. fails' = 0 => Identity'
  BY Zenon DEF Stays, Steps, rest
<1>4. UNCHANGED rest
  BY Zenon DEF Stays, Steps
<1>5. disk'["new"] = disk["new"] /\ disk'["old"] = disk["old"]
  BY Zenon DEF Dirs
<1>6. Holds(r, "main")
  BY <1>1 DEF IsRecover, Left
<1>7. \A d \in {"new", "old"} : Ends(todo', Restore(d)) => d = r
  <2>1. ~(Ends(todo', Restore("new")) /\ Ends(todo', Restore("old")))
    <3>1. \A k \in {3, 4} : k \notin {0, 1, 2}
      OBVIOUS
    <3>2. Ends(todo', Restore("new")) /\ Ends(todo', Restore("old")) => n \in {0, 1, 2}
      BY RestoresOne, Zenon
    <3> QED BY <3>1, <3>2, Zenon
  <2> QED BY <2>1
<1>8. \A d \in {"new", "old"} : Ends(todo', Restore(d)) =>
         disk'[d].file["main"] # None /\ (n = 3 => ~disk'["current"].made)
  BY <1>5, <1>6, <1>7, GoneDir, Zenon DEF Holds, File
<1>9. fails = 0 => key = keys[tried]
  BY <1>1, Zenon DEF IsRecover
<1>10. OldKeyFirst => /\ tried = 1 /\ Ends(todo, Restore("old")) /\ Full(disk["old"], key)
                      /\ ~Opens("current", key) /\ ~Opens("new", key)
  BY <1>1 DEF IsRecover, Left
<1>11. OldKeyFirst => r = "old"
  <2>1. \A k \in {3, 4} : k \notin {0, 1, 2}
    OBVIOUS
  <2> QED BY <1>10, <2>1, RestoresOne, Zenon DEF Left
<1>12. OldKeyFirst => /\ tried' = 1 /\ Ends(todo', Restore("old")) /\ Full(disk["old"], key)'
                      /\ ~Opens("current", key)' /\ ~Opens("new", key)'
  BY <1>4, <1>5, <1>10, <1>11, ZenonT(30) DEF rest, Full, HostsFull, Opens, File, Readable
<1>13. n >= 3 /\ n \notin {1, 2} /\ n # 0 /\ ~(n <= 1)
  OBVIOUS
<1>14. key' \in Keys
  BY <1>1, <1>4, Zenon DEF IsRecover, rest
<1>15. IsRecover'
  BY <1>4, <1>8, <1>9, <1>12, <1>13, <1>14, Zenon DEF IsRecover, Left, Holds, File, rest, OldKeyFirst
<1> QED BY <1>2, <1>3, <1>4, <1>15, Zenon DEF StoreInv, rest

\* meshlink_confbase_exists destroys current and moves the other directory there.
LEMMA RecoverFirst ==
    ASSUME StoreInv, mode = "recover", DiskStep, newFirst' = newFirst, Left \in {3, 4}
    PROVE  StoreInv'
<1>1. TypeOK /\ IsRecover /\ (fails = 0 => Identity)
  BY Zenon DEF StoreInv
<1>2. PICK r \in {"new", "old"} : Ends(todo, Restore(r))
  BY <1>1, Zenon DEF IsRecover
<1>3. todo # <<>>
  BY Picks, Zenon
<1>4. /\ Ends(Tail(todo), Restore(r)) /\ Len(Tail(todo)) = Left - 1
      /\ Left = 4 => Head(todo) = Destroy("current")
      /\ Left = 3 => Head(todo) = Rename(r, "current")
  BY <1>2, <1>3, RestoreTable, Zenon DEF Left
<1>5. "current" \in Dirs /\ r \in Dirs /\ r # "current"
  BY Zenon DEF Dirs
<1>6. CASE Left = 4
  <2>1. CASE \E n \in Names : Sets("current", n, None) /\ Stays
    <3>1. PICK n \in Names : Sets("current", n, None) /\ Stays
      BY <2>1, Zenon
    <3>2. fails = 0 => Identity'
      BY <1>1, <1>5, <3>1, IdentitySets, Zenon DEF Stays, rest
    <3>3. disk'["current"].file["main"] \in {None, disk["current"].file["main"]}
      BY <3>1, Zenon DEF Sets, Names
    <3>4. Len(todo') = 4 /\ todo' = todo
      BY <1>6, <3>1, Zenon DEF Stays, Left
    <3>5. DiskOK' /\ \A e \in Dirs : e # "current" => disk'[e] = disk[e]
      BY <3>1, Zenon DEF Sets
    <3> QED BY <1>2, <1>6, <3>1, <3>2, <3>3, <3>4, <3>5, RecoverEarly
  <2>2. CASE Becomes("current", Gone) /\ Steps
    <3>2. fails = 0 => Identity'
      BY <1>1, <1>5, <2>2, GoneDir, IdentityNone, Zenon DEF Steps, rest
    <3>3. disk'["current"] = Gone /\ disk'["current"].file["main"] = None
      BY <2>2, GoneDir, Zenon DEF Becomes, Names
    <3>4. Len(todo') = 3 /\ Ends(todo', Restore(r))
      BY <1>4, <1>6, <2>2 DEF Steps
    <3>5. DiskOK' /\ \A e \in Dirs : e # "current" => disk'[e] = disk[e]
      BY <2>2, Zenon DEF Becomes
    <3> QED BY <1>2, <1>6, <2>2, <3>2, <3>3, <3>4, <3>5, RecoverEarly, Zenon
  <2>3. CASE Becomes("current", Gone) /\ SyncFails
    BY <2>3, RecoverFails, Zenon DEF Becomes
  <2> QED BY <1>1, <1>4, <1>5, <1>6, <2>1, <2>2, <2>3, DestroyEffect, Zenon
<1>7. CASE Left = 3
  <2>1. Holds(r, "main") /\ ~disk["current"].made
    BY <1>1, <1>2, <1>7 DEF IsRecover
  <2>2. disk[r].made
    BY <1>1, <1>5, <2>1, MadeIfHeld, Zenon
  <2>3. Moved(r, "current") /\ (Steps \/ SyncFails)
    BY <1>1, <1>4, <1>5, <1>7, <2>1, <2>2, RenameEffect, Zenon
  <2>4. CASE SyncFails
    BY <2>3, <2>4, RecoverFails, Zenon DEF Moved
  <2>5. CASE Steps
    <3>1. TypeOK'
      BY <1>1, <2>3, <2>5, TypeStays, Zenon DEF Moved
    <3>2. fails' = 0 => Identity'
      BY <1>1, <1>5, <2>3, <2>5, IdentityMoved, Zenon DEF Steps, rest
    <3>3. Len(todo') = 2 /\ Ends(todo', Restore(r))
      BY <1>4, <1>7, <2>5 DEF Steps
    <3>4. disk'["current"] = disk[r]
      BY <2>3, Zenon DEF Moved
    <3>5. OldKeyFirst => tried = 1 /\ Ends(todo, Restore("old")) /\ Full(disk["old"], key)
      BY <1>1, <1>7 DEF IsRecover
    <3>6. OldKeyFirst => r = "old"
      BY <1>2, <1>7, <3>5, RestoresOne DEF Left
    <3>7. OldKeyFirst' => tried' = 1 /\ Full(disk["current"], key)'
      BY <2>5, <3>4, <3>5, <3>6 DEF Steps, rest, Full, HostsFull, OldKeyFirst
    <3>8. /\ key' \in Keys /\ disk'["current"].file["main"] # None
          /\ fails' = 0 => key' = keys'[tried']
      BY <1>1, <2>1, <2>5, <3>4, Zenon DEF IsRecover, Steps, rest, Holds, File
    <3>9. \A n : n = 2 => n # 0 /\ ~(n <= 1) /\ ~(n >= 3) /\ n # 3
      OBVIOUS
    <3>10. Ends(todo', Restore("new")) \/ Ends(todo', Restore("old"))
      BY <3>3, Zenon
    <3>11. IsRecover'
      BY <3>3, <3>7, <3>8, <3>9, <3>10, Zenon DEF IsRecover, Left, Holds, File
    <3> QED BY <2>5, <3>1, <3>2, <3>11, Zenon DEF StoreInv, Steps, rest
  <2> QED BY <2>3, <2>4, <2>5, Zenon
<1> QED BY <1>6, <1>7, Zenon

\* A recovery after the move: current is untouched.
LEMMA RecoverLate ==
    ASSUME StoreInv, mode = "recover", Stays \/ Steps, DiskOK', fails = 0 => Identity',
           Ends(todo', Restore("new")) \/ Ends(todo', Restore("old")),
           NEW m \in {1, 2}, Left = m, NEW n \in {0, 1, 2}, Len(todo') = n,
           disk'["current"] = disk["current"],
           \A e \in Dirs : disk'[e].file["main"] \in {None, disk[e].file["main"]},
           fails = 0 /\ Opens("current", key) =>
              (n <= 1 => disk'["old"] = Gone) /\ (n = 0 => disk'["new"] = Gone)
    PROVE  StoreInv'
<1>1. TypeOK /\ IsRecover /\ "current" \in Dirs
  BY Zenon DEF StoreInv, Dirs
<1>2. TypeOK'
  BY <1>1, TypeStays, Zenon
<1>3. fails' = 0 => Identity'
  BY Zenon DEF Stays, Steps, rest
<1>4. UNCHANGED rest
  BY Zenon DEF Stays, Steps
<1>5. /\ key' \in Keys /\ (fails' = 0 => key' = keys'[tried'])
      /\ SameNode => disk'["current"].file["main"] # None
  BY <1>1, <1>4, Zenon DEF IsRecover, rest, Left, Holds, File
<1>6. OldKeyFirst => Full(disk["current"], key) /\ (tried = 2 => SecondKey)
  BY <1>1, Zenon DEF IsRecover
<1>7. OldKeyFirst => (Full(disk["current"], key) /\ (tried = 2 => SecondKey))'
  BY <1>4, <1>6, Zenon DEF rest, Full, HostsFull, SecondKey, Opens, File, Readable
<1>8. Full(disk["current"], key)' => Opens("current", key)'
  BY Zenon DEF Full, Opens, File
<1>9. ~(n >= 3) /\ n # 3
  OBVIOUS
<1>11. fails' = 0 /\ Opens("current", key)' =>
              (n <= 1 => disk'["old"] = Gone) /\ (n = 0 => disk'["new"] = Gone)
  BY <1>4, Zenon DEF rest, Opens, File
<1>12. SameNode' => /\ disk'["current"].file["main"] # None
                    /\ \E d \in Dirs : disk'[d].file["main"] # None
  BY <1>1, <1>4, <1>5, Zenon DEF SameNode, rest
<1>13. OldKeyFirst' => OldKeyFirst
  BY <1>4, Zenon DEF OldKeyFirst, rest
<1>14. IsRecover'
  BY <1>5, <1>7, <1>8, <1>9, <1>11, <1>12, <1>13, Zenon DEF IsRecover, Left, Holds, File
<1> QED BY <1>2, <1>3, <1>4, <1>14, Zenon DEF StoreInv, rest

\* meshlink_confbase_exists destroys what is left of old and new.
LEMMA RecoverLast ==
    ASSUME StoreInv, mode = "recover", DiskStep, newFirst' = newFirst, Left \in {1, 2}
    PROVE  StoreInv'
<1> DEFINE d == IF Left = 2 THEN "old" ELSE "new"
<1>1. /\ TypeOK /\ IsRecover /\ (fails = 0 => Identity)
      /\ d \in Dirs /\ "current" \in Dirs /\ d # "current"
  BY Zenon DEF StoreInv, Dirs
<1>2. PICK r \in {"new", "old"} : Ends(todo, Restore(r))
  BY <1>1, Zenon DEF IsRecover
<1>3. todo # <<>>
  BY Picks, Zenon
<1>4. /\ Ends(Tail(todo), Restore(r)) /\ Len(Tail(todo)) = Left - 1
      /\ Head(todo) = Destroy(d)
  BY <1>2, <1>3, RestoreTable, Zenon DEF Left
<1>5. Ends(todo, Restore("new")) \/ Ends(todo, Restore("old"))
  BY <1>2, Zenon
<1>6. Ends(Tail(todo), Restore("new")) \/ Ends(Tail(todo), Restore("old"))
  BY <1>4, Zenon
<1>7. fails = 0 /\ Opens("current", key) /\ Left = 1 => disk["old"] = Gone
  BY <1>1 DEF IsRecover
<1>8. CASE \E n \in Names : Sets(d, n, None) /\ Stays
  <2>1. PICK n \in Names : Sets(d, n, None) /\ Stays
    BY <1>8, Zenon
  <2>2. fails = 0 => Identity'
    BY <1>1, <2>1, IdentitySets, Zenon DEF Stays, rest
  <2>3. /\ DiskOK' /\ disk'["current"] = disk["current"]
        /\ \A e \in Dirs : disk'[e].file["main"] \in {None, disk[e].file["main"]}
    BY <1>1, <2>1, Zenon DEF Sets, Names
  <2>4. Left = 1 => disk'["old"] = disk["old"]
    BY <2>1 DEF Sets, Dirs
  <2>5. Len(todo') = Left /\ todo' = todo
    BY <2>1, Zenon DEF Stays, Left
  <2> DEFINE m == Left
  <2>6. m \in {1, 2} /\ Left = m /\ Len(todo') = m
    BY <2>5, Zenon
  <2>7. fails = 0 /\ Opens("current", key) =>
              (m <= 1 => disk'["old"] = Gone) /\ (m = 0 => disk'["new"] = Gone)
    BY <1>7, <2>4
  <2> HIDE DEF m
  <2> QED BY <1>5, <2>1, <2>2, <2>3, <2>5, <2>6, <2>7, RecoverLate, Zenon
<1>9. CASE Becomes(d, Gone) /\ Steps
  <2>2. fails = 0 => Identity'
    BY <1>1, <1>9, GoneDir, IdentityNone, Zenon DEF Steps, rest
  <2>3. /\ DiskOK' /\ disk'["current"] = disk["current"]
        /\ \A e \in Dirs : disk'[e].file["main"] \in {None, disk[e].file["main"]}
    BY <1>1, <1>9, GoneDir, Zenon DEF Becomes, Names
  <2>4. disk'[d] = Gone /\ (Left = 1 => disk'["old"] = disk["old"])
    BY <1>9 DEF Becomes, Dirs
  <2> DEFINE m == Left
             n == Left - 1
  <2>5. m \in {1, 2} /\ n \in {0, 1, 2} /\ Left = m /\ Len(todo') = n
    BY <1>4, <1>9 DEF Steps
  <2>6. fails = 0 /\ Opens("current", key) =>
              (n <= 1 => disk'["old"] = Gone) /\ (n = 0 => disk'["new"] = Gone)
    BY <1>7, <2>4
  <2>7. Ends(todo', Restore("new")) \/ Ends(todo', Restore("old"))
    BY <1>6, <1>9, Zenon DEF Steps
  <2> HIDE DEF m, n
  <2> QED BY <1>9, <2>2, <2>3, <2>5, <2>6, <2>7, RecoverLate, Zenon
<1>10. CASE Becomes(d, Gone) /\ SyncFails
  BY <1>10, RecoverFails, Zenon DEF Becomes
<1> QED BY <1>1, <1>4, <1>8, <1>9, <1>10, DestroyEffect, Zenon

\* Every disk step of meshlink_confbase_exists preserves StoreInv.
LEMMA RecoverStep ==
    ASSUME StoreInv, mode = "recover", DiskStep, newFirst' = newFirst
    PROVE  StoreInv'
<1>1. PICK r \in {"new", "old"} : Ends(todo, Restore(r))
  BY Zenon DEF StoreInv, IsRecover
<1>2. todo # <<>>
  BY Picks, Zenon
<1>3. Len(todo) \in 0 .. 4 /\ Len(todo) # 0
  <2>1. Len(todo) \in 0 .. 4
    BY <1>1, RestoreTable, Zenon
  <2>2. Len(todo) # 0
    BY <1>1, <1>2, RestoreTable
  <2> QED BY <2>1, <2>2, Zenon
<1>4. \A n \in 0 .. 4 : n # 0 => n \in {1, 2} \/ n \in {3, 4}
  OBVIOUS
<1> QED BY <1>3, <1>4, RecoverFirst, RecoverLast, Zenon DEF Left
=============================================================================
