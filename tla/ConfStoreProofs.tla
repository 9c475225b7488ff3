--------------------------- MODULE ConfStoreProofs --------------------------
(***************************************************************************)
(* Proofs about the configuration store (module ConfStore), for any set of *)
(* storage keys and any number of writes, rotations, crashes and failing   *)
(* fsync calls. StoreInv is preserved by each step of                      *)
(* meshlink_encrypted_key_rotate and by each call of the application, a    *)
(* crash included; module ConfStoreSteps has the other steps. The theorems *)
(* are at the end.                                                         *)
(***************************************************************************)
EXTENDS ConfStoreSteps

\* The provers get 30 seconds for a leaf, however busy the machine is.
USE SMTT(30), ZenonT(30)

-----------------------------------------------------------------------------
\* meshlink_encrypted_key_rotate.

\* A rotation that returns false leaves current as it was, or an fsync has failed.
LEMMA RotateFailed ==
    ASSUME StoreInv, mode = "rotate", Failed, DiskOK', fails' \in 0 .. MaxFail,
           UNCHANGED <<key, newkey, newFirst, counts>>,
           SameNode => MainKept',
           fails' = 0 => /\ disk' = disk /\ fails = 0 /\ Left = 5
    PROVE  StoreInv'
<1>1. TypeOK /\ IsRotate /\ (fails = 0 => Identity)
  BY Zenon DEF StoreInv
<1>2. /\ mode' = "up" /\ todo' = <<>> /\ keys' = <<key>>
      /\ UNCHANGED <<id, ids, tried, saved, ident>>
  BY Zenon DEF Failed
<1>3. key \in Keys /\ tried = 1 /\ ident # 0
  BY <1>1, Zenon DEF IsRotate
<1>4. keys' \in Seq(Keys) /\ Len(keys') = 1 /\ tried' \in 1 .. Len(keys')
  BY <1>2, <1>3
<1>5. TypeOK'
  BY <1>1, <1>2, <1>3, <1>4, Zenon DEF TypeOK, DiskOK, Dir
<1>6. fails' = 0 => Identity'
  BY <1>1, <1>2 DEF Identity, File, Uniform
<1>7. fails' = 0 => /\ id = ids /\ key # newkey
                    /\ Full(disk["current"], key) /\ Only(disk["current"], key)
                    /\ disk["old"] = Gone
  BY <1>1 DEF IsRotate
<1>8. fails' = 0 => ~Opens("new", key)
  <2>1. SUFFICES ASSUME fails' = 0, Opens("new", key) PROVE FALSE
    BY Zenon
  <2>2. File("new", "main") \in {Empty, Copied(File("current", "main"))}
    BY <1>1, <2>1, Zenon DEF IsRotate, Opens, Readable, Holds, Names
  <2> QED BY <1>7, <2>1, <2>2 DEF Opens, Readable, Copied
<1>9. fails' = 0 =>
        (Full(disk["current"], key) /\ Only(disk["current"], key) /\ ~Opens("new", key))'
  BY <1>2, <1>7, <1>8, Zenon DEF Full, HostsFull, Only, Opens, File
<1>10. Usable'
  BY <1>2, <1>3, <1>7, <1>9, Zenon DEF Usable, SameNode, Full
<1>11. IsUp'
  BY <1>2, <1>9, <1>10, Zenon DEF IsUp, Full, Opens, File
<1> QED BY <1>2, <1>5, <1>6, <1>11, Zenon DEF StoreInv

\* Where a rotation is after a step.
LEMMA RotateNow ==
    ASSUME StoreInv, mode = "rotate", Stays \/ Steps, DiskOK', fails = 0 => Identity',
           Ends(todo', meshlink_encrypted_key_rotate),
           NEW n \in 1 .. 7, Len(todo') = n,
           NEW m \in 1 .. 7, Left = m,
           n = 6 => disk'["new"] = Gone,
           n = 5 => /\ disk'["new"].made
                    /\ \A f \in Names : disk'["new"].file[f] # None =>
                         /\ Readable(disk'["current"].file[f], key)
                         /\ disk'["new"].file[f] \in {Empty, Copied(disk'["current"].file[f])},
           SameNode => /\ n >= 4 => MainKept'
                       /\ n \in {3, 4} => disk'["new"].file["main"] # None
                       /\ n = 3 => ~disk'["current"].made /\ disk'["old"].file["main"] # None
                       /\ n <= 2 => disk'["current"].file["main"] # None,
           fails = 0 =>
             /\ n >= 4 => /\ Full(disk'["current"], key) /\ Only(disk'["current"], key)
                          /\ disk'["old"] = Gone
             /\ n \in {3, 4} => Full(disk'["new"], newkey) /\ Only(disk'["new"], newkey)
             /\ n = 3 => Full(disk'["old"], key) /\ disk'["current"] = Gone
             /\ n <= 2 => /\ Full(disk'["current"], newkey) /\ Only(disk'["current"], newkey)
                          /\ disk'["new"] = Gone
             /\ n = 2 => Full(disk'["old"], key) \/ disk'["old"].file["main"] = None
             /\ n <= 1 => disk'["old"] = Gone
    PROVE  StoreInv'
<1>1. TypeOK /\ IsRotate
  BY Zenon DEF StoreInv
<1>2. TypeOK'
  BY <1>1, TypeStays, Zenon
<1>3. fails' = 0 => Identity'
  BY Zenon DEF Stays, Steps, rest
<1>4. UNCHANGED rest
  BY Zenon DEF Stays, Steps
<1>5. m >= 1 /\ n >= 1 /\ n # 0
  OBVIOUS
<1>6. /\ key' \in Keys /\ newkey' \in Keys /\ ident' # 0 /\ tried' = 1
      /\ fails' = 0 => /\ id' = ids' /\ key' # newkey'
                       /\ keys' = IF newFirst' THEN <<newkey', key'>> ELSE <<key', newkey'>>
  BY <1>1, <1>4, <1>5, Zenon DEF IsRotate, rest, Left
<1>7. SameNode' <=> SameNode
  BY <1>4, Zenon DEF SameNode, rest
<1>8. /\ Full(disk["current"], key)' <=> Full(disk'["current"], key)
      /\ Full(disk["current"], newkey)' <=> Full(disk'["current"], newkey)
      /\ Full(disk["new"], newkey)' <=> Full(disk'["new"], newkey)
      /\ Full(disk["old"], key)' <=> Full(disk'["old"], key)
  BY <1>4, Zenon DEF Full, HostsFull, rest
<1>9. /\ Only(disk["current"], key)' <=> Only(disk'["current"], key)
      /\ Only(disk["current"], newkey)' <=> Only(disk'["current"], newkey)
      /\ Only(disk["new"], newkey)' <=> Only(disk'["new"], newkey)
  BY <1>4, Zenon DEF Only, rest
<1>10. (/\ Left = 6 => disk["new"] = Gone
        /\ Left = 5 =>
             /\ disk["new"].made
             /\ \A f \in Names : Holds("new", f) =>
                   /\ Readable(File("current", f), key)
                   /\ File("new", f) \in {Empty, Copied(File("current", f))})'
  BY <1>4, Zenon DEF Left, Holds, File, Copied, rest
<1>11. (SameNode => /\ Left >= 4 => MainKept
                    /\ Left \in {3, 4} => Holds("new", "main")
                    /\ Left = 3 => ~disk["current"].made /\ Holds("old", "main")
                    /\ Left <= 2 => Holds("current", "main"))'
  BY <1>7, Zenon DEF Left, Holds, File
<1>12. (fails = 0 =>
         /\ Left >= 4 => /\ Full(disk["current"], key) /\ Only(disk["current"], key)
                         /\ disk["old"] = Gone
         /\ Left \in {3, 4} => Full(disk["new"], newkey) /\ Only(disk["new"], newkey)
         /\ Left = 3 => Full(disk["old"], key) /\ disk["current"] = Gone
         /\ Left <= 2 => /\ Full(disk["current"], newkey) /\ Only(disk["current"], newkey)
                         /\ disk["new"] = Gone
         /\ Left = 2 => Full(disk["old"], key) \/ ~Holds("old", "main")
         /\ Left <= 1 => disk["old"] = Gone)'
  BY <1>4, <1>8, <1>9, Zenon DEF Left, Holds, File, rest
<1>13. (Left >= 1 /\ Left # 0)'
  BY <1>5, Zenon DEF Left
<1>14. IsRotate'
  BY <1>6, <1>10, <1>11, <1>12, <1>13, Zenon DEF IsRotate
<1> QED BY <1>2, <1>3, <1>4, <1>14, Zenon DEF StoreInv, rest

\* Where a rotation is before a step.
LEMMA RotatePart ==
    ASSUME StoreInv, mode = "rotate", DiskStep
    PROVE  /\ TypeOK /\ IsRotate /\ (fails = 0 => Identity)
           /\ Ends(todo, meshlink_encrypted_key_rotate) /\ todo # <<>>
           /\ Left \in 1 .. 7
           /\ Ends(Tail(todo), meshlink_encrypted_key_rotate) /\ Len(Tail(todo)) = Left - 1
           /\ Left = 7 => Head(todo) = Deltree("new")
           /\ Left = 6 => Head(todo) = Mkdir("new")
           /\ Left = 5 => Head(todo) = Copy
           /\ Left = 4 => Head(todo) = Rename("current", "old")
           /\ Left = 3 => Head(todo) = Rename("new", "current")
           /\ Left = 2 => Head(todo) = Destroy("old")
           /\ Left = 1 => Head(todo) = SetKey
<1>1. /\ TypeOK /\ IsRotate /\ (fails = 0 => Identity)
      /\ Ends(todo, meshlink_encrypted_key_rotate)
  BY Zenon DEF StoreInv, IsRotate
<1>2. todo # <<>>
  BY Picks, Zenon
<1>3. /\ Ends(Tail(todo), meshlink_encrypted_key_rotate) /\ Len(Tail(todo)) = Left - 1
      /\ Left = 7 => Head(todo) = Deltree("new")
      /\ Left = 6 => Head(todo) = Mkdir("new")
      /\ Left = 5 => Head(todo) = Copy
      /\ Left = 4 => Head(todo) = Rename("current", "old")
      /\ Left = 3 => Head(todo) = Rename("new", "current")
      /\ Left = 2 => Head(todo) = Destroy("old")
      /\ Left = 1 => Head(todo) = SetKey
  BY <1>1, <1>2, RotateTable, Zenon DEF Left
<1>4. Len(todo) \in 0 .. 7
  BY <1>1, RotateTable, Zenon
<1>5. Len(todo) # 0
  BY <1>1, <1>2, RotateTable, Zenon
<1>6. \A n \in 0 .. 7 : n # 0 => n \in 1 .. 7
  OBVIOUS
<1> QED BY <1>1, <1>2, <1>3, <1>4, <1>5, <1>6, Zenon DEF Left

\* meshlink.conf stays where it is if current and old do not change.
LEMMA MainKeptSame ==
    ASSUME MainKept, disk'["current"] = disk["current"], disk'["old"] = disk["old"]
    PROVE  MainKept'
BY Zenon DEF MainKept, Holds, File

\* The rotation removes what is in new and makes it again.
LEMMA RotateClears ==
    ASSUME StoreInv, mode = "rotate", DiskStep, newFirst' = newFirst, Left \in {6, 7}
    PROVE  StoreInv'
<1>1. /\ TypeOK /\ IsRotate /\ (fails = 0 => Identity)
      /\ Ends(todo, meshlink_encrypted_key_rotate)
      /\ Ends(Tail(todo), meshlink_encrypted_key_rotate) /\ Len(Tail(todo)) = Left - 1
      /\ Left = 7 => Head(todo) = Deltree("new")
      /\ Left = 6 => Head(todo) = Mkdir("new")
  BY RotatePart, Zenon
<1>2. "new" \in Dirs /\ "current" \in Dirs /\ "old" \in Dirs
  BY Zenon DEF Dirs
<1>3. /\ SameNode => MainKept
      /\ fails = 0 => /\ Full(disk["current"], key) /\ Only(disk["current"], key)
                      /\ disk["old"] = Gone
  BY <1>1 DEF IsRotate
<1>4. CASE \E n \in Names : Left = 7 /\ Sets("new", n, None) /\ Stays
  <2>1. PICK n \in Names : Left = 7 /\ Sets("new", n, None) /\ Stays
    BY <1>4, Zenon
  <2>2. fails = 0 => Identity'
    BY <1>1, <1>2, <2>1, IdentitySets, Zenon DEF Stays, rest
  <2>3. DiskOK' /\ disk'["current"] = disk["current"] /\ disk'["old"] = disk["old"]
    BY <1>2, <2>1, Zenon DEF Sets
  <2>4. SameNode => MainKept'
    BY <1>3, <2>3, MainKeptSame, Zenon
  <2>5. Len(todo') = 7 /\ todo' = todo
    BY <2>1, Zenon DEF Stays, Left
  <2> QED BY <1>1, <1>3, <2>1, <2>2, <2>3, <2>4, <2>5, RotateNow
<1>5. CASE Left = 7 /\ Becomes("new", Gone) /\ Steps
  <2>2. fails = 0 => Identity'
    BY <1>1, <1>2, <1>5, GoneDir, IdentityNone, Zenon DEF Steps, rest
  <2>3. DiskOK' /\ disk'["current"] = disk["current"] /\ disk'["old"] = disk["old"]
        /\ disk'["new"] = Gone
    BY <1>2, <1>5, Zenon DEF Becomes
  <2>4. SameNode => MainKept'
    BY <1>3, <2>3, MainKeptSame, Zenon
  <2>5. Len(todo') = 6 /\ Ends(todo', meshlink_encrypted_key_rotate)
    BY <1>1, <1>5 DEF Steps
  <2> QED BY <1>3, <1>5, <2>2, <2>3, <2>4, <2>5, RotateNow
<1>6. CASE Left = 6
  <2> DEFINE x == [Gone EXCEPT !.made = TRUE]
  <2>1. x.made /\ x.file = NoFiles /\ x \in Dir
    BY GoneDir, Zenon
  <2>2. Becomes("new", x) /\ Steps
    BY <1>1, <1>2, <1>6, MkdirEffect, Zenon
  <2> HIDE DEF x
  <2>3. fails = 0 => Identity'
    BY <1>1, <1>2, <2>1, <2>2, IdentityNone, Zenon DEF Steps, rest
  <2>4. /\ DiskOK' /\ disk'["current"] = disk["current"] /\ disk'["old"] = disk["old"]
        /\ disk'["new"].made /\ disk'["new"].file = NoFiles
    BY <1>2, <2>1, <2>2, Zenon DEF Becomes
  <2>5. SameNode => MainKept'
    BY <1>3, <2>4, MainKeptSame, Zenon
  <2>6. Len(todo') = 5 /\ Ends(todo', meshlink_encrypted_key_rotate)
    BY <1>1, <1>6, <2>2 DEF Steps
  <2>7. \A f \in Names : disk'["new"].file[f] = None
    BY <2>4, GoneDir, Zenon
  <2> QED BY <1>3, <1>6, <2>2, <2>3, <2>4, <2>5, <2>6, <2>7, RotateNow
<1> QED BY <1>1, <1>2, <1>4, <1>5, <1>6, DeltreeEffect, Zenon

\* config_copy: what is in new is a copy with the new key, and once it is all there

\* new is complete.
LEMMA RotateCopies ==
    ASSUME StoreInv, mode = "rotate", DiskStep, newFirst' = newFirst, Left = 5
    PROVE  StoreInv'
<1>1. /\ TypeOK /\ IsRotate /\ (fails = 0 => Identity)
      /\ Ends(todo, meshlink_encrypted_key_rotate)
      /\ Ends(Tail(todo), meshlink_encrypted_key_rotate) /\ Len(Tail(todo)) = Left - 1
      /\ Head(todo) = Copy
  BY RotatePart, Zenon
<1>2. "new" \in Dirs /\ "current" \in Dirs /\ "old" \in Dirs /\ "main" \in Names
  BY Zenon DEF Dirs, Names
<1>3. /\ SameNode => MainKept
      /\ fails = 0 => /\ Full(disk["current"], key) /\ Only(disk["current"], key)
                      /\ disk["old"] = Gone
      /\ newkey \in Keys /\ key \in Keys
  BY <1>1 DEF IsRotate, Left
<1>4. /\ disk["new"].made
      /\ \A n \in Names : Holds("new", n) =>
               /\ Readable(File("current", n), key)
               /\ File("new", n) \in {Empty, Copied(File("current", n))}
  BY <1>1, Zenon DEF IsRotate
<1>5. \A n \in Names : Copied(File("current", n)).key = newkey
  BY Zenon DEF Copied
<1>6. Only(disk["new"], newkey)
  BY <1>4, <1>5, Zenon DEF Only, Holds, File
<1>7. CASE \E n \in Names : /\ File("new", n) = Empty
                            /\ Sets("new", n, Copied(File("current", n))) /\ Stays
                            /\ Copied(File("current", n)) \notin {None, Empty}
  <2>1. PICK n \in Names : /\ File("new", n) = Empty
                           /\ Sets("new", n, Copied(File("current", n))) /\ Stays
    BY <1>7, Zenon
  <2>2. /\ DiskOK' /\ disk'["current"] = disk["current"] /\ disk'["old"] = disk["old"]
        /\ disk'["new"].made /\ disk'["new"].file[n] = Copied(File("current", n))
        /\ \A f \in Names : f # n => disk'["new"].file[f] = disk["new"].file[f]
    BY <1>2, <1>4, <2>1, Zenon DEF Sets
  <2>3. Only(disk'["new"], newkey)
    BY <1>5, <1>6, <2>2, OnlyPut
  <2>4. fails = 0 => Identity'
    <3>1. SUFFICES ASSUME fails = 0 PROVE Identity'
      BY Zenon
    <3>2. File("current", "main").val = ids
      BY <1>1, <1>2, <1>3, <3>1, Zenon DEF Full, Readable, Identity, File
    <3>3. Copied(File("current", "main")).val = ids
      BY <3>2, Zenon DEF Copied
    <3>4. disk'["new"].file["main"] \in {None, Empty} \/ disk'["new"].file["main"].val = ids
      BY <1>1, <1>2, <2>2, <3>1, <3>3, Zenon DEF Identity, File
    <3>5. Uniform(disk'["new"])
      BY <2>3, OnlyUniform, Zenon
    <3> QED BY <1>1, <1>2, <2>1, <3>1, <3>4, <3>5, IdentityKept, Zenon DEF Sets, Stays, rest
  <2>5. SameNode => MainKept'
    BY <1>3, <2>2, MainKeptSame, Zenon
  <2>6. Holds("new", n)
    BY <2>1, FilesAssumption, Zenon DEF Holds
  <2>7. \A f \in Names : disk'["new"].file[f] # None =>
                         /\ Readable(disk'["current"].file[f], key)
                         /\ disk'["new"].file[f] \in {Empty, Copied(disk'["current"].file[f])}
    BY <1>4, <2>2, <2>6, Zenon DEF Holds, File
  <2>8. Len(todo') = 5 /\ todo' = todo
    BY <2>1, Zenon DEF Stays, Left
  <2> QED BY <1>1, <1>3, <2>1, <2>2, <2>4, <2>5, <2>7, <2>8, RotateNow
<1>8. CASE \E n \in Names : /\ Readable(File("current", n), key) /\ ~Holds("new", n)
                            /\ Sets("new", n, Empty) /\ Stays
  <2>1. PICK n \in Names : /\ Readable(File("current", n), key) /\ ~Holds("new", n)
                           /\ Sets("new", n, Empty) /\ Stays
    BY <1>8, Zenon
  <2>2. /\ DiskOK' /\ disk'["current"] = disk["current"] /\ disk'["old"] = disk["old"]
        /\ disk'["new"].made /\ disk'["new"].file[n] = Empty
        /\ \A f \in Names : f # n => disk'["new"].file[f] = disk["new"].file[f]
    BY <1>2, <1>4, <2>1, Zenon DEF Sets
  <2>4. fails = 0 => Identity'
    BY <1>1, <1>2, <2>1, IdentitySets, Zenon DEF Stays, rest
  <2>5. SameNode => MainKept'
    BY <1>3, <2>2, MainKeptSame, Zenon
  <2>7. \A f \in Names : disk'["new"].file[f] # None =>
                         /\ Readable(disk'["current"].file[f], key)
                         /\ disk'["new"].file[f] \in {Empty, Copied(disk'["current"].file[f])}
    BY <1>4, <2>1, <2>2, Zenon DEF Holds, File
  <2>8. Len(todo') = 5 /\ todo' = todo
    BY <2>1, Zenon DEF Stays, Left
  <2> QED BY <1>1, <1>3, <2>1, <2>2, <2>4, <2>5, <2>7, <2>8, RotateNow
<1>9. CASE CallFails
  <2>1. /\ Failed /\ disk' = disk /\ fails' = fails /\ UNCHANGED <<key, newkey, newFirst, counts>>
    BY <1>9, Zenon DEF CallFails
  <2>2. DiskOK' /\ fails' \in 0 .. MaxFail
    BY <1>1, <2>1, Zenon DEF TypeOK, DiskOK, Dir
  <2>3. SameNode => MainKept'
    BY <1>3, <2>1, MainKeptSame, Zenon
  <2> QED BY <2>1, <2>2, <2>3, RotateFailed, Zenon
<1>10. CASE /\ Steps /\ disk' = disk /\ disk["current"].made
            /\ \A n \in Names : File("new", n) # Empty /\ (Holds("current", n) => Holds("new", n))
  <2>1. DiskOK'
    BY <1>1, <1>10, TypeDisk, Zenon DEF DiskOK
  <2>2. fails = 0 => Identity'
    BY <1>1, <1>10 DEF Identity, File, Uniform, Steps, rest
  <2>3. SameNode => MainKept' /\ Holds("current", "main")
    BY <1>3, <1>10, MainKeptSame, Zenon DEF MainKept
  <2>4. SameNode => disk'["new"].file["main"] # None
    BY <1>2, <1>10, <2>3, Zenon DEF Holds, File
  <2>5. ASSUME NEW n \in Names, Holds("current", n)
        PROVE  /\ File("new", n) = Copied(File("current", n))
               /\ Readable(File("new", n), newkey) /\ File("new", n).val = File("current", n).val
    <3>1. Holds("new", n) /\ File("new", n) # Empty
      BY <1>10, <2>5, Zenon
    <3>2. File("new", n) = Copied(File("current", n))
      BY <1>4, <3>1, Zenon
    <3> QED BY <3>1, <3>2 DEF Holds, Readable, Copied
  <2>6. fails = 0 => Full(disk["new"], newkey)
    <3>1. SUFFICES ASSUME fails = 0 PROVE Full(disk["new"], newkey)
      BY Zenon
    <3>2. "self" \in Names /\ "peer" \in Names
      BY Zenon DEF Names, Hosts
    <3>3. /\ Holds("current", "main") /\ Holds("current", "self")
          /\ saved > 0 /\ ~newFirst => /\ Holds("current", "peer")
                                       /\ File("current", "peer").val >= saved
      BY <1>3, <3>1, Zenon DEF Full, HostsFull, Readable, Holds, File
    <3> QED BY <1>2, <2>5, <3>2, <3>3, Zenon DEF Full, HostsFull, File
  <2>7. Len(todo') = 4 /\ Ends(todo', meshlink_encrypted_key_rotate)
    BY <1>1, <1>10 DEF Steps
  <2>8. /\ disk'["new"] = disk["new"] /\ disk'["current"] = disk["current"]
        /\ disk'["old"] = disk["old"]
    BY <1>10, Zenon
  <2> QED BY <1>3, <1>6, <1>10, <2>1, <2>2, <2>3, <2>4, <2>6, <2>7, <2>8, RotateNow
<1> QED BY <1>1, <1>3, <1>4, <1>7, <1>8, <1>9, <1>10, CopyEffect

\* The rotation moves current to old and new to current: one of them is complete in

\* between.
LEMMA RotateRenames ==
    ASSUME StoreInv, mode = "rotate", DiskStep, newFirst' = newFirst, Left \in {3, 4}
    PROVE  StoreInv'
<1>1. /\ TypeOK /\ IsRotate /\ (fails = 0 => Identity)
      /\ Ends(Tail(todo), meshlink_encrypted_key_rotate) /\ Len(Tail(todo)) = Left - 1
      /\ Left = 4 => Head(todo) = Rename("current", "old")
      /\ Left = 3 => Head(todo) = Rename("new", "current")
  BY RotatePart, Zenon
<1>2. "new" \in Dirs /\ "current" \in Dirs /\ "old" \in Dirs /\ fails \in Nat
  BY <1>1 DEF Dirs, TypeOK
<1> DEFINE from == IF Left = 4 THEN "current" ELSE "new"
           to == IF Left = 4 THEN "old" ELSE "current"
<1>3. from \in Dirs /\ to \in Dirs /\ from # to /\ Head(todo) = Rename(from, to)
  BY <1>1, <1>2, Zenon
<1>4. \/ disk[from].made /\ ~disk[to].made /\ Moved(from, to) /\ (Steps \/ SyncFails)
      \/ ~(disk[from].made /\ ~disk[to].made) /\ CallFails
  BY <1>1, <1>3, RenameEffect, Zenon
<1>5. /\ SameNode => Holds("new", "main")
      /\ SameNode /\ Left = 4 => MainKept
      /\ SameNode /\ Left = 3 => ~disk["current"].made /\ Holds("old", "main")
      /\ fails = 0 => Full(disk["new"], newkey) /\ Only(disk["new"], newkey)
      /\ fails = 0 /\ Left = 4 => Full(disk["current"], key) /\ disk["old"] = Gone
      /\ fails = 0 /\ Left = 3 => Full(disk["old"], key) /\ disk["current"] = Gone
  BY <1>1 DEF IsRotate
<1>6. /\ fails = 0 => Holds("new", "main")
      /\ fails = 0 /\ Left = 4 => Holds("current", "main")
  BY <1>5, Zenon DEF Full, Readable, Holds, File
<1>7. /\ fails = 0 => disk[from].made /\ ~disk[to].made
      /\ SameNode /\ Left = 3 => disk[from].made /\ ~disk[to].made
  <2>1. \A d \in Dirs : Holds(d, "main") => disk[d].made
    BY <1>1, MadeIfHeld, Zenon
  <2> QED BY <1>2, <1>5, <1>6, <2>1, GoneDir
<1>8. CASE CallFails /\ ~(disk[from].made /\ ~disk[to].made)
  <2>1. /\ Failed /\ disk' = disk /\ fails' = fails /\ UNCHANGED <<key, newkey, newFirst, counts>>
    BY <1>8, Zenon DEF CallFails
  <2>2. DiskOK' /\ fails' \in 0 .. MaxFail
    BY <1>1, <2>1, Zenon DEF TypeOK, DiskOK, Dir
  <2>3. SameNode => MainKept'
    BY <1>5, <1>7, <1>8, <2>1, MainKeptSame, Zenon
  <2>4. fails' # 0
    BY <1>7, <1>8, <2>1, Zenon
  <2> QED BY <2>1, <2>2, <2>3, <2>4, RotateFailed, Zenon
<1>9. CASE disk[from].made /\ Moved(from, to) /\ (Steps \/ SyncFails)
  <2>1. CASE SyncFails
    <3>1. /\ Failed /\ fails' = fails + 1 /\ fails' <= MaxFail
          /\ UNCHANGED <<key, newkey, newFirst, counts>>
      BY <2>1, Zenon DEF SyncFails
    <3>2. fails' \in 0 .. MaxFail /\ fails' # 0
      BY <1>2, <3>1, BoundsAssumption
    <3>3. SameNode => MainKept'
      BY <1>5, <1>9, GoneDir, Zenon DEF Moved, MainKept, Holds, File
    <3>4. DiskOK'
      BY <1>9, Zenon DEF Moved
    <3> QED BY <3>1, <3>2, <3>3, <3>4, RotateFailed, Zenon
  <2>2. CASE Steps
    <3>1. fails = 0 => Identity'
      BY <1>1, <1>3, <1>9, <2>2, IdentityMoved, Zenon DEF Steps, rest
    <3>2. CASE Left = 4
      <4>1. DiskOK' /\ disk'["old"] = disk["current"] /\ disk'["current"] = Gone
            /\ disk'["new"] = disk["new"]
        BY <1>2, <1>9, <3>2, Zenon DEF Moved
      <4>2. Len(todo') = 3 /\ Ends(todo', meshlink_encrypted_key_rotate)
        BY <1>1, <2>2, <3>2 DEF Steps
      <4>3. SameNode => /\ disk'["new"].file["main"] # None
                        /\ ~disk'["current"].made /\ disk'["old"].file["main"] # None
        BY <1>5, <1>9, <3>2, <4>1, GoneDir, Zenon DEF MainKept, Holds, File
      <4>4. fails = 0 => /\ Full(disk'["new"], newkey) /\ Only(disk'["new"], newkey)
                         /\ Full(disk'["old"], key) /\ disk'["current"] = Gone
        BY <1>5, <3>2, <4>1, Zenon
      <4> QED BY <2>2, <3>1, <3>2, <4>1, <4>2, <4>3, <4>4, RotateNow
    <3>3. CASE Left = 3
      <4>1. DiskOK' /\ disk'["current"] = disk["new"] /\ disk'["new"] = Gone
            /\ disk'["old"] = disk["old"]
        BY <1>2, <1>9, <3>3 DEF Moved
      <4>2. Len(todo') = 2 /\ Ends(todo', meshlink_encrypted_key_rotate)
        BY <1>1, <2>2, <3>3 DEF Steps
      <4>3. SameNode => disk'["current"].file["main"] # None
        BY <1>5, <4>1, Zenon DEF Holds, File
      <4>4. fails = 0 => /\ Full(disk'["current"], newkey) /\ Only(disk'["current"], newkey)
                         /\ Full(disk'["old"], key) /\ disk'["new"] = Gone
        BY <1>5, <3>3, <4>1, Zenon
      <4> QED BY <2>2, <3>1, <3>3, <4>1, <4>2, <4>3, <4>4, RotateNow
    <3> QED BY <3>2, <3>3, Zenon
  <2> QED BY <1>9, <2>1, <2>2, Zenon
<1> QED BY <1>4, <1>8, <1>9, Zenon

\* The rotation destroys old.
LEMMA RotateDestroys ==
    ASSUME StoreInv, mode = "rotate", DiskStep, newFirst' = newFirst, Left = 2
    PROVE  StoreInv'
<1>1. /\ TypeOK /\ IsRotate /\ (fails = 0 => Identity)
      /\ Ends(todo, meshlink_encrypted_key_rotate)
      /\ Ends(Tail(todo), meshlink_encrypted_key_rotate) /\ Len(Tail(todo)) = Left - 1
      /\ Head(todo) = Destroy("old")
  BY RotatePart, Zenon
<1>2. "new" \in Dirs /\ "current" \in Dirs /\ "old" \in Dirs /\ fails \in Nat
  BY <1>1 DEF Dirs, TypeOK
<1>3. /\ SameNode => Holds("current", "main")
      /\ fails = 0 => /\ Full(disk["current"], newkey) /\ Only(disk["current"], newkey)
                      /\ disk["new"] = Gone
  BY <1>1 DEF IsRotate
<1>4. CASE \E n \in Names : Sets("old", n, None) /\ Stays /\ (n = "main" \/ ~Holds("old", "main"))
  <2>1. PICK n \in Names : Sets("old", n, None) /\ Stays /\ (n = "main" \/ ~Holds("old", "main"))
    BY <1>4, Zenon
  <2>2. fails = 0 => Identity'
    BY <1>1, <1>2, <2>1, IdentitySets, Zenon DEF Stays, rest
  <2>3. /\ DiskOK' /\ disk'["current"] = disk["current"] /\ disk'["new"] = disk["new"]
        /\ disk'["old"].file["main"] = None
    BY <1>2, <2>1, Zenon DEF Sets, Holds, File, Names
  <2>4. SameNode => disk'["current"].file["main"] # None
    BY <1>3, <2>3, Zenon DEF Holds, File
  <2>5. Len(todo') = 2 /\ todo' = todo
    BY <2>1, Zenon DEF Stays, Left
  <2>6. fails = 0 => /\ Full(disk'["current"], newkey) /\ Only(disk'["current"], newkey)
                     /\ disk'["new"] = Gone
    BY <1>3, <2>3, Zenon
  <2> QED BY <1>1, <2>1, <2>2, <2>3, <2>4, <2>5, <2>6, RotateNow
<1>5. CASE Becomes("old", Gone) /\ Steps
  <2>2. fails = 0 => Identity'
    BY <1>1, <1>2, <1>5, GoneDir, IdentityNone, Zenon DEF Steps, rest
  <2>3. DiskOK' /\ disk'["current"] = disk["current"] /\ disk'["new"] = disk["new"]
        /\ disk'["old"] = Gone
    BY <1>2, <1>5, Zenon DEF Becomes
  <2>4. SameNode => disk'["current"].file["main"] # None
    BY <1>3, <2>3, Zenon DEF Holds, File
  <2>5. Len(todo') = 1 /\ Ends(todo', meshlink_encrypted_key_rotate)
    BY <1>1, <1>5 DEF Steps
  <2>6. fails = 0 => /\ Full(disk'["current"], newkey) /\ Only(disk'["current"], newkey)
                     /\ disk'["new"] = Gone
    BY <1>3, <2>3, Zenon
  <2> QED BY <1>1, <1>5, <2>2, <2>3, <2>4, <2>5, <2>6, RotateNow
<1>6. CASE Becomes("old", Gone) /\ SyncFails
  <2>1. /\ Failed /\ fails' = fails + 1 /\ fails' <= MaxFail
        /\ UNCHANGED <<key, newkey, newFirst, counts>>
    BY <1>6, Zenon DEF SyncFails
  <2>2. fails' \in 0 .. MaxFail /\ fails' # 0
    BY <1>2, <2>1, BoundsAssumption
  <2>3. DiskOK' /\ disk'["current"] = disk["current"]
    BY <1>2, <1>6, Zenon DEF Becomes
  <2>4. SameNode => MainKept'
    BY <1>3, <2>3, Zenon DEF MainKept, Holds, File
  <2> QED BY <2>1, <2>2, <2>3, <2>4, RotateFailed, Zenon
<1> QED BY <1>1, <1>2, <1>4, <1>5, <1>6, DestroyEffect, Zenon

\* The handle gets the new key.
LEMMA RotateEnds ==
    ASSUME StoreInv, mode = "rotate", DiskStep, newFirst' = newFirst, Left = 1
    PROVE  StoreInv'
<1>1. /\ TypeOK /\ IsRotate /\ (fails = 0 => Identity)
      /\ Ends(Tail(todo), meshlink_encrypted_key_rotate) /\ Len(Tail(todo)) = Left - 1
      /\ Head(todo) = SetKey
  BY RotatePart, Zenon
<1>2. /\ key' = newkey /\ disk' = disk /\ todo' = Tail(todo)
      /\ UNCHANGED <<mode, newkey, id, ids, keys, tried, fails, newFirst, counts, saved, ident>>
  BY <1>1, SetKeyEffect, Zenon
<1>3. TypeOK'
  BY <1>1, <1>2, Zenon DEF TypeOK
<1>4. fails' = 0 => Identity'
  BY <1>1, <1>2, Zenon DEF Identity, File, Uniform
<1>5. Len(todo') = 0 /\ Ends(todo', meshlink_encrypted_key_rotate)
  BY <1>1, <1>2
<1>6. /\ key \in Keys /\ newkey \in Keys /\ ident # 0 /\ tried = 1
      /\ SameNode => Holds("current", "main")
      /\ fails = 0 =>
           /\ id = ids /\ key # newkey
           /\ keys = IF newFirst THEN <<newkey, key>> ELSE <<key, newkey>>
           /\ Full(disk["current"], newkey) /\ Only(disk["current"], newkey)
           /\ disk["new"] = Gone /\ disk["old"] = Gone
  BY <1>1 DEF IsRotate
<1>7. fails' = 0 => (Full(disk["current"], newkey) /\ Only(disk["current"], newkey))'
  BY <1>2, <1>6 DEF Full, HostsFull, Only
<1>8. SameNode' => Holds("current", "main")'
  BY <1>2, <1>6, Zenon DEF SameNode, Holds, File
<1>9. fails' = 0 /\ ~newFirst' => \E k \in Keys : k # key' /\ keys' = <<k, key'>>
  BY <1>2, <1>6
<1>10. \A n : n = 0 => /\ n # 6 /\ n # 5 /\ ~(n >= 4) /\ n \notin {3, 4} /\ n # 3 /\ n # 2
                       /\ ~(n >= 1)
  OBVIOUS
<1>11. IsRotate'
  BY <1>2, <1>5, <1>6, <1>7, <1>8, <1>9, <1>10, Zenon DEF IsRotate, Left
<1> QED BY <1>2, <1>3, <1>4, <1>11 DEF StoreInv

\* Every disk step of meshlink_encrypted_key_rotate preserves StoreInv.
LEMMA RotateStep ==
    ASSUME StoreInv, mode = "rotate", DiskStep, newFirst' = newFirst
    PROVE  StoreInv'
<1>1. Left \in 1 .. 7
  BY RotatePart, Zenon
<1>2. \A n \in 1 .. 7 : n \in {6, 7} \/ n = 5 \/ n \in {3, 4} \/ n = 2 \/ n = 1
  OBVIOUS
<1> QED BY <1>1, <1>2, RotateClears, RotateCopies, RotateRenames, RotateDestroys, RotateEnds, Zenon

-----------------------------------------------------------------------------
\* Calls of the application.

\* If current can be decrypted, meshlink_confbase_exists has only old and new to

\* destroy.
LEMMA RestoreEnd ==
    ASSUME NEW t, t = <<Destroy("old"), Destroy("new")>>
    PROVE  Ends(t, Restore("old")) /\ Len(t) = 2
<1> DEFINE p == Restore("old")
<1>1. (\E S : p \in Seq(S)) /\ Len(p) = 4 /\ p[3] = Destroy("old") /\ p[4] = Destroy("new")
  BY RestoreOps, Zenon
<1>2. p = <<Destroy("current"), Rename("old", "current"), Destroy("old"), Destroy("new")>>
  BY Zenon DEF Restore
<1>3. Len(t) = 2
  BY Zenon
<1>4. t = SubSeq(p, 3, 4)
  BY <1>2
<1> HIDE DEF p
<1>5. Len(p) - Len(t) + 1 = 3
  BY <1>1, <1>3
<1>6. t = SubSeq(p, Len(p) - Len(t) + 1, Len(p))
  BY <1>1, <1>4, <1>5, Zenon
<1> QED BY <1>1, <1>3, <1>6 DEF Ends, p

\* If another directory is to be restored, it has the whole program to do.
LEMMA RestoreWhole ==
    ASSUME NEW d, NEW t,
           t = <<Destroy("current"), Rename(d, "current")>> \o <<Destroy("old"), Destroy("new")>>
    PROVE  Ends(t, Restore(d)) /\ Len(t) = 4
<1> DEFINE p == Restore(d)
        S == {Destroy("current"), Rename(d, "current"), Destroy("old"), Destroy("new")}
<1>1. p = <<Destroy("current"), Rename(d, "current"), Destroy("old"), Destroy("new")>>
  BY Zenon DEF Restore
<1>2. p \in Seq(S) /\ Len(p) = 4
  BY <1>1
<1>3. /\ p[1] = Destroy("current") /\ p[2] = Rename(d, "current")
      /\ p[3] = Destroy("old") /\ p[4] = Destroy("new")
  BY <1>1
<1>4. t \in Seq(S) /\ Len(t) = 4
  OBVIOUS
<1>5. /\ t[1] = Destroy("current") /\ t[2] = Rename(d, "current")
      /\ t[3] = Destroy("old") /\ t[4] = Destroy("new")
  OBVIOUS
<1> HIDE DEF p, S
<1>6. \A i \in 1 .. 4 : t[i] = p[i]
  BY <1>3, <1>5
<1>7. t = p
  BY <1>2, <1>4, <1>6
<1> QED BY <1>2, <1>4, <1>7, Whole, Zenon DEF p

\* If no directory can be decrypted, it has nothing to do.
LEMMA RestoreNone ==
    ASSUME NEW t, t = <<>>
    PROVE  Ends(t, Restore("old")) /\ Len(t) = 0
<1> DEFINE p == Restore("old")
<1>1. \E S : p \in Seq(S)
  BY RestoreOps, Zenon
<1> HIDE DEF p
<1>2. PICK S : p \in Seq(S)
  BY <1>1, Zenon
<1> QED BY <1>2, Nothing, Zenon DEF p

\* The start of a recovery, with none, two or four operations to do.
LEMMA RecoverBegins ==
    ASSUME StoreInv, mode = "down", NEW r \in {"new", "old"}, NEW n \in {0, 2, 4},
           Ends(todo', Restore(r)), Len(todo') = n,
           UNCHANGED <<disk, keys, tried, fails, newFirst, ids, saved, ident>>,
           key' = keys[tried], key' \in Keys,
           \E d \in Dirs : Holds(d, "main"),
           n = 4 => Opens(r, key') /\ ~Opens("current", key'),
           n = 2 => Opens("current", key'),
           n = 0 => \A d \in Dirs : ~Opens(d, key'),
           OldKeyFirst =>
               /\ n = 4 => tried = 1 /\ r = "old" /\ Full(disk["old"], key') /\ ~Opens("new", key')
               /\ n = 2 => Full(disk["current"], key')
               /\ n = 0 => tried = 1 /\ Recoverable
               /\ tried = 2 => SecondKey
    PROVE  IsRecover'
<1>1. Left' = n
  BY Zenon DEF Left
<1>2. /\ n >= 3 <=> n = 4
      /\ n # 3 /\ (n \in {1, 2} <=> n = 2)
      /\ n <= 1 <=> n = 0
  OBVIOUS
<1>3. \A d \in Dirs : /\ Opens(d, key)' <=> Opens(d, key')
                      /\ Holds(d, "main")' <=> Holds(d, "main")
                      /\ Full(disk[d], key)' <=> Full(disk[d], key')
  BY Zenon DEF Opens, Holds, File, Full, HostsFull
<1>4. /\ OldKeyFirst' <=> OldKeyFirst
      /\ Recoverable' <=> Recoverable
      /\ SecondKey' <=> SecondKey
  BY Zenon DEF OldKeyFirst, Recoverable, SecondKey, Full, HostsFull, Opens, File
<1>5. \A d \in Dirs : /\ Opens(d, key)' => Holds(d, "main")
                      /\ Opens(d, key') => Holds(d, "main")
  BY Zenon DEF Opens, Holds, File, Readable
<1>6. {"current", "new", "old"} \subseteq Dirs
  BY Zenon DEF Dirs
<1>7. \A d \in {"new", "old"} : Ends(todo', Restore(d)) =>
         /\ n >= 3 => Holds(d, "main")'
         /\ n = 3 => ~disk'["current"].made
  <2> SUFFICES ASSUME NEW d \in {"new", "old"}, Ends(todo', Restore(d)), n = 4
               PROVE  Holds(d, "main")'
    BY <1>2, Zenon
  <2>1. d = r
    BY RestoresOne
  <2> QED BY <1>3, <1>5, <1>6, <2>1, Zenon
<1>8. SameNode' => /\ n \in {1, 2} => Holds("current", "main")'
                   /\ n = 0 => (\E d \in Dirs : Holds(d, "main"))'
  BY <1>2, <1>3, <1>5, <1>6, Zenon
<1>9. fails' = 0 =>
        /\ key' = keys'[tried']
        /\ n <= 1 /\ Opens("current", key)' => disk'["old"] = Gone
        /\ n = 0 /\ Opens("current", key)' => disk'["new"] = Gone
  BY <1>2, <1>3, <1>6, Zenon
<1>10. OldKeyFirst' =>
        /\ n >= 3 => /\ tried' = 1 /\ Ends(todo', Restore("old")) /\ Full(disk["old"], key)'
                     /\ ~Opens("current", key)' /\ ~Opens("new", key)'
        /\ n = 3 => disk'["current"] = Gone
        /\ n \in {1, 2} => Full(disk["current"], key)'
        /\ n = 0 => IF Opens("current", key)'
                    THEN Full(disk["current"], key)'
                    ELSE tried' = 1 /\ Recoverable' /\ \A d \in Dirs : ~Opens(d, key)'
        /\ tried' = 2 => SecondKey'
  BY <1>2, <1>3, <1>4, <1>6, Zenon
<1> QED BY <1>1, <1>7, <1>8, <1>9, <1>10, Zenon DEF IsRecover

\* A call that does not touch the disk leaves it well-formed, with one identity.
LEMMA DiskSame ==
    ASSUME StoreInv, disk' = disk
    PROVE  /\ DiskOK'
           /\ fails = 0 /\ UNCHANGED <<ident, ids, saved>> => Identity'
<1>1. TypeOK /\ (fails = 0 => Identity)
  BY Zenon DEF StoreInv
<1>2. DiskOK'
  BY <1>1, TypeDisk, Zenon DEF DiskOK
<1>3. fails = 0 /\ UNCHANGED <<ident, ids, saved>> => Identity'
  BY <1>1 DEF Identity, File, Uniform
<1> QED BY <1>2, <1>3, Zenon

\* meshlink_open_ex preserves StoreInv: if no directory has a meshlink.conf the node

\* never was open, or an fsync failed.
LEMMA OpenKeeps ==
    ASSUME StoreInv, Open, newFirst' = newFirst
    PROVE  StoreInv'
<1> DEFINE k == keys[tried]
<1>1. TypeOK /\ IsDown /\ k \in Keys
  BY DEF StoreInv, Open, TypeOK
<1>2. key' = k /\ disk' = disk /\ UNCHANGED <<newkey, fails, counts>>
  BY Zenon DEF Open
<1>3. DiskOK' /\ fails \in 0 .. MaxFail
  BY <1>1, <1>2, DiskSame, Zenon DEF TypeOK
<1>4. CASE ~\E d \in Dirs : main_config_exists(d)
  <2>1. Setup
    BY <1>4, Zenon DEF Open
  <2>2. UNCHANGED <<ident, saved>> /\ ids' = ids + 1 /\ ids \in Nat
    BY <1>1, <2>1, Zenon DEF Setup, app, TypeOK
  <2>3. ~SameNode
    BY <1>1, <1>4, Zenon DEF IsDown, main_config_exists, Holds
  <2>4. fails = 0 => ident = 0 /\ (saved > 0 => ident # 0) /\ \A d \in Dirs : Uniform(disk[d])
    BY <2>3, Zenon DEF StoreInv, Identity, SameNode
  <2>5. fails = 0 => Identity'
    BY <1>2, <1>4, <2>2, <2>4, Zenon DEF Identity, Uniform, File, main_config_exists
  <2> QED BY <1>1, <1>2, <1>3, <2>1, <2>5, SetupBegins, Zenon
<1>5. CASE \E d \in Dirs : main_config_exists(d)
  <2>1. mode' = "recover" /\ todo' = Recovery(k) /\ UNCHANGED <<id, ids, keys, tried, saved, ident>>
    BY <1>5, Zenon DEF Open, app
  <2>2. TypeOK'
    BY <1>1, <1>2, <2>1, Zenon DEF TypeOK
  <2>3. fails' = 0 => Identity'
    BY <1>2, <2>1, DiskSame, Zenon
  <2>4. \E d \in Dirs : Holds(d, "main")
    BY <1>5, Zenon DEF main_config_exists, Holds
  <2>5. /\ Opens("current", k) => todo' = <<Destroy("old"), Destroy("new")>>
        /\ ~Opens("current", k) /\ Opens("new", k)
             => todo' = <<Destroy("current"), Rename("new", "current")>>
                          \o <<Destroy("old"), Destroy("new")>>
        /\ ~Opens("current", k) /\ ~Opens("new", k) /\ Opens("old", k)
             => todo' = <<Destroy("current"), Rename("old", "current")>>
                          \o <<Destroy("old"), Destroy("new")>>
        /\ ~Opens("current", k) /\ ~Opens("new", k) /\ ~Opens("old", k) => todo' = <<>>
    BY <2>1, Zenon DEF Recovery, main_config_decrypt, Opens
  <2>6. OldKeyFirst => IF tried = 1 THEN Recoverable ELSE SecondKey
    BY <1>1, Zenon DEF IsDown
  <2>7. tried = 1 => k = keys[1]
    BY Zenon
  <2>8. tried \in {1, 2} /\ (tried = 2 => k = keys[2])
    BY <1>1 DEF TypeOK
  <2>9. \A x \in {"current", "old", "new"} : x \in Dirs
    BY Zenon DEF Dirs
  <2>10. UNCHANGED <<disk, keys, tried, fails, newFirst, ids, saved, ident>> /\ mode = "down"
    BY <1>2, <2>1, Zenon DEF Open
  <2> SUFFICES IsRecover'
    BY <2>1, <2>2, <2>3, Zenon DEF StoreInv
  <2>11. CASE Opens("current", k)
    <3>1. Ends(todo', Restore("old")) /\ Len(todo') = 2
      BY <2>5, <2>11, RestoreEnd, Zenon
    <3>2. OldKeyFirst => Full(disk["current"], k) /\ (tried = 2 => SecondKey)
      BY <2>6, <2>7, <2>8, <2>9, <2>11 DEF Recoverable, SecondKey
    <3> HIDE DEF k
    <3> QED BY <1>1, <1>2, <2>4, <2>10, <2>11, <3>1, <3>2, RecoverBegins DEF k
  <2>12. CASE /\ ~Opens("current", k)
              /\ \E r \in {"new", "old"} : Opens(r, k) /\ (r = "old" => ~Opens("new", k))
    <3>1. PICK r \in {"new", "old"} : Opens(r, k) /\ (r = "old" => ~Opens("new", k))
      BY <2>12, Zenon
    <3>2. Ends(todo', Restore(r)) /\ Len(todo') = 4
      BY <2>5, <2>12, <3>1, RestoreWhole, Zenon
    <3>3. OldKeyFirst /\ tried = 1 => r = "old" /\ Full(disk["old"], k) /\ ~Opens("new", k)
      BY <2>6, <2>7, <2>9, <2>12, <3>1, Zenon DEF Recoverable, Full, Opens, File
    <3>4. OldKeyFirst => tried = 1
      BY <2>6, <2>8, <2>12, Zenon DEF SecondKey, Full, Opens, File
    <3> QED BY <1>1, <1>2, <2>4, <2>10, <2>12, <3>1, <3>2, <3>3, <3>4, RecoverBegins
  <2>13. CASE \A d \in Dirs : ~Opens(d, k)
    <3>1. Ends(todo', Restore("old")) /\ Len(todo') = 0
      BY <2>5, <2>9, <2>13, RestoreNone, Zenon
    <3>2. OldKeyFirst => tried = 1 /\ Recoverable
      BY <2>6, <2>8, <2>9, <2>13, Zenon DEF SecondKey, Full, Opens, File
    <3> QED BY <1>1, <1>2, <2>4, <2>9, <2>10, <2>13, <3>1, <3>2, RecoverBegins
  <2>14. \A d \in Dirs : d \in {"current", "new", "old"}
    BY Zenon DEF Dirs
  <2> QED BY <2>11, <2>12, <2>13, <2>14, Zenon
<1> QED BY <1>4, <1>5, Zenon

\* The other calls begin with all of their programs.
LEMMA ProgramsBegin ==
    /\ \A t : t = config_write("self", 0) => Ends(t, config_write("self", 0)) /\ Len(t) = 3
    /\ \A t, v : t = WriteProgram(v) => Ends(t, WriteProgram(v)) /\ Len(t) = 4
    /\ \A t, v : t = write_main_config_files(v) => Ends(t, write_main_config_files(v)) /\ Len(t) = 6
    /\ \A t : t = meshlink_encrypted_key_rotate
                => Ends(t, meshlink_encrypted_key_rotate) /\ Len(t) = 7
<1>1. ASSUME NEW p, NEW n, Len(p) = n, \E S : p \in Seq(S)
      PROVE  \A t : t = p => Ends(t, p) /\ Len(t) = n
  BY <1>1, Whole, Zenon
<1>2. \A t : t = config_write("self", 0) => Ends(t, config_write("self", 0)) /\ Len(t) = 3
  BY <1>1, SelfOps, Zenon
<1>3. \A t, v : t = WriteProgram(v) => Ends(t, WriteProgram(v)) /\ Len(t) = 4
  BY <1>1, PeerOps, Zenon
<1>4. \A t, v : t = write_main_config_files(v) => Ends(t, write_main_config_files(v)) /\ Len(t) = 6
  BY <1>1, MainOps, Zenon
<1>5. \A t : t = meshlink_encrypted_key_rotate
                => Ends(t, meshlink_encrypted_key_rotate) /\ Len(t) = 7
  BY <1>1, RotateOps, Zenon
<1> QED BY <1>2, <1>3, <1>4, <1>5, Zenon

\* meshlink_read_config preserves StoreInv: with the old key tried first, it fails

\* only if another key will do or meshlink.conf is empty.
LEMMA ReadConfigKeeps ==
    ASSUME StoreInv, MainValues, ReadConfig, newFirst' = newFirst
    PROVE  StoreInv'
<1>1. TypeOK /\ IsRecover /\ key \in Keys /\ mode = "recover" /\ todo = <<>>
  BY Zenon DEF StoreInv, ReadConfig, IsRecover
<1>2. UNCHANGED <<disk, key, newkey, fails, counts, newFirst, ids, keys, saved, ident>>
  BY Zenon DEF ReadConfig, OpenFails, app
<1>3. DiskOK' /\ (fails = 0 => Identity /\ Identity') /\ "current" \in Dirs
  BY <1>2, DiskSame, Zenon DEF StoreInv, Dirs
<1> DEFINE n == Left
<1>4. n = 0
  BY <1>1, Zenon DEF Left
<1>5. n = 0 <=> n <= 1 /\ n = 0
  BY <1>4
<1>6. /\ SameNode => \E d \in Dirs : Holds(d, "main")
      /\ fails = 0 => /\ key = keys[tried]
                      /\ Opens("current", key) => disk["old"] = Gone /\ disk["new"] = Gone
      /\ OldKeyFirst => /\ IF Opens("current", key)
                           THEN Full(disk["current"], key)
                           ELSE tried = 1 /\ Recoverable /\ \A d \in Dirs : ~Opens(d, key)
                        /\ tried = 2 => SecondKey
  BY <1>1, <1>4, <1>5, Zenon DEF IsRecover
<1>7. /\ OldKeyFirst' <=> OldKeyFirst
      /\ SameNode' <=> SameNode
      /\ \A d \in Dirs : Holds(d, "main")' <=> Holds(d, "main")
  BY <1>2 DEF OldKeyFirst, SameNode, Holds, File
<1>8. CASE Opens("current", key) /\ Readable(File("current", "self"), key)
  <2>1. /\ mode' = "finish" /\ id' = File("current", "main").val
        /\ todo' = config_write("self", 0) /\ tried' = tried
    BY <1>8, Zenon DEF ReadConfig, Opens, app
  <2>2. id' \in 1 .. ids
    BY <1>3, <1>8, <2>1, Zenon DEF MainValues, Opens, Readable
  <2>3. TypeOK'
    BY <1>1, <1>2, <2>1, <2>2 DEF TypeOK
  <2>4. Ends(todo', config_write("self", 0)) /\ Len(todo') = 3
    BY <2>1, ProgramsBegin, Zenon
  <2>5. \A m : m = 3 => m # 1
    OBVIOUS
  <2>6. Left' # 1
    BY <2>4, <2>5, Zenon DEF Left
  <2>7. Holds("current", "main")'
    BY <1>2, <1>8, Zenon DEF Holds, Opens, Readable, File
  <2>8. fails' = 0 =>
          /\ id' = ids' /\ key' = keys'[tried']
          /\ Opens("current", key)' /\ Readable(File("current", "self"), key)'
          /\ disk'["old"] = Gone /\ disk'["new"] = Gone
    <3>1. Opens("current", key)' /\ Readable(File("current", "self"), key)'
      BY <1>2, <1>8, Zenon DEF Opens, Readable, File
    <3>2. fails = 0 => id' = ids
      BY <1>3, <1>8, <2>1, ZenonT(30) DEF Identity, Opens, Readable, File
    <3> QED BY <1>2, <1>6, <1>8, <2>1, <3>1, <3>2, Zenon
  <2>9. OldKeyFirst' => Full(disk["current"], key)' /\ (tried' = 2 => SecondKey')
    BY <1>2, <1>6, <1>7, <1>8, <2>1 DEF Full, HostsFull, SecondKey, Opens, File
  <2>10. IsFinish'
    BY <1>1, <1>2, <2>4, <2>6, <2>7, <2>8, <2>9 DEF IsFinish
  <2> QED BY <1>2, <1>3, <2>1, <2>3, <2>10 DEF StoreInv
<1>9. CASE ~(Opens("current", key) /\ Readable(File("current", "self"), key))
  <2>1. OpenFails /\ todo' = <<>> /\ id' = id
    BY <1>9, Zenon DEF ReadConfig, Opens, OpenFails
  <2>2. OldKeyFirst => /\ tried = 1 /\ Recoverable /\ key = keys[1]
                       /\ \A d \in Dirs : ~Opens(d, key)
    <3>1. ~Full(disk["current"], key)
      BY <1>9, Zenon DEF Full, HostsFull, Opens, File
    <3> QED BY <1>6, <3>1, Zenon DEF OldKeyFirst
  <2>3. OldKeyFirst => \/ Len(keys) = 2 /\ Full(disk["current"], keys[2])
                       \/ Len(keys) = 1 /\ File("current", "main") = Empty
    BY <1>3, <2>2, Zenon DEF Recoverable, Full, Opens, File, Dirs
  <2>4. SameNode' => (\E d \in Dirs : Holds(d, "main"))'
    BY <1>6, <1>7, Zenon
  <2>5. CASE tried < Len(keys)
    <3>1. mode' = "down" /\ tried' = tried + 1
      BY <2>1, <2>5, Zenon DEF OpenFails
    <3>2. TypeOK'
      BY <1>1, <1>2, <2>1, <2>5, <3>1 DEF TypeOK
    <3>3. OldKeyFirst => tried' = 2 /\ SecondKey
      BY <1>1, <2>2, <2>3, <2>5, <3>1 DEF SecondKey
    <3>4. OldKeyFirst' => tried' # 1 /\ SecondKey'
      BY <1>2, <1>7, <3>3 DEF SecondKey, Full, HostsFull, Opens, File
    <3>5. IsDown'
      BY <2>1, <2>4, <3>4, Zenon DEF IsDown
    <3> QED BY <1>2, <1>3, <3>1, <3>2, <3>5 DEF StoreInv
  <2>6. CASE ~(tried < Len(keys))
    <3>1. mode' = "lost" /\ tried' = tried
      BY <2>1, <2>6, Zenon DEF OpenFails
    <3>2. TypeOK'
      BY <1>1, <1>2, <2>1, <3>1, Zenon DEF TypeOK
    <3>3. OldKeyFirst => File("current", "main") = Empty
      BY <1>1, <2>2, <2>3, <2>6 DEF TypeOK
    <3>4. IsLost'
      BY <1>2, <1>7, <2>1, <2>4, <3>3, Zenon DEF IsLost, File
    <3> QED BY <1>2, <1>3, <3>1, <3>2, <3>4 DEF StoreInv
  <2> QED BY <2>5, <2>6, Zenon
<1> QED BY <1>8, <1>9

\* What has to be so for a handle to be usable.
LEMMA UpBegins ==
    ASSUME StoreInv, TypeOK', mode' = "up", todo' = <<>>,
           UNCHANGED <<disk, key, id, ids, fails, newFirst, saved>>,
           keys' = <<key>>, tried' = 1, key \in Keys, ident' # 0,
           fails = 0 => ident' = ids,
           SameNode' => Holds("current", "main") \/ MainKept,
           fails = 0 => /\ id = ids /\ Full(disk["current"], key) /\ Only(disk["current"], key)
                        /\ disk["old"] = Gone /\ ~Opens("new", key)
    PROVE  StoreInv'
<1>1. fails = 0 => Identity
  BY Zenon DEF StoreInv
<1>2. fails' = 0 => Identity'
  BY <1>1, Zenon DEF Identity, Uniform, File
<1>3. SameNode' => MainKept'
  BY Zenon DEF MainKept, Holds, File
<1>4. fails' = 0 => /\ Only(disk["current"], key)' /\ HostsFull(disk["current"], key)'
                    /\ disk'["old"] = Gone /\ ~Opens("new", key)' /\ Opens("current", key)'
  BY Zenon DEF Only, Full, HostsFull, Opens, File
<1>5. Usable'
  BY <1>3, <1>4, Zenon DEF Usable
<1>6. IsUp'
  BY <1>4, <1>5, Zenon DEF IsUp
<1> QED BY <1>2, <1>6, Zenon DEF StoreInv

\* The return of a call preserves StoreInv.
LEMMA ReturnKeeps ==
    ASSUME StoreInv, MainValues, Return, newFirst' = newFirst
    PROVE  StoreInv'
<1>1. /\ TypeOK /\ (fails = 0 => Identity) /\ todo = <<>>
      /\ mode \in {"finish", "setup", "rotate", "write"}
  BY Zenon DEF StoreInv, Return
<1>2. /\ mode' = "up" /\ keys' = <<key>> /\ tried' = 1 /\ todo' = <<>>
      /\ ident' = IF ident = 0 THEN id ELSE ident
      /\ UNCHANGED <<disk, key, newkey, id, ids, saved, fails, counts, newFirst>>
  BY Zenon DEF Return, handle
<1> DEFINE n == Left
<1>3. n = 0
  BY <1>1, Zenon DEF Left
<1>4. n = 0 <=> /\ n <= 1 /\ n <= 2 /\ n <= 3 /\ n <= 6 /\ n <= 7 /\ n <= 9 /\ n <= 11 /\ n <= 12
               /\ n # 4 /\ n = 0 /\ ~(n >= 1)
  BY <1>3
<1>5. key \in Keys /\ keys' \in Seq(Keys) /\ Len(keys') = 1
  <2>1. key \in Keys
    BY <1>1 DEF StoreInv, IsFinish, IsSetup, IsRotate, IsWrite, Usable
  <2>2. \A k \in Keys : <<k>> \in Seq(Keys) /\ Len(<<k>>) = 1
    OBVIOUS
  <2> QED BY <1>2, <2>1, <2>2, ZenonT(30)
<1>6. id \in 0 .. ids /\ ident' \in 0 .. ids
  BY <1>1, <1>2, ZenonT(30) DEF TypeOK
<1>7. TypeOK'
  BY <1>1, <1>2, <1>5, <1>6 DEF TypeOK
<1>8. {"current", "new", "old"} \subseteq Dirs /\ ~Readable(None, key) /\ "main" \in Names
  BY Zenon DEF Dirs, Readable, Names
<1>9. disk["new"] = Gone => ~Opens("new", key)
  BY <1>8, GoneDir, Zenon DEF Opens, File
<1>10. CASE mode = "finish"
  <2>1. IsFinish /\ id # 0
    BY <1>10, Zenon DEF StoreInv, MainValues
  <2>2. ident' # 0 /\ (fails = 0 => ident' = ids)
    BY <1>1, <1>2, <2>1, Zenon DEF IsFinish, Identity
  <2>3. fails = 0 => Only(disk["current"], key)
    BY <1>1, <1>8, <2>1, UniformOnly, Zenon DEF IsFinish, Identity, Opens, File
  <2>4. fails = 0 => Full(disk["current"], key)
    <3>1. SUFFICES ASSUME fails = 0, saved > 0, ~newFirst PROVE Full(disk["current"], key)
      BY <2>1, Zenon DEF IsFinish, Full, HostsFull, Opens, File
    <3>2. OldKeyFirst
      BY <1>1, <3>1, Zenon DEF OldKeyFirst, Identity
    <3> QED BY <2>1, <3>2, Zenon DEF IsFinish
  <2>5. /\ Holds("current", "main")
        /\ fails = 0 => id = ids /\ disk["old"] = Gone /\ ~Opens("new", key)
    BY <1>9, <2>1, Zenon DEF IsFinish
  <2> QED BY <1>2, <1>5, <1>7, <2>2, <2>3, <2>4, <2>5, UpBegins, Zenon
<1>11. CASE mode = "setup"
  <2>1. IsSetup
    BY <1>11, Zenon DEF StoreInv
  <2>2. /\ ident < ids /\ id = ids /\ Holds("current", "main") /\ Opens("current", key)
        /\ Only(disk["current"], key) /\ Readable(File("current", "self"), key)
        /\ disk["new"] = Gone /\ disk["old"] = Gone
    BY <1>3, <1>4, <2>1, ZenonT(30) DEF IsSetup
  <2>3. fails = 0 => ident = 0 /\ ~(saved > 0)
    BY <1>1, <2>2 DEF Identity, TypeOK
  <2>4. fails = 0 => Full(disk["current"], key)
    BY <2>2, <2>3, Zenon DEF Full, HostsFull, Opens, File
  <2>5. ident' # 0 /\ (fails = 0 => ident' = ids)
    BY <1>1, <1>2, <2>2, <2>3 DEF TypeOK
  <2> QED BY <1>2, <1>5, <1>7, <1>9, <2>2, <2>4, <2>5, UpBegins
<1>12. CASE mode = "rotate"
  <2>1. IsRotate
    BY <1>12, Zenon DEF StoreInv
  <2>2. ident # 0 /\ (SameNode => Holds("current", "main"))
    BY <1>3, <1>4, <2>1, Zenon DEF IsRotate
  <2>3. fails = 0 => /\ id = ids /\ key = newkey
                     /\ Full(disk["current"], newkey) /\ Only(disk["current"], newkey)
                     /\ disk["new"] = Gone /\ disk["old"] = Gone
    BY <1>3, <1>4, <2>1, Zenon DEF IsRotate
  <2>4. ident' = ident /\ (fails = 0 => ident' = ids)
    BY <1>1, <1>2, <2>2, Zenon DEF Identity
  <2>5. SameNode' => Holds("current", "main")
    BY <1>2, <2>2, <2>4, Zenon DEF SameNode
  <2> QED BY <1>2, <1>5, <1>7, <1>9, <2>2, <2>3, <2>4, <2>5, UpBegins, Zenon
<1>13. CASE mode = "write"
  <2>1. Usable /\ (WritesPeer \/ WritesMain)
    BY <1>13, Zenon DEF StoreInv, IsWrite
  <2>2. fails = 0 => Opens("current", key)
    BY <1>3, <1>4, <2>1, Zenon DEF WritesPeer, WritesMain
  <2>3. fails = 0 => Full(disk["current"], key)
    BY <2>1, <2>2, Zenon DEF Usable, Full, Opens, File
  <2>4. ident' = ident /\ ident # 0 /\ (fails = 0 => ident' = ids)
    BY <1>1, <1>2, <2>1, ZenonT(30) DEF Identity, Usable
  <2>5. SameNode' => MainKept
    BY <1>2, <2>1, <2>4, Zenon DEF SameNode, Usable
  <2>6. fails = 0 => /\ id = ids /\ Only(disk["current"], key)
                     /\ disk["old"] = Gone /\ ~Opens("new", key)
    BY <2>1, ZenonT(30) DEF Usable
  <2> QED BY <1>2, <1>5, <1>7, <2>3, <2>4, <2>5, <2>6, UpBegins
<1> QED BY <1>1, <1>10, <1>11, <1>12, <1>13, Zenon

\* A usable handle stays usable if disk and handle do not change.
LEMMA UsableSame ==
    ASSUME Usable, UNCHANGED <<disk, key, id, ids, keys, tried, saved, ident, fails, newFirst>>
    PROVE  /\ Usable' /\ (Opens("current", key)' <=> Opens("current", key))
           /\ fails = 0 /\ Identity => Identity'
BY DEF Usable, MainKept, SameNode, Only, HostsFull, Opens, Holds, File, Identity, Uniform

\* node_write_config and meshlink_set_port preserve StoreInv when they begin.
LEMMA WriteBegins ==
    ASSUME StoreInv, WritePeer \/ SetPort, newFirst' = newFirst
    PROVE  StoreInv'
<1>1. TypeOK /\ IsUp /\ Usable /\ (fails = 0 => Identity) /\ counts.writes \in Nat
  BY Zenon DEF StoreInv, WritePeer, SetPort, IsUp, TypeOK
<1>2. /\ mode' = "write" /\ counts' = [counts EXCEPT !.writes = @ + 1]
      /\ UNCHANGED <<disk, key, newkey, id, ids, keys, tried, saved, ident, fails, newFirst>>
  BY Zenon DEF WritePeer, SetPort, handle, app
<1>3. counts'.writes = counts.writes + 1
      /\ counts' \in [writes : Nat, rotations : Nat, crashes : Nat]
  BY <1>1, <1>2 DEF TypeOK
<1>4. saved \in 0 .. counts'.writes
  BY <1>1, <1>3 DEF TypeOK
<1>5. TypeOK'
  BY <1>1, <1>2, <1>3, <1>4, Zenon DEF TypeOK
<1>6. /\ Usable' /\ (fails' = 0 => Identity') /\ (fails' = 0 => Opens("current", key)')
  BY <1>1, <1>2, UsableSame, Zenon DEF IsUp
<1>7. CASE WritePeer
  <2>1. todo' = WriteProgram(counts'.writes)
    BY <1>3, <1>7, Zenon DEF WritePeer, WriteProgram
  <2>2. Ends(todo', WriteProgram(counts'.writes)) /\ Len(todo') = 4
    BY <2>1, ProgramsBegin, Zenon
  <2>3. \A n : n = 4 => ~(n <= 3) /\ n # 2 /\ n # 1
    OBVIOUS
  <2>4. WritesPeer'
    BY <1>6, <2>2, <2>3, Zenon DEF WritesPeer, Left
  <2> QED BY <1>2, <1>5, <1>6, <2>4 DEF StoreInv, IsWrite
<1>8. CASE SetPort
  <2>1. todo' = write_main_config_files(id')
    BY <1>2, <1>8, Zenon DEF SetPort
  <2>2. Ends(todo', write_main_config_files(id')) /\ Len(todo') = 6
    BY <2>1, ProgramsBegin, Zenon
  <2>3. \A n : n = 6 => ~(n <= 5) /\ n # 5 /\ n # 4 /\ n # 1
    OBVIOUS
  <2>4. WritesMain'
    BY <1>6, <2>2, <2>3, Zenon DEF WritesMain, Left
  <2> QED BY <1>2, <1>5, <1>6, <2>4 DEF StoreInv, IsWrite
<1> QED BY <1>7, <1>8, Zenon

\* meshlink_encrypted_key_rotate preserves StoreInv when it begins.
LEMMA RotateBegins ==
    ASSUME StoreInv, NEW k \in Keys, Rotate(k), newFirst' = newFirst
    PROVE  StoreInv'
<1>1. TypeOK /\ IsUp /\ Usable /\ (fails = 0 => Identity)
  BY Zenon DEF StoreInv, Rotate, IsUp
<1>2. /\ mode' = "rotate" /\ newkey' = k /\ k # key /\ counts' = [counts EXCEPT !.rotations = @ + 1]
      /\ keys' = IF newFirst THEN <<k, key>> ELSE <<key, k>>
      /\ UNCHANGED <<disk, key, id, ids, tried, fails, saved, ident, newFirst>>
      /\ todo' = meshlink_encrypted_key_rotate
  BY Zenon DEF Rotate
<1>3. key \in Keys /\ ident # 0 /\ tried = 1
  BY <1>1, Zenon DEF Usable
<1>4. keys' \in Seq(Keys) /\ Len(keys') = 2
  <2>1. CASE newFirst
    BY <1>2, <1>3, <2>1
  <2>2. CASE ~newFirst
    BY <1>2, <1>3, <2>2
  <2> QED BY <2>1, <2>2, Zenon
<1>5. /\ counts' \in [writes : Nat, rotations : Nat, crashes : Nat]
      /\ counts'.writes = counts.writes
  BY <1>1, <1>2 DEF TypeOK
<1>6. TypeOK'
  BY <1>1, <1>2, <1>3, <1>4, <1>5 DEF TypeOK
<1>7. Ends(todo', meshlink_encrypted_key_rotate) /\ Len(todo') = 7
  BY <1>2, ProgramsBegin, Zenon
<1>8. fails' = 0 => Identity'
  BY <1>1, <1>2, Zenon DEF Identity, Uniform, File
<1>9. SameNode' => MainKept'
  BY <1>1, <1>2, Zenon DEF Usable, SameNode, MainKept, Holds, File
<1>10. fails' = 0 => /\ id' = ids' /\ Full(disk["current"], key)' /\ Only(disk["current"], key)'
                     /\ disk'["old"] = Gone
  BY <1>1, <1>2 DEF IsUp, Usable, Full, HostsFull, Only, Opens, File
<1>11. \A n : n = 7 => /\ n >= 4 /\ n # 6 /\ n # 5 /\ n \notin {3, 4} /\ n # 3 /\ ~(n <= 2)
                       /\ n >= 1 /\ n # 0 /\ n # 2 /\ ~(n <= 1)
  OBVIOUS
<1>12. IsRotate'
  BY <1>2, <1>3, <1>7, <1>9, <1>10, <1>11 DEF IsRotate, Left
<1> QED BY <1>2, <1>6, <1>8, <1>12 DEF StoreInv

\* What has to be so when there is no handle any more.
LEMMA DownBegins ==
    ASSUME StoreInv, TypeOK', mode' = "down", todo' = <<>>, tried' = 1,
           UNCHANGED <<disk, ids, ident, fails, newFirst, saved, keys>>,
           SameNode => \E d \in Dirs : Holds(d, "main"),
           OldKeyFirst => Recoverable
    PROVE  StoreInv'
<1>1. fails' = 0 => Identity'
  BY Zenon DEF StoreInv, Identity, Uniform, File
<1>2. SameNode' => (\E d \in Dirs : Holds(d, "main"))'
  BY Zenon DEF SameNode, Holds, File
<1>3. OldKeyFirst' => Recoverable'
  BY Zenon DEF OldKeyFirst, Recoverable, Full, HostsFull, Opens, File
<1>4. IsDown'
  BY <1>2, <1>3, Zenon DEF IsDown
<1> QED BY <1>1, <1>4 DEF StoreInv

\* With one key, the node can be opened again, or its meshlink.conf is empty.
LEMMA OneKeyLeft ==
    ASSUME Usable, OldKeyFirst,
           Opens("current", key) \/ File("current", "main") = Empty
    PROVE  Recoverable
<1>1. /\ keys = <<key>> /\ HostsFull(disk["current"], key)
      /\ disk["old"] = Gone /\ ~Opens("new", key)
  BY Zenon DEF Usable, OldKeyFirst
<1>2. keys[1] = key /\ Len(keys) = 1
  BY <1>1, Zenon
<1>3. ~Opens("old", key)
  BY <1>1, GoneDir, Zenon DEF Opens, File, Readable, Names
<1>4. CASE Opens("current", key)
  BY <1>1, <1>2, <1>4, Zenon DEF Recoverable, Full, Opens, File
<1>5. CASE File("current", "main") = Empty
  <2>1. ~Opens("current", key)
    BY <1>5, Zenon DEF Opens, Readable
  <2> QED BY <1>1, <1>2, <1>3, <1>5, <2>1, Zenon DEF Recoverable, Dirs
<1> QED BY <1>4, <1>5, Zenon

\* meshlink_close preserves StoreInv.
LEMMA CloseKeeps ==
    ASSUME StoreInv, Close, newFirst' = newFirst
    PROVE  StoreInv'
<1>1. TypeOK /\ IsUp /\ Usable
  BY Zenon DEF StoreInv, Close, IsUp
<1>2. /\ mode' = "down" /\ todo' = <<>> /\ tried' = 1
      /\ UNCHANGED <<disk, key, newkey, id, ids, keys, tried, saved, ident, fails, counts,
                     newFirst>>
  BY <1>1, Zenon DEF Close, handle, app, IsUp, Usable
<1>3. TypeOK'
  BY <1>1, <1>2, Zenon DEF TypeOK
<1>4. SameNode => \E d \in Dirs : Holds(d, "main")
  BY <1>1, Zenon DEF Usable, MainKept, Dirs
<1>5. OldKeyFirst => Recoverable
  BY <1>1, OneKeyLeft, Zenon DEF IsUp, OldKeyFirst
<1> QED BY <1>2, <1>3, <1>4, <1>5, DownBegins, Zenon

\* If the key of the handle opens current, the application can open the node from

\* its first key on.
LEMMA KeyOpens ==
    ASSUME TypeOK, key = keys[tried], Full(disk["current"], key), tried = 2 => SecondKey
    PROVE  Recoverable
<1>1. tried \in {1, 2} /\ (tried = 2 => Len(keys) = 2)
  BY DEF TypeOK
<1>2. CASE tried = 1
  BY <1>2, Zenon DEF Recoverable
<1>3. CASE tried = 2
  BY <1>1, <1>3, Zenon DEF Recoverable, SecondKey
<1> QED BY <1>1, <1>2, <1>3, Zenon

\* A directory that is complete with one key cannot be opened with another.
LEMMA OtherKey ==
    ASSUME NEW d, NEW k1, NEW k2, k1 # k2, Full(disk[d], k1)
    PROVE  ~Opens(d, k2)
BY Zenon DEF Full, Opens, File, Readable

\* A rotation can be interrupted at every step: one of the keys opens the node.
LEMMA RotateRecoverable ==
    ASSUME StoreInv, mode = "rotate", OldKeyFirst
    PROVE  Recoverable
<1> DEFINE n == Left
<1>1. IsRotate /\ fails = 0 /\ ~newFirst
  BY Zenon DEF StoreInv, OldKeyFirst
<1>2. n \in 0 .. 7
  BY <1>1, RotateTable, Zenon DEF IsRotate, Left
<1>3. {"current", "new", "old"} = Dirs
  BY Zenon DEF Dirs
<1>4. \A d \in Dirs : \A k : disk[d] = Gone => ~Opens(d, k)
  BY GoneDir, Zenon DEF Opens, File, Readable, Names
<1>5. n >= 1 => key # newkey /\ keys = <<key, newkey>>
  BY <1>1, Zenon DEF IsRotate
<1>6. n >= 1 => key # newkey /\ keys[1] = key /\ keys[2] = newkey /\ Len(keys) = 2
  BY <1>5
<1>7. CASE n >= 4
  BY <1>1, <1>2, <1>6, <1>7 DEF IsRotate, Recoverable
<1>8. CASE n = 3
  <2>1. Full(disk["new"], newkey) /\ Full(disk["old"], key) /\ disk["current"] = Gone
    BY <1>1, <1>8, Zenon DEF IsRotate
  <2> QED BY <1>3, <1>4, <1>6, <1>8, <2>1, OtherKey DEF Recoverable
<1>9. CASE n \in {1, 2}
  <2>1. n <= 2 /\ n >= 1
    BY <1>9
  <2>2. /\ Full(disk["current"], newkey) /\ disk["new"] = Gone
        /\ Full(disk["old"], key) \/ ~Holds("old", "main") \/ disk["old"] = Gone
    BY <1>1, <1>9, <2>1, Zenon DEF IsRotate
  <2>3. Full(disk["old"], key) \/ ~Opens("old", key)
    BY <1>3, <1>4, <2>2, Zenon DEF Holds, Opens, Readable
  <2>4. ~Opens("current", key) /\ ~Opens("new", key)
    BY <1>3, <1>4, <1>6, <2>1, <2>2, OtherKey
  <2> QED BY <1>3, <1>6, <2>1, <2>2, <2>3, <2>4 DEF Recoverable
<1>10. CASE n = 0
  <2>1. n <= 2 /\ n <= 1 /\ n = 0
    BY <1>10
  <2>2. key = newkey /\ \E k \in Keys : k # key /\ keys = <<k, key>>
    BY <1>1, <2>1, Zenon DEF IsRotate
  <2>3. Full(disk["current"], key) /\ disk["new"] = Gone /\ disk["old"] = Gone
    BY <1>1, <2>1, <2>2, Zenon DEF IsRotate
  <2>4. keys[1] # key /\ keys[2] = key /\ Len(keys) = 2
    BY <2>2
  <2> QED BY <1>3, <1>4, <2>3, <2>4, OtherKey, Zenon DEF Recoverable
<1> QED BY <1>2, <1>7, <1>8, <1>9, <1>10

\* Even if fsync calls fail, meshlink.conf is somewhere during a rotation.
LEMMA RotateHoldsMain ==
    ASSUME StoreInv, mode = "rotate", SameNode
    PROVE  \E d \in Dirs : Holds(d, "main")
<1>1. IsRotate
  BY Zenon DEF StoreInv
<1>2. Left \in 0 .. 7
  BY <1>1, RotateTable, Zenon DEF IsRotate, Left
<1>3. \A n \in 0 .. 7 : n >= 4 \/ n = 3 \/ n <= 2
  OBVIOUS
<1> QED BY <1>1, <1>2, <1>3, Zenon DEF IsRotate, MainKept, Dirs

\* A crash anywhere preserves StoreInv.
LEMMA CrashKeeps ==
    ASSUME StoreInv, Crash, newFirst' = newFirst
    PROVE  StoreInv'
<1>1. TypeOK /\ (fails = 0 => Identity)
      /\ mode \in {"recover", "setup", "finish", "up", "rotate", "write"}
  BY Zenon DEF StoreInv, Crash, TypeOK
<1>2. /\ mode' = "down" /\ todo' = <<>> /\ tried' = 1
      /\ counts' = [counts EXCEPT !.crashes = @ + 1]
      /\ UNCHANGED <<disk, key, newkey, id, ids, keys, saved, ident, fails, newFirst>>
  BY Zenon DEF Crash, handle
<1>3. /\ counts' \in [writes : Nat, rotations : Nat, crashes : Nat]
      /\ counts'.writes = counts.writes
  <2>1. counts \in [writes : Nat, rotations : Nat, crashes : Nat]
    BY <1>1, Zenon DEF TypeOK
  <2>2. counts' = [counts EXCEPT !.crashes = @ + 1]
    BY <1>2, Zenon
  <2> QED BY <2>1, <2>2
<1>4. TypeOK'
  BY <1>1, <1>2, <1>3 DEF TypeOK
<1>5. {"current", "new", "old"} = Dirs
  BY Zenon DEF Dirs
<1> SUFFICES (SameNode => \E d \in Dirs : Holds(d, "main")) /\ (OldKeyFirst => Recoverable)
  BY <1>2, <1>4, DownBegins
<1>6. CASE mode = "setup"
  BY <1>1, <1>6 DEF StoreInv, IsSetup, SameNode, OldKeyFirst, Identity, TypeOK
<1>7. CASE mode = "recover"
  <2>1. IsRecover
    BY <1>7, Zenon DEF StoreInv
  <2>2. PICK r \in {"new", "old"} : Ends(todo, Restore(r))
    BY <2>1, Zenon DEF IsRecover
  <2>3. Left \in 0 .. 4
    BY <2>2, RestoreTable, Zenon DEF Left
  <2>4. \A n \in 0 .. 4 : n = 0 \/ n \in {1, 2} \/ n >= 3
    OBVIOUS
  <2>5. SameNode => \E d \in Dirs : Holds(d, "main")
    BY <1>5, <2>1, <2>2, <2>3, <2>4, Zenon DEF IsRecover
  <2>6. ASSUME OldKeyFirst PROVE Recoverable
    <3>1. key = keys[tried] /\ (tried = 2 => SecondKey)
      BY <2>1, <2>6, Zenon DEF IsRecover, OldKeyFirst
    <3>2. CASE Left >= 3
      BY <2>1, <2>6, <3>1, <3>2, Zenon DEF IsRecover, Recoverable
    <3>3. CASE ~(Left >= 3)
      <4>1. Full(disk["current"], key) \/ Recoverable
        BY <2>1, <2>3, <2>4, <2>6, <3>3, Zenon DEF IsRecover
      <4> QED BY <1>1, <3>1, <4>1, KeyOpens, Zenon
    <3> QED BY <3>2, <3>3, Zenon
  <2> QED BY <2>5, <2>6, Zenon
<1>8. CASE mode = "finish"
  <2>1. IsFinish
    BY <1>8, Zenon DEF StoreInv
  <2>2. OldKeyFirst => Recoverable
    BY <1>1, <2>1, KeyOpens, Zenon DEF IsFinish, OldKeyFirst
  <2> QED BY <1>5, <2>1, <2>2, Zenon DEF IsFinish
<1>9. CASE mode \in {"up", "write"}
  <2>1. Usable /\ (mode = "write" => WritesPeer \/ WritesMain)
           /\ (mode = "up" => IsUp)
    BY <1>9, Zenon DEF StoreInv, IsUp, IsWrite
  <2>2. fails = 0 => Opens("current", key) \/ File("current", "main") = Empty
    BY <1>9, <2>1, Zenon DEF IsUp, WritesPeer, WritesMain
  <2>3. OldKeyFirst => Recoverable
    BY <2>1, <2>2, OneKeyLeft, Zenon DEF OldKeyFirst
  <2> QED BY <1>5, <2>1, <2>3, Zenon DEF Usable, MainKept
<1>10. CASE mode = "rotate"
  BY <1>10, RotateHoldsMain, RotateRecoverable, Zenon
<1> QED BY <1>1, <1>6, <1>7, <1>8, <1>9, <1>10

-----------------------------------------------------------------------------
\* The theorems.

\* Every disk step preserves StoreInv.
LEMMA StepKeeps ==
    ASSUME StoreInv, DiskStep, newFirst' = newFirst
    PROVE  StoreInv'
<1>1. todo # <<>>
  BY Picks, Zenon
<1>2. mode \in {"setup", "recover", "finish", "write", "rotate"}
  BY <1>1, NextOp, Zenon
<1> QED BY <1>2, SetupStep, RecoverStep, FinishStep, WriteStep, RotateStep, Zenon

\* An empty store satisfies the invariants.
LEMMA InitHolds ==
    ASSUME Init
    PROVE  StoreInv /\ MainValues
<1>1. \A d \in Dirs : disk[d] = Gone
  BY Zenon DEF Init
<1>2. PICK k \in Keys : keys = <<k>>
  BY Zenon DEF Init
<1>3. keys \in Seq(Keys) /\ Len(keys) = 1
  BY <1>2
<1>4. \A d \in Dirs : disk[d] \in Dir /\ disk[d].file = NoFiles
  BY <1>1, GoneDir, Zenon
<1>5. disk \in [Dirs -> Dir]
  BY <1>4, ZenonT(30) DEF Init
<1>6. TypeOK
  BY <1>3, <1>4, <1>5, BoundsAssumption DEF TypeOK, Init, Dir
<1>7. \A d \in Dirs, n \in Names : disk[d].file[n] = None
  BY <1>4, GoneDir, Zenon
<1>8. Identity
  <2>1. ASSUME NEW d \in Dirs PROVE Uniform(disk[d])
    <3>1. \A m, n \in Names : None \in {disk[d].file[m], disk[d].file[n]} \cap {None, Empty}
      BY <1>7, <2>1, Zenon
    <3> QED BY <3>1, Zenon DEF Uniform
  <2>2. \A d \in Dirs : File(d, "main") = None
    BY <1>7, Zenon DEF File, Names
  <2>3. ident = 0 /\ saved = 0
    BY Zenon DEF Init
  <2> QED BY <2>1, <2>2, <2>3 DEF Identity
<1>9. IsDown
  BY Zenon DEF Init, IsDown, SameNode, OldKeyFirst
<1>10. MainValues
  BY <1>7, Zenon DEF Init, MainValues, File, Names
<1> QED BY <1>6, <1>8, <1>9, <1>10 DEF Init, StoreInv

\* The invariants hold in every state: whatever the application calls, and wherever

\* the process is killed, conf.c is where its program says, and the directories hold
\* what that position requires.
THEOREM StoreInvariant == Spec => [](StoreInv /\ MainValues)
<1>1. Init => StoreInv /\ MainValues
  BY InitHolds, Zenon
<1>2. StoreInv /\ MainValues /\ [Next]_vars => (StoreInv /\ MainValues)'
  <2> SUFFICES ASSUME StoreInv, MainValues, [Next]_vars
               PROVE  StoreInv' /\ MainValues'
    BY Zenon
  <2>1. CASE DiskStep /\ UNCHANGED newFirst
    BY <2>1, StepKeeps, ValuesStep, Zenon
  <2>2. ASSUME Call, UNCHANGED newFirst
        PROVE  StoreInv' /\ MainValues'
    <3>1. MainValues'
      BY <2>2, ValuesCall, Zenon
    <3>2. StoreInv'
      BY <2>2, OpenKeeps, ReadConfigKeeps, ReturnKeeps, WriteBegins, RotateBegins, CloseKeeps,
         CrashKeeps
         DEF Call
    <3> QED BY <3>1, <3>2, Zenon
  <2>3. CASE UNCHANGED vars
    BY <2>3, StoreStutters, Zenon
  <2> QED BY <2>1, <2>2, <2>3, Zenon DEF Next
<1> QED BY <1>1, <1>2, PTL DEF Spec

\* A node that was not replaced has a meshlink.conf in some directory, even after

\* failing fsync calls.
LEMMA SomeMain ==
    ASSUME StoreInv, SameNode
    PROVE  \E d \in Dirs : main_config_exists(d)
<1>1. SUFFICES \E d \in Dirs : Holds(d, "main")
  BY Zenon DEF Holds, main_config_exists
<1>2. "current" \in Dirs /\ "old" \in Dirs /\ "new" \in Dirs
  BY Zenon DEF Dirs
<1>3. mode \in {"down", "lost", "setup", "recover", "finish", "up", "write", "rotate"} /\ TypeOK
  BY DEF StoreInv, TypeOK
<1>4. mode # "setup"
  BY <1>3 DEF StoreInv, IsSetup, SameNode, TypeOK
<1>5. CASE mode \in {"down", "lost"}
  BY <1>5, Zenon DEF StoreInv, IsDown, IsLost
<1>6. CASE mode = "recover"
  <2>1. IsRecover
    BY <1>6, Zenon DEF StoreInv
  <2>2. PICK r \in {"new", "old"} : Ends(todo, Restore(r))
    BY <2>1, Zenon DEF IsRecover
  <2>3. Left \in 0 .. 4
    BY <2>2, RestoreTable, Zenon DEF Left
  <2>4. \A n \in 0 .. 4 : n = 0 \/ n \in {1, 2} \/ n >= 3
    OBVIOUS
  <2> QED BY <1>2, <2>1, <2>2, <2>3, <2>4 DEF IsRecover
<1>7. CASE mode = "finish"
  BY <1>2, <1>7 DEF StoreInv, IsFinish
<1>8. CASE mode \in {"up", "write"}
  BY <1>2, <1>8 DEF StoreInv, IsUp, IsWrite, Usable, MainKept
<1>9. CASE mode = "rotate"
  BY <1>9, RotateHoldsMain, Zenon
<1> QED BY <1>3, <1>4, <1>5, <1>6, <1>7, <1>8, <1>9

\* A handle that meshlink_open_ex returned, and every call since, has the identity

\* the node started with, and finds meshlink.conf, its own host file and the saved
\* host files readable with its key, for any keys and any number of writes,
\* rotations and crashes.
THEOREM NodeStaysIntact == Spec => []ConfigIntact
<1>1. ASSUME StoreInv PROVE ConfigIntact
  <2>1. ident # 0 /\ ids = ident => \E d \in Dirs : main_config_exists(d)
    BY <1>1, SomeMain, Zenon DEF SameNode
  <2>2. ASSUME mode = "up", fails = 0
        PROVE  /\ id = ident /\ Readable(File("current", "main"), key)
               /\ File("current", "main").val = id
               /\ HostsFull(disk["current"], key)
    <3>1. IsUp /\ Usable /\ Identity
      BY <1>1, <2>2 DEF StoreInv, IsUp
    <3>2. id = ids /\ ident = ids /\ Opens("current", key) /\ HostsFull(disk["current"], key)
      BY <2>2, <3>1, Zenon DEF IsUp, Usable, Identity
    <3>3. Readable(File("current", "main"), key)
      BY <3>2, Zenon DEF Opens
    <3>4. File("current", "main").val = ids
      BY <3>1, <3>3, Zenon DEF Identity, Readable, Dirs
    <3> QED BY <3>2, <3>3, <3>4, Zenon
  <2> QED BY <2>1, <2>2, Zenon DEF ConfigIntact, HostsFull, File
<1> QED BY <1>1, StoreInvariant, PTL

\* meshlink_encrypted_key_rotate returns false, without a failing fsync, only
\* because config_copy cannot read a file that an interrupted write left empty.
LEMMA RotateFailsOnTornFile ==
    ASSUME StoreInv, DiskStep, newFirst' = newFirst,
           mode = "rotate", mode' = "up", fails' = 0
    PROVE  \E n \in Names : File("current", n) = Empty
<1>1. TypeOK /\ IsRotate /\ fails \in Nat /\ Left \in 1 .. 7
  BY RotatePart DEF StoreInv, TypeOK
<1>2. ~Stays /\ ~Steps /\ ~SyncFails
  BY <1>1 DEF Stays, Steps, SyncFails, rest
<1>3. Ends(todo, meshlink_encrypted_key_rotate)
  BY <1>1, Zenon DEF IsRotate
<1>4. {"current", "new", "old"} \subseteq Dirs /\ "current" # "old" /\ "new" # "current"
  BY Zenon DEF Dirs
<1>5. /\ Left = 7 => Head(todo) = Deltree("new")
      /\ Left = 6 => Head(todo) = Mkdir("new")
      /\ Left = 5 => Head(todo) = Copy
      /\ Left = 4 => Head(todo) = Rename("current", "old")
      /\ Left = 3 => Head(todo) = Rename("new", "current")
      /\ Left = 2 => Head(todo) = Destroy("old")
      /\ Left = 1 => Head(todo) = SetKey
  BY <1>3, RotateTable, Zenon DEF Left
<1>6. Left # 7 /\ Left # 6 /\ Left # 2
  BY <1>1, <1>2, <1>4, <1>5, DeltreeEffect, MkdirEffect, DestroyEffect, Zenon
<1>7. Left # 1
  BY <1>5, SetKeyEffect, Zenon
<1>8. \A d \in Dirs : \A k : Full(disk[d], k) => disk[d].made
  BY <1>1, MadeIfHeld, Zenon DEF Full, Holds, File, Readable
<1>9. CASE Left \in {3, 4}
  <2>1. PICK from \in Dirs, to \in Dirs : from # to /\ Head(todo) = Rename(from, to)
    BY <1>4, <1>5, <1>9, Zenon
  <2>2. CallFails
    BY <1>1, <1>2, <2>1, RenameEffect, Zenon
  <2>3. fails = 0
    BY <2>2, Zenon DEF CallFails
  <2>4. CASE Left = 4
    <3>1. disk["current"].made /\ ~disk["old"].made
      BY <1>1, <1>4, <1>8, <2>3, <2>4, GoneDir DEF IsRotate
    <3> QED BY <1>1, <1>2, <1>4, <1>5, <2>4, <3>1, RenameEffect
  <2>5. CASE Left = 3
    <3>1. disk["new"].made /\ ~disk["current"].made
      BY <1>1, <1>4, <1>8, <2>3, <2>5, GoneDir DEF IsRotate
    <3> QED BY <1>1, <1>2, <1>4, <1>5, <2>5, <3>1, RenameEffect, ZenonT(30)
  <2> QED BY <1>9, <2>4, <2>5, Zenon
<1>10. CASE Left = 5
  <2>1. /\ disk["new"].made /\ newkey \in Keys
        /\ \A n \in Names : Holds("new", n) => Readable(File("current", n), key)
    BY <1>1, <1>10, Zenon DEF IsRotate
  <2>2. /\ CallFails
        /\ \/ ~disk["current"].made
           \/ \E n \in Names : Holds("current", n) /\ ~Readable(File("current", n), key)
    BY <1>1, <1>2, <1>5, <1>10, <2>1, CopyEffect
  <2>3. Left >= 4 /\ fails = 0
    BY <1>10, <2>2 DEF CallFails
  <2>4. Full(disk["current"], key) /\ Only(disk["current"], key)
    BY <1>1, <2>3, Zenon DEF IsRotate
  <2>5. PICK n \in Names : Holds("current", n) /\ ~Readable(File("current", n), key)
    BY <1>4, <1>8, <2>2, <2>4, Zenon
  <2>6. File("current", n) = Empty
    BY <2>4, <2>5, Zenon DEF Only, Holds, Readable, File
  <2> QED BY <2>6, Zenon
<1>11. \A m \in 1 .. 7 : m = 1 \/ m = 2 \/ m \in {3, 4} \/ m = 5 \/ m = 6 \/ m = 7
  OBVIOUS
<1> QED BY <1>1, <1>6, <1>7, <1>9, <1>10, <1>11, ZenonT(30)

\* Whatever meshlink_encrypted_key_rotate was interrupted at: if the application
\* tries the old key first and no fsync has failed, one of its keys opens the node
\* again unless a crash left meshlink.conf empty; and if no fsync has failed, the next
\* rotation goes through unless a file was left empty.
THEOREM RotationCanBeRepeated == Spec => RotationRecovers
<1>1. StoreInv => LostOnlyByTornMain
  BY Zenon DEF StoreInv, IsLost, LostOnlyByTornMain, OldKeyFirst
<1>2. ASSUME StoreInv, [Next]_vars
      PROVE  [mode = "rotate" /\ mode' = "up" /\ key' # newkey /\ fails' = 0
              => \E n \in Names : File("current", n) = Empty]_vars
  <2> SUFFICES ASSUME Next, mode = "rotate", mode' = "up", key' # newkey, fails' = 0
               PROVE  \E n \in Names : File("current", n) = Empty
    BY <1>2, Zenon
  <2>1. CASE DiskStep /\ newFirst' = newFirst
    BY <1>2, <2>1, RotateFailsOnTornFile, Zenon
  <2>2. ASSUME Call PROVE FALSE
    <3>1. Return
      BY <2>2, Zenon DEF Call, Open, Setup, ReadConfig, OpenFails, WritePeer, SetPort, Rotate, Close, Crash
    <3>2. IsRotate /\ todo = <<>> /\ fails = 0 /\ key' = key
      BY <1>2, <3>1, Zenon DEF StoreInv, Return, handle
    <3>3. Left = 0
      BY <3>2, Zenon DEF Left
    <3>4. key = newkey
      BY <3>2, <3>3, Zenon DEF IsRotate
    <3> QED BY <3>2, <3>4, Zenon
  <2> QED BY <2>1, <2>2, Zenon DEF Next
<1> QED BY <1>1, <1>2, StoreInvariant, PTL DEF Spec, RotationRecovers, RotateFailsOnlyOnTornFile
=============================================================================
