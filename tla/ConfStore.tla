------------------------------ MODULE ConfStore -----------------------------
(***************************************************************************)
(* The encrypted configuration store of a node (src/conf.c) and the calls  *)
(* of src/meshlink.c that change it: opening it, which recovers from an    *)
(* interrupted key rotation or sets up a new node, writing meshlink.conf   *)
(* and host files, and rotating the storage key.                           *)
(*                                                                         *)
(* The store has the sub-directories current, new and old.  A call of the  *)
(* library is a program: the sequence of disk operations still to be done  *)
(* is in todo, and the process may be killed between any two of them.      *)
(* What has reached the kernel survives that; what is in a stdio buffer    *)
(* does not, so a file is empty from fopen until its buffer is flushed.    *)
(* Each file carries the key it is encrypted with and a value: the node's  *)
(* identity in meshlink.conf, a version number in the host file of a peer. *)
(***************************************************************************)
EXTENDS Naturals, Sequences

CONSTANTS
    Keys,          \* storage keys
    None,          \* no file
    Empty,         \* a file without contents
    MaxWrites,     \* bound: host file updates
    MaxRotations,  \* bound: calls of meshlink_encrypted_key_rotate
    MaxCrashes,    \* bound: times the process is killed
    MaxFail        \* bound: fsync calls that fail

ASSUME BoundsAssumption ==
    /\ {MaxWrites, MaxRotations, MaxCrashes, MaxFail} \subseteq Nat
    /\ Keys # {}

ASSUME FilesAssumption ==
    None # Empty /\ {None, Empty} \cap [key : Keys, val : Nat] = {}

VARIABLES
    disk,       \* disk[d]: the sub-directory d
    mode,       \* what the process is doing
    todo,       \* disk operations left to do
    key,        \* mesh->config_key
    newkey,     \* new_config_key during a rotation
    id,         \* identity in the handle: mesh->private_key
    ids,        \* identities made so far (makes them fresh)
    keys,       \* the keys the application will try, in order
    tried,      \* index in keys of the one to try next
    fails,      \* fsync calls that have failed
    newFirst,   \* after a crash, is the new key tried before the old one?
    counts,     \* calls and crashes so far
    saved,      \* history: last version config_write returned true for
    ident       \* history: identity of the node when it was first opened

vars == <<disk, mode, todo, key, newkey, id, ids, keys, tried, fails, newFirst, counts,
          saved, ident>>

handle == <<key, newkey, id, ids>>
app == <<keys, tried, saved, ident>>

Dirs == {"current", "new", "old"}
Tmp == [main |-> "main.tmp", self |-> "self.tmp", peer |-> "peer.tmp"]
Hosts == {"self", "peer", "self.tmp", "peer.tmp"}
Names == {"main", "main.tmp"} \union Hosts

NoFiles == [n \in Names |-> None]
Gone == [made |-> FALSE, file |-> NoFiles]

\* config_read_file: an empty file cannot be read.
Readable(c, k) == c \notin {None, Empty} /\ c.key = k

File(d, n) == disk[d].file[n]

Init ==
    /\ disk = [d \in Dirs |-> Gone]
    /\ mode = "down" /\ todo = <<>>
    /\ key = None /\ newkey = None /\ id = 0 /\ ids = 0
    /\ \E k \in Keys : keys = <<k>>
    /\ tried = 1 /\ newFirst \in BOOLEAN
    /\ fails = 0 /\ counts = [writes |-> 0, rotations |-> 0, crashes |-> 0]
    /\ saved = 0 /\ ident = 0

-----------------------------------------------------------------------------
(***************************************************************************)
(* Programs.                                                               *)
(***************************************************************************)
Destroy(d) == [op |-> "destroy", dir |-> d]
Deltree(d) == [op |-> "deltree", dir |-> d]
Mkdir(d) == [op |-> "mkdir", dir |-> d]
Rename(from, to) == [op |-> "rename", from |-> from, to |-> to]
Copy == [op |-> "copy"]
OpenTmp(f) == [op |-> "opentmp", f |-> f]
MvTmp(f) == [op |-> "mvtmp", f |-> f]
Flush(n, v) == [op |-> "flush", n |-> n, v |-> v]
SetKey == [op |-> "setkey"]
Written(v) == [op |-> "written", v |-> v]

\* config_write: the file is closed before it replaces the old one.
config_write(f, v) == <<OpenTmp(f), Flush(Tmp[f], v), MvTmp(f)>>

\* main_config_write: it replaces the old one before it is closed.
main_config_write(v) == <<OpenTmp("main"), MvTmp("main"), Flush("main", v)>>

write_main_config_files(v) == main_config_write(v) \o config_write("self", 0)

\* meshlink_setup, then the end of meshlink_open_ex
meshlink_setup(v) ==
    <<Destroy("new"), Destroy("old"), Deltree("current"), Mkdir("current")>>
    \o write_main_config_files(v) \o config_write("self", 0)

\* Mutant: the handle keeps the old key.
meshlink_encrypted_key_rotate_KeepsKey ==
    <<Deltree("new"), Mkdir("new"), Copy, Rename("current", "old"),
      Rename("new", "current"), Destroy("old")>>

meshlink_encrypted_key_rotate ==
    <<Deltree("new"), Mkdir("new"), Copy, Rename("current", "old"),
      Rename("new", "current"), Destroy("old"), SetKey>>

main_config_exists(d) == File(d, "main") # None

main_config_decrypt(d, k) == Readable(File(d, "main"), k)

\* Mutant: what an interrupted rotation left is not removed.
Recovery_NoCleanup(k) ==
    CASE main_config_decrypt("current", k) -> <<>>
      [] ~main_config_decrypt("current", k) /\ main_config_decrypt("new", k) ->
            <<Destroy("current"), Rename("new", "current")>>
      [] /\ ~main_config_decrypt("current", k) /\ ~main_config_decrypt("new", k)
         /\ main_config_decrypt("old", k) ->
            <<Destroy("current"), Rename("old", "current")>>
      [] OTHER -> <<>>

\* meshlink_confbase_exists: the disk operations that bring the store back
\* to a current that k decrypts, if there is one.
Recovery(k) ==
    LET cleanup == <<Destroy("old"), Destroy("new")>> IN
    CASE main_config_decrypt("current", k) -> cleanup
      [] ~main_config_decrypt("current", k) /\ main_config_decrypt("new", k) ->
            <<Destroy("current"), Rename("new", "current")>> \o cleanup
      [] /\ ~main_config_decrypt("current", k) /\ ~main_config_decrypt("new", k)
         /\ main_config_decrypt("old", k) ->
            <<Destroy("current"), Rename("old", "current")>> \o cleanup
      [] OTHER -> <<>>

-----------------------------------------------------------------------------
(***************************************************************************)
(* Calls of the application.                                               *)
(***************************************************************************)
\* meshlink_open_ex finds no configuration: "create it".
Setup ==
    /\ mode' = "setup"
    /\ id' = ids + 1 /\ ids' = ids + 1
    /\ todo' = meshlink_setup(ids + 1)
    /\ UNCHANGED app

\* meshlink_open_ex up to the disk operations of meshlink_confbase_exists
Open ==
    /\ mode = "down"
    /\ key' = keys[tried]
    /\ IF \E d \in Dirs : main_config_exists(d)
       THEN /\ mode' = "recover"
            /\ todo' = Recovery(keys[tried])
            /\ UNCHANGED <<id, ids>> /\ UNCHANGED app
       ELSE Setup
    /\ UNCHANGED <<disk, newkey, fails, counts>>

\* meshlink_open_ex returns NULL: the application tries its next key.
OpenFails ==
    /\ IF tried < Len(keys)
       THEN mode' = "down" /\ tried' = tried + 1
       ELSE mode' = "lost" /\ tried' = tried
    /\ todo' = <<>>
    /\ UNCHANGED <<id, ids, keys, saved, ident>>

\* meshlink_read_config: meshlink.conf and our own host file.
ReadConfig ==
    /\ mode = "recover" /\ todo = <<>>
    /\ IF Readable(File("current", "main"), key) /\ Readable(File("current", "self"), key)
       THEN /\ mode' = "finish"
            /\ id' = File("current", "main").val
            /\ todo' = config_write("self", 0)
            /\ UNCHANGED ids /\ UNCHANGED app
       ELSE OpenFails
    /\ UNCHANGED <<disk, key, newkey, fails, counts>>

\* A call returns: the handle can be used.
Return ==
    /\ mode \in {"finish", "setup", "rotate", "write"} /\ todo = <<>>
    /\ mode' = "up"
    /\ keys' = <<key>> /\ tried' = 1
    /\ ident' = IF ident = 0 THEN id ELSE ident
    /\ UNCHANGED <<disk, todo, saved, fails, counts>> /\ UNCHANGED handle

\* node_write_config for a peer
WritePeer ==
    /\ mode = "up" /\ counts.writes < MaxWrites
    /\ counts' = [counts EXCEPT !.writes = @ + 1]
    /\ mode' = "write"
    /\ todo' = Append(config_write("peer", counts.writes + 1), Written(counts.writes + 1))
    /\ UNCHANGED <<disk, fails>> /\ UNCHANGED handle /\ UNCHANGED app

\* meshlink_set_port
SetPort ==
    /\ mode = "up" /\ counts.writes < MaxWrites
    /\ counts' = [counts EXCEPT !.writes = @ + 1]
    /\ mode' = "write"
    /\ todo' = write_main_config_files(id)
    /\ UNCHANGED <<disk, fails>> /\ UNCHANGED handle /\ UNCHANGED app

\* meshlink_encrypted_key_rotate; from now on a crash leaves the application
\* with two keys to try.
Rotate(k) ==
    /\ mode = "up" /\ k # key /\ counts.rotations < MaxRotations
    /\ counts' = [counts EXCEPT !.rotations = @ + 1]
    /\ mode' = "rotate"
    /\ newkey' = k
    /\ keys' = IF newFirst THEN <<k, key>> ELSE <<key, k>>
    /\ todo' = meshlink_encrypted_key_rotate
    /\ UNCHANGED <<disk, key, id, ids, tried, fails, saved, ident>>

\* meshlink_close
Close ==
    /\ mode = "up"
    /\ mode' = "down"
    /\ UNCHANGED <<disk, todo, fails, counts>> /\ UNCHANGED handle /\ UNCHANGED app

\* The process is killed.
Crash ==
    /\ mode \notin {"down", "lost"} /\ counts.crashes < MaxCrashes
    /\ counts' = [counts EXCEPT !.crashes = @ + 1]
    /\ mode' = "down" /\ todo' = <<>> /\ tried' = 1
    /\ UNCHANGED <<disk, keys, fails, saved, ident>> /\ UNCHANGED handle

-----------------------------------------------------------------------------
(***************************************************************************)
(* Disk operations.                                                        *)
(***************************************************************************)
Doing(op) == todo # <<>> /\ Head(todo).op = op

Put(d, dir) == disk' = [disk EXCEPT ![d] = dir]

Done == todo' = Tail(todo) /\ UNCHANGED <<mode, id, ids>> /\ UNCHANGED app

\* The operation fails and the call returns false.  meshlink_open_ex takes a
\* false from meshlink_confbase_exists for an empty store.
Failed ==
    CASE mode = "recover" -> Setup
      [] mode \in {"setup", "finish"} -> OpenFails
      [] OTHER -> /\ mode' = "up" /\ todo' = <<>> /\ keys' = <<key>>
                  /\ UNCHANGED <<id, ids, tried, saved, ident>>

\* The end of an operation that calls sync_path, which may fail.
Synced ==
    \E failing \in {0, 1} :
        /\ fails + failing <= MaxFail
        /\ fails' = fails + failing
        /\ IF failing = 0 THEN Done ELSE Failed

\* config_destroy: meshlink.conf first, then the rest and the directory.
DoDestroy ==
    /\ Doing("destroy")
    /\ LET d == Head(todo).dir
           left == {n \in Names : File(d, n) # None}
       IN \/ /\ "main" \in left
             /\ Put(d, [disk[d] EXCEPT !.file["main"] = None])
             /\ UNCHANGED <<mode, todo, id, ids, fails>> /\ UNCHANGED app
          \/ /\ "main" \notin left
             /\ \E n \in left : Put(d, [disk[d] EXCEPT !.file[n] = None])
             /\ UNCHANGED <<mode, todo, id, ids, fails>> /\ UNCHANGED app
          \/ /\ left = {}
             /\ Put(d, Gone)
             /\ IF disk[d].made THEN Synced ELSE Done /\ fails' = fails
    /\ UNCHANGED <<key, newkey, counts>>

\* deltree, in the order of readdir
DoDeltree ==
    /\ Doing("deltree")
    /\ LET d == Head(todo).dir
           left == {n \in Names : File(d, n) # None}
       IN \/ /\ \E n \in left : Put(d, [disk[d] EXCEPT !.file[n] = None])
             /\ UNCHANGED <<mode, todo, id, ids>> /\ UNCHANGED app
          \/ /\ left = {}
             /\ Put(d, Gone)
             /\ Done
    /\ UNCHANGED <<key, newkey, fails, counts>>

DoMkdir ==
    /\ Doing("mkdir")
    /\ Put(Head(todo).dir, [Gone EXCEPT !.made = TRUE])
    /\ Done
    /\ UNCHANGED <<key, newkey, fails, counts>>

\* config_rename: rename(2) needs the source and no target.
DoRename ==
    /\ Doing("rename")
    /\ LET from == Head(todo).from
           to == Head(todo).to
       IN IF disk[from].made /\ ~disk[to].made
          THEN /\ disk' = [disk EXCEPT ![to] = disk[from], ![from] = Gone]
               /\ Synced
          ELSE Failed /\ UNCHANGED <<disk, fails>>
    /\ UNCHANGED <<key, newkey, counts>>

\* What config_write_file writes for the contents c of a copied file.
Copied(c) == [key |-> newkey, val |-> c.val]

\* copytree from current to new: a file is read, created and closed, in the
\* order of readdir, the directory hosts in one go.
DoCopy ==
    /\ Doing("copy")
    /\ LET src == disk["current"].file
           dst == disk["new"].file
           left == {n \in Names : src[n] # None /\ dst[n] = None}
           open == {n \in Names : dst[n] = Empty}
           inHosts == left \intersect Hosts # {} /\ \E n \in Hosts : dst[n] # None
       IN \/ /\ \E n \in open :
                  Put("new", [disk["new"] EXCEPT !.file[n] = Copied(src[n])])
             /\ UNCHANGED <<mode, todo, id, ids>> /\ UNCHANGED app
          \/ /\ open = {}
             /\ \E n \in IF inHosts THEN left \intersect Hosts ELSE left :
                  IF Readable(src[n], key)
                  THEN /\ Put("new", [disk["new"] EXCEPT !.file[n] = Empty])
                       /\ UNCHANGED <<mode, todo, id, ids>> /\ UNCHANGED app
                  ELSE Failed /\ UNCHANGED disk
          \/ /\ open = {} /\ left = {}
             /\ IF disk["current"].made THEN Done ELSE Failed
             /\ UNCHANGED disk
    /\ UNCHANGED <<key, newkey, fails, counts>>

\* fopen of the temporary file
DoOpenTmp ==
    /\ Doing("opentmp")
    /\ IF disk["current"].made
       THEN /\ Put("current", [disk["current"] EXCEPT !.file[Tmp[Head(todo).f]] = Empty])
            /\ Done
       ELSE Failed /\ UNCHANGED disk
    /\ UNCHANGED <<key, newkey, fails, counts>>

\* fclose writes out what fwrite has buffered
DoFlush ==
    /\ Doing("flush")
    /\ Put("current", [disk["current"] EXCEPT
                         !.file[Head(todo).n] = [key |-> key, val |-> Head(todo).v]])
    /\ Done
    /\ UNCHANGED <<key, newkey, fails, counts>>

\* rename of the temporary file
DoMvTmp ==
    /\ Doing("mvtmp")
    /\ LET f == Head(todo).f IN
         Put("current", [disk["current"] EXCEPT !.file[f] = File("current", Tmp[f]),
                                                !.file[Tmp[f]] = None])
    /\ Done
    /\ UNCHANGED <<key, newkey, fails, counts>>

\* "Change the mesh handle key with new key"
DoSetKey ==
    /\ Doing("setkey")
    /\ key' = newkey
    /\ Done
    /\ UNCHANGED <<disk, newkey, fails, counts>>

\* config_write returns true
DoWritten ==
    /\ Doing("written")
    /\ saved' = Head(todo).v
    /\ todo' = Tail(todo)
    /\ UNCHANGED <<disk, mode, fails, counts, keys, tried, ident>> /\ UNCHANGED handle

DiskStep ==
    \/ DoDestroy \/ DoDeltree \/ DoMkdir \/ DoRename \/ DoCopy
    \/ DoOpenTmp \/ DoFlush \/ DoMvTmp \/ DoSetKey \/ DoWritten

Call ==
    \/ Open \/ ReadConfig \/ Return
    \/ WritePeer \/ SetPort \/ (\E k \in Keys : Rotate(k)) \/ Close
    \/ Crash

Next ==
    \/ Call /\ UNCHANGED newFirst
    \/ DiskStep /\ UNCHANGED newFirst

Spec == Init /\ [][Next]_vars

-----------------------------------------------------------------------------
Contents == {None, Empty} \union [key : Keys, val : Nat]

\* Type invariant.
TypeOK ==
    /\ disk \in [Dirs -> [made : BOOLEAN, file : [Names -> Contents]]]
    /\ mode \in {"down", "recover", "setup", "finish", "up", "rotate", "write", "lost"}
    /\ key \in Keys \union {None} /\ newkey \in Keys \union {None}
    /\ ids \in Nat /\ id \in 0 .. ids /\ ident \in 0 .. ids /\ fails \in 0 .. MaxFail
    /\ counts \in [writes : Nat, rotations : Nat, crashes : Nat] /\ newFirst \in BOOLEAN
    /\ keys \in Seq(Keys) /\ Len(keys) \in {1, 2} /\ tried \in 1 .. Len(keys)
    /\ saved \in 0 .. counts.writes
    /\ \A d \in Dirs : ~disk[d].made => disk[d].file = NoFiles

\* Whenever a handle can be used, whatever crashes came before, meshlink.conf
\* and our own host file can be read with its key and hold its identity, and no
\* update of a host file that returned true is lost (if the application tries
\* the old key first, see LostOnlyByTornMain).  The identity is the one
\* the node started with: "If no configuration exists yet, create it".
\* When an fsync fails this is not so: a rotation returns false with the files
\* moved away, and a recovery that fails is taken for a missing configuration,
\* which meshlink_setup replaces.  Until it does, some directory still has the
\* identity.
ConfigIntact ==
    /\ mode = "up" /\ fails = 0 =>
        /\ id = ident
        /\ Readable(File("current", "main"), key)
        /\ File("current", "main").val = id
        /\ Readable(File("current", "self"), key)
        /\ saved > 0 /\ ~newFirst =>
                        /\ Readable(File("current", "peer"), key)
                        /\ File("current", "peer").val >= saved
    /\ ident # 0 /\ ids = ident => \E d \in Dirs : main_config_exists(d)

\* A node that was open once can be opened again with one of the keys the
\* application has: meshlink_encrypted_key_rotate can be interrupted anywhere.
\* Only a crash inside main_config_write can leave nothing to open, a failing
\* fsync, or trying the new key first: meshlink_confbase_exists then takes an
\* incomplete copy for the store and destroys the complete one (RotationAtomic).
LostOnlyByTornMain ==
    mode = "lost" /\ ident # 0 /\ fails = 0 /\ ~newFirst => File("current", "main") = Empty

\* A rotation that returns false has met a file that was left empty by an
\* interrupted write, or a failing fsync; in particular what an interrupted
\* rotation leaves does not stop the next one.
RotateFailsOnlyOnTornFile ==
    [][mode = "rotate" /\ mode' = "up" /\ key' # newkey /\ fails' = 0
       => \E n \in Names : File("current", n) = Empty]_vars

\* meshlink_encrypted_key_rotate can be interrupted anywhere and tried again,
\* provided that the old key is tried first and no fsync fails: the node opens
\* unless meshlink.conf was left empty, and the next rotation goes through unless
\* some file was.
RotationRecovers == []LostOnlyByTornMain /\ RotateFailsOnlyOnTornFile

\* A rotation that is interrupted "at any stage should give atomic result when
\* reopened", also for an application that tries the new key first: "if it failed
\* to open with "newkey" then opening with the "oldkey" should succeed".  It does
\* not when the copy had meshlink.conf but not yet our own host file.
RotationAtomic ==
    mode = "lost" /\ ident # 0 /\ fails = 0 => File("current", "main") = Empty

-----------------------------------------------------------------------------
(* What makes these properties inductive (module ConfStoreProofs).          *)

\* The sequence t is the end of program p.
Ends(t, p) == Len(t) \in 0 .. Len(p) /\ t = SubSeq(p, Len(p) - Len(t) + 1, Len(p))

Left == Len(todo)

\* A recovery from directory d; it begins with the third step if none is needed.
Restore(d) == <<Destroy("current"), Rename(d, "current"), Destroy("old"), Destroy("new")>>

WriteProgram(v) == Append(config_write("peer", v), Written(v))

Holds(d, n) == File(d, n) # None

Opens(d, k) == Readable(File(d, "main"), k)

\* A directory has all host files with key k.
HostsFull(dir, k) ==
    /\ Readable(dir.file["self"], k)
    /\ saved > 0 /\ ~newFirst => Readable(dir.file["peer"], k) /\ dir.file["peer"].val >= saved

\* It is complete with key k.
Full(dir, k) == Readable(dir.file["main"], k) /\ HostsFull(dir, k)

\* It has files with no other key.
Only(dir, k) == \A n \in Names : dir.file[n] \in {None, Empty} \/ dir.file[n].key = k

\* It has no files with different keys.
Uniform(dir) ==
    \A m, n \in Names : {dir.file[m], dir.file[n]} \cap {None, Empty} = {}
                        => dir.file[m].key = dir.file[n].key

\* While no fsync fails there is one identity, and no directory with two keys.
Identity ==
    /\ ident \in {0, ids} /\ (saved > 0 => ident # 0)
    /\ \A d \in Dirs : /\ Uniform(disk[d])
                       /\ File(d, "main") \in {None, Empty} \/ File(d, "main").val = ids

\* The node has not been replaced by meshlink_setup.
SameNode == ident # 0 /\ ids = ident

\* Which of the keys opens the node, and from where, when the old one is tried first.
Recoverable ==
    \/ Full(disk["current"], keys[1])
    \/ Full(disk["old"], keys[1]) /\ ~Opens("current", keys[1]) /\ ~Opens("new", keys[1])
    \/ /\ \A d \in Dirs : ~Opens(d, keys[1])
       /\ \/ Len(keys) = 2 /\ Full(disk["current"], keys[2])
          \/ Len(keys) = 1 /\ File("current", "main") = Empty

SecondKey == Full(disk["current"], keys[2]) /\ \A d \in Dirs : ~Opens(d, keys[1])

OldKeyFirst == fails = 0 /\ ident # 0 /\ ~newFirst

\* No handle.
IsDown ==
    /\ todo = <<>>
    /\ SameNode => \E d \in Dirs : Holds(d, "main")
    /\ OldKeyFirst => IF tried = 1 THEN Recoverable ELSE SecondKey

IsLost ==
    /\ todo = <<>>
    /\ SameNode => \E d \in Dirs : Holds(d, "main")
    /\ OldKeyFirst => File("current", "main") = Empty

\* meshlink_setup: the identity is new, and current is filled with its key.
IsSetup ==
    /\ Ends(todo, meshlink_setup(id)) /\ key \in Keys /\ ident < ids /\ id = ids
    /\ Left <= 12 => disk["new"] = Gone
    /\ Left <= 11 => disk["old"] = Gone
    /\ Left <= 9 => disk["current"].made /\ Only(disk["current"], key)
    /\ Left = 8 => File("current", "main.tmp") = Empty
    /\ Left <= 7 => Holds("current", "main")
    /\ Left <= 6 => Opens("current", key)
    /\ Left \in {1, 4} => Readable(File("current", "self.tmp"), key)
    /\ Left <= 3 => Readable(File("current", "self"), key)

\* meshlink_confbase_exists: the directory it found is there until it is current.
IsRecover ==
    /\ Ends(todo, Restore("new")) \/ Ends(todo, Restore("old"))
    /\ key \in Keys
    /\ \A d \in {"new", "old"} : Ends(todo, Restore(d)) =>
         /\ Left >= 3 => Holds(d, "main")
         /\ Left = 3 => ~disk["current"].made
    /\ SameNode => /\ Left \in {1, 2} => Holds("current", "main")
                   /\ Left = 0 => \E d \in Dirs : Holds(d, "main")
    /\ fails = 0 =>
        /\ key = keys[tried]
        /\ Left <= 1 /\ Opens("current", key) => disk["old"] = Gone
        /\ Left = 0 /\ Opens("current", key) => disk["new"] = Gone
    /\ OldKeyFirst =>
        /\ Left >= 3 => /\ tried = 1 /\ Ends(todo, Restore("old")) /\ Full(disk["old"], key)
                        /\ ~Opens("current", key) /\ ~Opens("new", key)
        /\ Left = 3 => disk["current"] = Gone
        /\ Left \in {1, 2} => Full(disk["current"], key)
        /\ Left = 0 => IF Opens("current", key)
                       THEN Full(disk["current"], key)
                       ELSE tried = 1 /\ Recoverable /\ \A d \in Dirs : ~Opens(d, key)
        /\ tried = 2 => SecondKey

\* The end of meshlink_open_ex.
IsFinish ==
    /\ Ends(todo, config_write("self", 0)) /\ key \in Keys /\ Holds("current", "main")
    /\ fails = 0 =>
        /\ id = ids /\ key = keys[tried]
        /\ Opens("current", key) /\ Readable(File("current", "self"), key)
        /\ disk["old"] = Gone /\ disk["new"] = Gone
        /\ Left = 1 => Readable(File("current", "self.tmp"), key)
    /\ OldKeyFirst => Full(disk["current"], key) /\ (tried = 2 => SecondKey)

\* meshlink.conf is in current, or in old after a rotation that returned false.
MainKept == Holds("current", "main") \/ (~disk["current"].made /\ Holds("old", "main"))

\* The handle can be used, or is used to write a file.
Usable ==
    /\ key \in Keys /\ ident # 0 /\ keys = <<key>> /\ tried = 1
    /\ SameNode => MainKept
    /\ fails = 0 => /\ id = ids
                    /\ Only(disk["current"], key) /\ HostsFull(disk["current"], key)
                    /\ disk["old"] = Gone /\ ~Opens("new", key)

IsUp ==
    /\ todo = <<>> /\ Usable
    /\ fails = 0 => Opens("current", key)

WritesPeer ==
    /\ Ends(todo, WriteProgram(counts.writes))
    /\ Left <= 3 => disk["current"].made
    /\ fails = 0 =>
        /\ Opens("current", key)
        /\ Left = 2 => /\ Readable(File("current", "peer.tmp"), key)
                       /\ File("current", "peer.tmp").val = counts.writes
        /\ Left = 1 => /\ Readable(File("current", "peer"), key)
                       /\ File("current", "peer").val = counts.writes

\* With four steps left, a crash leaves an empty meshlink.conf.
WritesMain ==
    /\ Ends(todo, write_main_config_files(id))
    /\ Left <= 5 => disk["current"].made
    /\ Left = 5 => Holds("current", "main.tmp")
    /\ fails = 0 =>
        /\ Left # 4 => Opens("current", key)
        /\ Left = 4 => File("current", "main") = Empty
        /\ Left = 5 => File("current", "main.tmp") = Empty
        /\ Left = 1 => Readable(File("current", "self.tmp"), key)

IsWrite == Usable /\ (WritesPeer \/ WritesMain)

\* meshlink_encrypted_key_rotate: one of current and old is complete with the old
\* key until current is complete with the new one.
IsRotate ==
    /\ Ends(todo, meshlink_encrypted_key_rotate)
    /\ key \in Keys /\ newkey \in Keys /\ ident # 0 /\ tried = 1
    /\ Left = 6 => disk["new"] = Gone
    /\ Left = 5 =>
         /\ disk["new"].made
         /\ \A n \in Names : Holds("new", n) =>
               /\ Readable(File("current", n), key)
               /\ File("new", n) \in {Empty, Copied(File("current", n))}
    /\ SameNode => /\ Left >= 4 => MainKept
                   /\ Left \in {3, 4} => Holds("new", "main")
                   /\ Left = 3 => ~disk["current"].made /\ Holds("old", "main")
                   /\ Left <= 2 => Holds("current", "main")
    /\ fails = 0 =>
        /\ id = ids
        /\ Left >= 1 => /\ key # newkey
                        /\ keys = IF newFirst THEN <<newkey, key>> ELSE <<key, newkey>>
        /\ Left = 0 => /\ key = newkey
                       /\ ~newFirst => \E k \in Keys : k # key /\ keys = <<k, key>>
        /\ Left >= 4 => /\ Full(disk["current"], key) /\ Only(disk["current"], key)
                        /\ disk["old"] = Gone
        /\ Left \in {3, 4} => Full(disk["new"], newkey) /\ Only(disk["new"], newkey)
        /\ Left = 3 => Full(disk["old"], key) /\ disk["current"] = Gone
        /\ Left <= 2 => /\ Full(disk["current"], newkey) /\ Only(disk["current"], newkey)
                        /\ disk["new"] = Gone
        /\ Left = 2 => Full(disk["old"], key) \/ ~Holds("old", "main")
        /\ Left <= 1 => disk["old"] = Gone

\* meshlink.conf has an identity that was made for the node; it is never closed
\* under its temporary name.
MainValues ==
    /\ \A d \in Dirs : /\ File(d, "main") \in {None, Empty} \/ File(d, "main").val \in 1 .. ids
                       /\ File(d, "main.tmp") \in {None, Empty}
    /\ mode \in {"finish", "up", "write", "rotate"} => id # 0

StoreInv ==
    /\ TypeOK
    /\ fails = 0 => Identity
    /\ mode = "down" => IsDown
    /\ mode = "lost" => IsLost
    /\ mode = "setup" => IsSetup
    /\ mode = "recover" => IsRecover
    /\ mode = "finish" => IsFinish
    /\ mode = "up" => IsUp
    /\ mode = "write" => IsWrite
    /\ mode = "rotate" => IsRotate
=============================================================================
