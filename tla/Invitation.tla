----------------------------- MODULE Invitation -----------------------------
(***************************************************************************)
(* Invitations: one node invites (meshlink_invite_ex, conf.c), devices     *)
(* join with an invitation URL (meshlink_join, finalize_join), and the     *)
(* inviter uses up the invitation and learns the invitee's key             *)
(* (process_invitation, commit_invitation).  Either side may crash and     *)
(* restart, and the connection between them may break, at any step.        *)
(*                                                                         *)
(* A file operation that has not been synced may be undone by a crash: for *)
(* the invitation files both what the program sees and what is sure to be  *)
(* on disk are kept.  Host configuration files are synced by the handler   *)
(* that writes them.                                                       *)
(***************************************************************************)
EXTENDS Naturals, FiniteSets

CONSTANTS
    Invitations,    \* the invitations the application asks for
    NameOf,         \* Invitations -> the name each one gives to the invitee
    Devices,        \* the devices that may join
    MaxJoins,       \* bound: calls of meshlink_join by a device
    MaxRestarts     \* bound: crashes

VARIABLES
    commitsFirst,   \* mesh->inviter_commits_first, the same on both sides
    inv,            \* Invitations -> its file as the inviter sees it
    synced,         \* Invitations -> its file as of the last sync
    expired,        \* the invitations older than mesh->invitation_timeout
    known,          \* names -> what mesh->nodes of the inviter says
    stored,         \* names -> the same of its host configuration files
    call,           \* Devices -> the meshlink_join under way, or Idle
    member,         \* Devices -> the names this device has in memory
    confs,          \* Devices -> the names in its configuration files
    result,         \* Devices -> what meshlink_join returned last
    uses,           \* Invitations -> how often its contents were sent
    joins,          \* Devices -> calls so far
    crashes         \* crashes so far

joinvars == <<commitsFirst, inv, synced, expired, known, stored, call, member,
              confs, result, uses, joins, crashes>>

InviteeNames == {NameOf[i] : i \in Invitations}

\* Stages of an invitation file: rename to the used name, then unlink.
Stage == [none |-> 0, fresh |-> 1, used |-> 2, gone |-> 3]

Unknown   == "unknown"
Blacklist == "blacklisted"

\* No meshlink_join is under way; with one, "at" is the record that is on its
\* way, or "closed".
Idle == [at |-> "idle"]

\* A device is none of the two other things a name can stand for.
ASSUME DevicesAssumption == Unknown \notin Devices /\ Blacklist \notin Devices

inviter == <<inv, synced, expired, known, stored>>
devices == <<call, member, confs, result, joins>>

-----------------------------------------------------------------------------
(* The inviter.                                                             *)

\* The outdated files go, and those for the name of a node.  Files that are in use
\* have another name, and nothing is synced.
invitation_purge_old(files) ==
    [i \in Invitations |-> IF i \in expired /\ files[i] = "fresh" THEN "gone" ELSE files[i]]

invitation_purge_node(files, n) ==
    [i \in Invitations |-> IF NameOf[i] = n /\ files[i] = "fresh" THEN "gone" ELSE files[i]]

refresh_invitation_key == invitation_purge_old(inv)

\* The directory is synced with the new file, and so are earlier deletions.
invitation_write(files, i) ==
    /\ inv' = [files EXCEPT ![i] = "fresh"]
    /\ synced' = inv'

\* meshlink_invite_ex.  If the file cannot be written there is no URL to join with.
Invite(i) ==
    /\ inv[i] = "none"
    /\ stored[NameOf[i]] = Unknown /\ known[NameOf[i]] = Unknown
    /\ invitation_write(refresh_invitation_key, i)
    /\ UNCHANGED <<commitsFirst, expired, known, stored, devices, uses, crashes>>

Expire(i) ==
    /\ inv[i] = "fresh" /\ i \notin expired
    /\ expired' = expired \cup {i}
    /\ UNCHANGED <<commitsFirst, inv, synced, known, stored, devices, uses, crashes>>

\* meshlink_blacklist_by_name: the node is made if need be, invitation_purge_node
\* removes the files with its name, and its configuration is written and synced.
BlacklistName(n) ==
    /\ known[n] # Blacklist
    /\ known' = [known EXCEPT ![n] = IF @ = Unknown THEN Blacklist ELSE @]
    /\ stored' = [stored EXCEPT ![n] = known'[n]]
    /\ inv' = invitation_purge_node(inv, n)
    /\ UNCHANGED <<commitsFirst, synced, expired, devices, uses, crashes>>

\* invitation_read: what it leaves behind, and whether it returns true.  The
\* deletion is synced before it does.
invitation_read_NoSync(i) ==
    [ok     |-> inv[i] = "fresh" /\ i \notin expired,
     inv    |-> [inv EXCEPT ![i] = IF @ = "fresh" THEN "gone" ELSE @],
     synced |-> synced]

invitation_read(i) ==
    LET ok    == inv[i] = "fresh" /\ i \notin expired
        files == [inv EXCEPT ![i] = IF @ = "fresh" THEN "gone" ELSE @]
    IN  [ok |-> ok, inv |-> files, synced |-> IF ok THEN files ELSE synced]

\* commit_invitation: whether the invitee is taken in, and then what is known.
MayCommit_Always(n) == TRUE
MayCommit(n) == known[n] = Unknown

Commit(d, n) ==
    /\ known' = [known EXCEPT ![n] = d]
    /\ stored' = [stored EXCEPT ![n] = d]

\* The order on the inviter's side when it commits first.
CommitsBeforeSending_No == FALSE
CommitsBeforeSending == commitsFirst

\* process_invitation on the cookie: the invitation is used up, the invitee is
\* taken in if the inviter commits first, and the contents are sent.  A handler
\* that returns false closes the connection.
process_invitation(d) ==
    LET i    == call[d].inv
        n    == NameOf[i]
        read == invitation_read(i)
        ok   == read.ok /\ (CommitsBeforeSending => MayCommit(n))
    IN  /\ call[d].at = "cookie"
        /\ inv' = read.inv /\ synced' = read.synced
        /\ IF ok /\ CommitsBeforeSending
           THEN Commit(d, n) ELSE UNCHANGED <<known, stored>>
        /\ call' = [call EXCEPT ![d].at = IF ok THEN "contents" ELSE "closed"]
        /\ uses' = [uses EXCEPT ![i] = IF ok THEN @ + 1 ELSE @]
        /\ UNCHANGED <<commitsFirst, expired, member, confs, result, joins, crashes>>

\* The key of the invitee, which has committed first.
CommitOnKey(d) ==
    LET n == NameOf[call[d].inv]
    IN  /\ call[d].at = "key"
        /\ IF ~commitsFirst /\ MayCommit(n)
           THEN /\ Commit(d, n)
                /\ call' = [call EXCEPT ![d].at = "done"]
           ELSE /\ UNCHANGED <<known, stored>>
                /\ call' = [call EXCEPT ![d].at = "closed"]
        /\ UNCHANGED <<commitsFirst, inv, synced, expired, member, confs, result, uses,
                       joins, crashes>>

\* The inviter fails to read or delete the invitation, to sync its directory, or
\* to write or sync the configuration of the invitee: the handler returns false.
StorageFails(d) ==
    LET i == call[d].inv
        n == NameOf[i]
        read == invitation_read(i)
        Committing == /\ MayCommit(n)
                      /\ UNCHANGED known
                      /\ stored' \in {stored, [stored EXCEPT ![n] = d]}
    IN  /\ \/ /\ call[d].at = "cookie" /\ inv[i] = "fresh"
              /\ \E left \in {"used", "gone"} : inv' = [inv EXCEPT ![i] = left]
              /\ UNCHANGED <<synced, known, stored>>
           \/ /\ call[d].at = "cookie" /\ read.ok /\ CommitsBeforeSending
              /\ inv' = read.inv /\ synced' = read.synced
              /\ Committing
           \/ /\ call[d].at = "key" /\ ~commitsFirst
              /\ UNCHANGED <<inv, synced>>
              /\ Committing
        /\ call' = [call EXCEPT ![d].at = "closed"]
        /\ UNCHANGED <<commitsFirst, expired, member, confs, result, uses, joins, crashes>>

\* The connections of the inviter are gone.
Cut == [d \in Devices |-> IF call[d] = Idle THEN Idle ELSE [call[d] EXCEPT !.at = "closed"]]

\* After a crash each invitation file is at some stage between its last sync
\* (sure) and what the program saw, and the nodes are those with a configuration.
Restart(sure, seen, files) ==
    /\ crashes < MaxRestarts
    /\ crashes' = crashes + 1
    /\ \E after \in [Invitations -> DOMAIN Stage] :
         /\ \A i \in Invitations : /\ Stage[sure[i]] <= Stage[after[i]]
                                   /\ Stage[after[i]] <= Stage[seen[i]]
         /\ inv' = after /\ synced' = after
    /\ known' = files /\ stored' = files
    /\ call' = Cut
    /\ UNCHANGED <<commitsFirst, expired, member, confs, result, uses, joins>>

InviterCrashes == Restart(synced, inv, stored)

\* The inviter crashes while it handles the cookie or the key of d.
CrashesHandling(d) ==
    LET i    == call[d].inv
        n    == NameOf[i]
        read == invitation_read(i)
        New  == [stored EXCEPT ![n] = d]
    IN  \/ call[d].at = "cookie" /\ Restart(synced, read.inv, stored)
        \/ /\ call[d].at = "cookie" /\ read.ok /\ CommitsBeforeSending /\ MayCommit(n)
           /\ Restart(read.synced, read.inv, New)
        \/ /\ call[d].at = "key" /\ ~commitsFirst /\ MayCommit(n)
           /\ Restart(synced, inv, New)

-----------------------------------------------------------------------------
(* A device.                                                                *)

\* meshlink_join is refused once another node is known.
MayJoin(d, i) == member[d] = {} /\ synced[i] # "none"

\* meshlink_join up to the cookie.
Join(d, i) ==
    /\ call[d] = Idle /\ joins[d] < MaxJoins
    /\ MayJoin(d, i)
    /\ call' = [call EXCEPT ![d] = [at |-> "cookie", inv |-> i]]
    /\ joins' = [joins EXCEPT ![d] = @ + 1]
    /\ result' = [result EXCEPT ![d] = "none"]
    /\ UNCHANGED <<commitsFirst, inviter, member, confs, uses, crashes>>

\* The success flag is set and the socket shut down; the call returns true unless
\* the read that ends its loop fails.
Success(d) ==
    /\ call' = [call EXCEPT ![d] = Idle]
    /\ \E r \in {"true", "false"} : result' = [result EXCEPT ![d] = r]

\* finalize_join on the contents: the configuration is written and synced, the
\* key is sent.  When the inviter has committed, that was the last step.
finalize_join(d) ==
    LET n == NameOf[call[d].inv]
    IN  /\ call[d].at = "contents"
        /\ member' = [member EXCEPT ![d] = {n}]
        /\ confs' = [confs EXCEPT ![d] = {n}]
        /\ IF commitsFirst
           THEN Success(d)
           ELSE /\ call' = [call EXCEPT ![d].at = "key"]
                /\ UNCHANGED result
        /\ UNCHANGED <<commitsFirst, inviter, uses, joins, crashes>>

\* It fails to write or to sync: the nodes added so far stay in memory, and their
\* files may be lost, since nothing was synced.
FinalizeFails(d) ==
    LET n == NameOf[call[d].inv]
    IN  /\ call[d].at = "contents"
        /\ \E added \in SUBSET {n} : \E written \in SUBSET added :
             /\ member' = [member EXCEPT ![d] = added]
             /\ confs' = [confs EXCEPT ![d] = written]
        /\ call' = [call EXCEPT ![d] = Idle]
        /\ result' = [result EXCEPT ![d] = "false"]
        /\ UNCHANGED <<commitsFirst, inviter, uses, joins, crashes>>

\* The record that says the inviter has committed.
Accepted(d) ==
    /\ call[d].at = "done"
    /\ Success(d)
    /\ UNCHANGED <<commitsFirst, inviter, member, confs, uses, joins, crashes>>

\* The connection breaks; what is on its way is lost.
Breaks(d) ==
    /\ call[d].at \notin {"idle", "closed"}
    /\ call' = [call EXCEPT ![d].at = "closed"]
    /\ UNCHANGED <<commitsFirst, inviter, member, confs, result, uses, joins, crashes>>

\* meshlink_join finds the connection closed.
Cancelled(d) ==
    /\ call[d].at = "closed"
    /\ call' = [call EXCEPT ![d] = Idle]
    /\ result' = [result EXCEPT ![d] = "false"]
    /\ UNCHANGED <<commitsFirst, inviter, member, confs, uses, joins, crashes>>

DeviceCrashes(d) ==
    /\ crashes < MaxRestarts
    /\ crashes' = crashes + 1
    /\ \E left \in SUBSET InviteeNames :
         /\ left = confs[d] \/ (call[d].at = "contents" /\ left = {NameOf[call[d].inv]})
         /\ member' = [member EXCEPT ![d] = left]
         /\ confs' = [confs EXCEPT ![d] = left]
    /\ call' = [call EXCEPT ![d] = Idle]
    /\ UNCHANGED <<commitsFirst, inviter, result, uses, joins>>

-----------------------------------------------------------------------------
InvitationInit ==
    /\ commitsFirst \in BOOLEAN
    /\ inv = [i \in Invitations |-> "none"]
    /\ synced = inv
    /\ expired = {}
    /\ known = [n \in InviteeNames |-> Unknown]
    /\ stored = known
    /\ call = [d \in Devices |-> Idle]
    /\ member = [d \in Devices |-> {}]
    /\ confs = member
    /\ result = [d \in Devices |-> "none"]
    /\ uses = [i \in Invitations |-> 0]
    /\ joins = [d \in Devices |-> 0]
    /\ crashes = 0

InvitationNext ==
    \/ \E i \in Invitations : Invite(i) \/ Expire(i)
    \/ \E n \in InviteeNames : BlacklistName(n)
    \/ InviterCrashes
    \/ \E d \in Devices :
         \/ \E i \in Invitations : Join(d, i)
         \/ process_invitation(d) \/ CommitOnKey(d) \/ StorageFails(d) \/ CrashesHandling(d)
         \/ finalize_join(d) \/ FinalizeFails(d) \/ Accepted(d)
         \/ Breaks(d) \/ Cancelled(d) \/ DeviceCrashes(d)

InvitationSpec == InvitationInit /\ [][InvitationNext]_joinvars

-----------------------------------------------------------------------------
\* An invitation is good for one use: its contents are sent at most once, even
\* if two devices have the URL and the inviter crashes at any point
\* (invitation_read renames the file, deletes it and syncs the directory before
\* anything is sent).
OneUse == \A i \in Invitations : uses[i] <= 1

\* When meshlink_join has returned true, the inviter has the invitee's key under
\* that name, in its configuration files as well, so that neither a crash nor
\* another invitation for the same name can undo it.
JoinedIsKnown ==
    \A d \in Devices : result[d] = "true" =>
        /\ member[d] # {}
        /\ \A n \in member[d] : stored[n] = d /\ known[n] = d

\* No two devices have the configuration of the same name, if the inviter
\* commits first.  (Otherwise the second of two invitations with one name is
\* refused only after its device has stored what it was sent.)
OneIdentity ==
    commitsFirst => \A d, e \in Devices : d # e => confs[d] \cap confs[e] = {}
-----------------------------------------------------------------------------
(* What makes these invariants inductive (module StorageProofs).            *)

Ats == {"cookie", "contents", "key", "done", "closed"}

\* The contents of the variables.
InvitationTypes ==
    /\ inv \in [Invitations -> DOMAIN Stage] /\ synced \in [Invitations -> DOMAIN Stage]
    /\ uses \in [Invitations -> Nat]
    /\ known \in [InviteeNames -> Devices \cup {Unknown, Blacklist}]
    /\ stored \in [InviteeNames -> Devices \cup {Unknown, Blacklist}]
    /\ call \in [Devices -> {Idle} \cup [at : Ats, inv : Invitations]]
    /\ member \in [Devices -> SUBSET InviteeNames] /\ confs \in [Devices -> SUBSET InviteeNames]
    /\ result \in [Devices -> {"none", "true", "false"}]

\* An invitation whose contents were sent is gone, and its deletion is synced.
UsedUp ==
    \A i \in Invitations :
        uses[i] = 0 \/ (uses[i] = 1 /\ inv[i] = "gone" /\ synced[i] = "gone")

\* An invitee the inviter knows is in its configuration files too.
KnownStored == \A n \in InviteeNames : known[n] \in Devices => stored[n] = known[n]

\* How far the two sides are with the invitee d.
Agreed(d) ==
    /\ commitsFirst => \A n \in confs[d] : known[n] = d
    /\ (commitsFirst /\ call[d].at = "contents") => known[NameOf[call[d].inv]] = d
    /\ call[d].at \in {"key", "done"} =>
         ~commitsFirst /\ member[d] = {NameOf[call[d].inv]} /\ confs[d] = member[d]
    /\ call[d].at = "done" => known[NameOf[call[d].inv]] = d
    /\ result[d] = "true" =>
         /\ call[d] = Idle /\ member[d] # {} /\ confs[d] = member[d]
         /\ \A n \in member[d] : known[n] = d

InvitationInv == InvitationTypes /\ UsedUp /\ KnownStored /\ \A d \in Devices : Agreed(d)
=============================================================================
