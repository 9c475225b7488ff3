---------------------------- MODULE StorageProofs ---------------------------
(***************************************************************************)
(* Proofs about invitations (Invitation), for any invitations, names,      *)
(* devices and bounds, and about what a node remembers of a peer           *)
(* (NodeConfig), for any addresses, device classes and bounds.             *)
(*                                                                         *)
(* An invitation is used at most once, an invitee that joined stays known  *)
(* to the inviter, and no name is given twice when the inviter commits     *)
(* first: the argument is InvitationInv, with one lemma for each step of   *)
(* the two sides. A host configuration file reads back as it was written,  *)
(* and each call marks what it changes, keeps the change in the history or *)
(* writes it: this is NodeInv, from which NodeRemembered follows.          *)
(***************************************************************************)
EXTENDS Invitation, NodeConfig, TLAPS

\* The provers get 30 seconds for a leaf, however busy the machine is.
USE SMTT(30), ZenonT(30)

-----------------------------------------------------------------------------
(* Invitations.                                                             *)

\* The inviter forgets no invitee that it knows.
Kept == \A n \in InviteeNames : known[n] \in Devices => known'[n] = known[n]

\* A meshlink_join under way has an invitation and with it a name.
LEMMA CallTypes ==
    ASSUME InvitationTypes, NEW d \in Devices
    PROVE  /\ call[d] = Idle \/ call[d] \in [at : Ats, inv : Invitations]
           /\ call[d].at # "idle" => /\ call[d] \in [at : Ats, inv : Invitations]
                                     /\ call[d].inv \in Invitations
                                     /\ NameOf[call[d].inv] \in InviteeNames
           /\ call[d].at = "idle" => call[d] = Idle
BY DEF InvitationTypes, Idle, Ats, InviteeNames

\* The invariant holds when no invitation was made.
LEMMA InvitationInvInit == InvitationInit => InvitationInv
<1> SUFFICES ASSUME InvitationInit PROVE InvitationInv
  BY Zenon
<1>1. InvitationTypes
  BY Zenon DEF InvitationInit, InvitationTypes, Stage, Unknown, Idle
<1>2. UsedUp /\ KnownStored
  BY DevicesAssumption, Zenon DEF Blacklist, InvitationInit, UsedUp, KnownStored, Unknown
<1>3. ASSUME NEW d \in Devices PROVE Agreed(d)
  BY Zenon DEF InvitationInit, Agreed, Idle
<1> QED
  BY <1>1, <1>2, <1>3, Zenon DEF InvitationInv

\* What the two sides agree on survives a step of the inviter, or of another device,
\* that forgets nobody.
LEMMA AgreedKept ==
    ASSUME InvitationTypes, NEW d \in Devices, Agreed(d), Kept, UNCHANGED commitsFirst,
           call'[d] = call[d], member'[d] = member[d], confs'[d] = confs[d], result'[d] = result[d]
    PROVE  Agreed(d)'
<1>1. \A n \in InviteeNames : known[n] = d => known'[n] = d
  BY Zenon DEF Kept
<1>2. member[d] \subseteq InviteeNames /\ confs[d] \subseteq InviteeNames
  BY Zenon DEF InvitationTypes
<1>3. call[d].at # "idle" => NameOf[call[d].inv] \in InviteeNames
  BY CallTypes, Zenon
<1> QED
  BY <1>1, <1>2, <1>3, Zenon DEF Agreed

\* The same when the connection with the invitee is closed by the step.
LEMMA AgreedClosed ==
    ASSUME InvitationTypes, NEW d \in Devices, Agreed(d), Kept, UNCHANGED commitsFirst,
           call[d].at # "idle", call'[d].at = "closed",
           member'[d] = member[d], confs'[d] = confs[d], result'[d] = result[d]
    PROVE  Agreed(d)'
<1>1. \A n \in InviteeNames : known[n] = d => known'[n] = d
  BY Zenon DEF Kept
<1>2. confs[d] \subseteq InviteeNames
  BY Zenon DEF InvitationTypes
<1>3. result[d] # "true"
  BY DEF Agreed, Idle
<1> QED
  BY <1>1, <1>2, <1>3, Zenon DEF Agreed

\* meshlink_invite_ex makes a file for a new invitation only, and purging leaves
\* used ones gone.
LEMMA Invite_Keeps ==
    ASSUME InvitationInv, NEW i \in Invitations, Invite(i)
    PROVE  InvitationInv'
<1> USE DEF InvitationInv
<1>1. inv[i] = "none" /\ uses[i] = 0
  BY Zenon DEF Invite, UsedUp
<1>2. /\ inv' \in [Invitations -> DOMAIN Stage]
      /\ inv'[i] = "fresh"
      /\ \A j \in Invitations : inv[j] = "gone" => inv'[j] = "gone"
  BY <1>1, Zenon
     DEF Invite, invitation_write, refresh_invitation_key, invitation_purge_old, InvitationTypes,
         Stage
<1>3. InvitationTypes'
  BY <1>2, Zenon DEF Invite, invitation_write, InvitationTypes, devices
<1>4. UsedUp'
  BY <1>1, <1>2, Zenon DEF Invite, invitation_write, UsedUp
<1>5. KnownStored'
  BY Zenon DEF Invite, KnownStored
<1>6. ASSUME NEW d \in Devices PROVE Agreed(d)'
  BY AgreedKept, Zenon DEF Invite, devices, Kept
<1> QED
  BY <1>3, <1>4, <1>5, <1>6, Zenon

\* meshlink_blacklist_by_name makes a node only for a name that nobody has.
LEMMA BlacklistName_Keeps ==
    ASSUME InvitationInv, NEW n \in InviteeNames, BlacklistName(n)
    PROVE  InvitationInv'
<1> USE DEF InvitationInv
<1>1. /\ inv' \in [Invitations -> DOMAIN Stage]
      /\ \A j \in Invitations : inv[j] = "gone" => inv'[j] = "gone"
  BY Zenon DEF BlacklistName, invitation_purge_node, InvitationTypes, Stage
<1>2. /\ known' \in [InviteeNames -> Devices \cup {Unknown, Blacklist}]
      /\ stored' \in [InviteeNames -> Devices \cup {Unknown, Blacklist}]
  BY Zenon DEF BlacklistName, InvitationTypes
<1>3. InvitationTypes'
  BY <1>1, <1>2, Zenon DEF BlacklistName, InvitationTypes, devices
<1>4. UsedUp'
  BY <1>1, Zenon DEF BlacklistName, UsedUp
<1>5. Kept
  BY DevicesAssumption, Zenon DEF Blacklist, BlacklistName, Kept, InvitationTypes, Unknown
<1>6. KnownStored'
  BY DevicesAssumption, Zenon DEF Blacklist, BlacklistName, KnownStored, InvitationTypes, Unknown
<1>7. ASSUME NEW d \in Devices PROVE Agreed(d)'
  BY <1>5, AgreedKept, Zenon DEF BlacklistName, devices
<1> QED
  BY <1>3, <1>4, <1>6, <1>7, Zenon

\* invitation_read leaves the file of a used invitation gone, and its deletion
\* synced.
LEMMA ReadUsesUp ==
    ASSUME InvitationTypes, NEW i \in Invitations
    PROVE  LET read == invitation_read(i)
           IN  /\ read.inv \in [Invitations -> DOMAIN Stage]
               /\ read.synced \in [Invitations -> DOMAIN Stage]
               /\ read.ok => inv[i] = "fresh" /\ read.inv[i] = "gone" /\ read.synced = read.inv
               /\ ~read.ok => read.synced = synced
               /\ \A j \in Invitations : inv[j] = "gone" => read.inv[j] = "gone"
               /\ read.ok \in BOOLEAN
<1> DEFINE files == [inv EXCEPT ![i] = IF @ = "fresh" THEN "gone" ELSE @]
<1>1. files \in [Invitations -> DOMAIN Stage]
  BY Zenon DEF InvitationTypes, Stage
<1>2. /\ inv[i] = "fresh" => files[i] = "gone"
      /\ \A j \in Invitations : inv[j] = "gone" => files[j] = "gone"
  BY Zenon DEF InvitationTypes
<1> QED
  BY <1>1, <1>2, Zenon DEF invitation_read, InvitationTypes

\* commit_invitation takes in an invitee under a name that nobody has, in memory and
\* on disk.
LEMMA CommitKeeps ==
    ASSUME InvitationTypes, KnownStored, NEW d \in Devices, NEW n \in InviteeNames,
           Commit(d, n), MayCommit(n)
    PROVE  /\ known' \in [InviteeNames -> Devices \cup {Unknown, Blacklist}]
           /\ stored' \in [InviteeNames -> Devices \cup {Unknown, Blacklist}]
           /\ known'[n] = d
           /\ Kept /\ KnownStored'
BY DevicesAssumption, Zenon DEF Blacklist, InvitationTypes, KnownStored, Commit, MayCommit, Kept, Unknown

\* process_invitation sends the contents of an invitation whose deletion it has
\* synced.
LEMMA process_invitation_Keeps ==
    ASSUME InvitationInv, NEW d \in Devices, process_invitation(d)
    PROVE  InvitationInv'
<1> USE DEF InvitationInv
<1> DEFINE i == call[d].inv
           n == NameOf[i]
           read == invitation_read(i)
           ok == read.ok /\ (CommitsBeforeSending => MayCommit(n))
<1>1. /\ call[d] \in [at : Ats, inv : Invitations] /\ i \in Invitations /\ n \in InviteeNames
      /\ call[d].at = "cookie"
  BY CallTypes, Zenon DEF process_invitation
<1>2. /\ inv' = read.inv /\ synced' = read.synced
      /\ IF ok /\ CommitsBeforeSending THEN Commit(d, n) ELSE UNCHANGED <<known, stored>>
      /\ call' = [call EXCEPT ![d].at = IF ok THEN "contents" ELSE "closed"]
      /\ uses' = [uses EXCEPT ![i] = IF ok THEN @ + 1 ELSE @]
      /\ UNCHANGED <<commitsFirst, expired, member, confs, result, joins, crashes>>
  BY Zenon DEF process_invitation
<1> HIDE DEF read
<1>3. /\ inv' \in [Invitations -> DOMAIN Stage]
      /\ synced' \in [Invitations -> DOMAIN Stage]
      /\ read.ok => inv[i] = "fresh" /\ inv'[i] = "gone" /\ synced'[i] = "gone" /\ synced' = inv'
      /\ ~read.ok => synced' = synced
      /\ \A j \in Invitations : inv[j] = "gone" => inv'[j] = "gone"
  BY <1>1, <1>2, ReadUsesUp DEF read
<1>4. /\ known' \in [InviteeNames -> Devices \cup {Unknown, Blacklist}]
      /\ stored' \in [InviteeNames -> Devices \cup {Unknown, Blacklist}]
      /\ Kept /\ KnownStored'
      /\ ok /\ commitsFirst => known'[n] = d
  <2>1. CASE ok /\ CommitsBeforeSending
    BY <1>1, <1>2, <2>1, CommitKeeps, Zenon DEF CommitsBeforeSending
  <2>2. CASE ~(ok /\ CommitsBeforeSending)
    BY <1>2, <2>2, Zenon DEF InvitationTypes, Kept, KnownStored, CommitsBeforeSending
  <2> QED
    BY <2>1, <2>2, Zenon
<1>5. /\ call' \in [Devices -> {Idle} \cup [at : Ats, inv : Invitations]]
      /\ call'[d].inv = i
      /\ call'[d].at = IF ok THEN "contents" ELSE "closed"
      /\ \A e \in Devices \ {d} : call'[e] = call[e]
  BY <1>1, <1>2, Zenon DEF InvitationTypes, Ats
<1>6. /\ uses' \in [Invitations -> Nat]
      /\ uses'[i] = IF ok THEN uses[i] + 1 ELSE uses[i]
      /\ \A j \in Invitations \ {i} : uses'[j] = uses[j]
  BY <1>1, <1>2 DEF InvitationTypes
<1>7. InvitationTypes'
  BY <1>2, <1>3, <1>4, <1>5, <1>6, Zenon DEF InvitationTypes
<1>8. UsedUp'
  <2> SUFFICES ASSUME NEW j \in Invitations
               PROVE  uses'[j] = 0 \/ (uses'[j] = 1 /\ inv'[j] = "gone" /\ synced'[j] = "gone")
    BY Zenon DEF UsedUp
  <2>1. CASE j = i
    BY <1>3, <1>6, <2>1 DEF UsedUp
  <2>2. CASE j # i
    BY <1>3, <1>6, <2>2 DEF UsedUp
  <2> QED
    BY <2>1, <2>2, Zenon
<1>9. ASSUME NEW e \in Devices PROVE Agreed(e)'
  <2>1. CASE e # d
    BY <1>2, <1>4, <1>5, <2>1, AgreedKept, Zenon
  <2>2. CASE e = d /\ ~ok
    BY <1>1, <1>2, <1>4, <1>5, <2>2, AgreedClosed, Zenon
  <2>3. CASE e = d /\ ok
    <3>1. confs[d] \subseteq InviteeNames /\ \A m \in InviteeNames : known[m] = d => known'[m] = d
      BY <1>4, Zenon DEF InvitationTypes, Kept
    <3>2. result'[d] # "true"
      BY <1>1, <1>2 DEF Agreed, Idle
    <3> QED
      BY <1>1, <1>2, <1>4, <1>5, <2>3, <3>1, <3>2 DEF Agreed
  <2> QED
    BY <2>1, <2>2, <2>3, Zenon
<1> QED
  BY <1>4, <1>7, <1>8, <1>9, Zenon

\* The inviter commits on the key of an invitee that has stored its configuration.
LEMMA CommitOnKey_Keeps ==
    ASSUME InvitationInv, NEW d \in Devices, CommitOnKey(d)
    PROVE  InvitationInv'
<1> USE DEF InvitationInv
<1> DEFINE n == NameOf[call[d].inv]
<1>1. /\ call[d] \in [at : Ats, inv : Invitations] /\ n \in InviteeNames
      /\ call[d].at = "key" /\ ~commitsFirst /\ member[d] = {n} /\ confs[d] = {n}
  BY CallTypes, Zenon DEF CommitOnKey, Agreed
<1>2. UNCHANGED <<commitsFirst, inv, synced, member, confs, result, uses>>
  BY Zenon DEF CommitOnKey
<1>3. /\ known' \in [InviteeNames -> Devices \cup {Unknown, Blacklist}]
      /\ stored' \in [InviteeNames -> Devices \cup {Unknown, Blacklist}]
      /\ Kept /\ KnownStored'
      /\ call'[d].at = "done" => known'[n] = d
  <2>1. CASE MayCommit(n)
    BY <1>1, <2>1, CommitKeeps, Zenon DEF CommitOnKey
  <2>2. CASE ~MayCommit(n)
    BY <1>1, <2>2 DEF CommitOnKey, InvitationTypes, Kept, KnownStored
  <2> QED
    BY <2>1, <2>2, Zenon
<1>4. /\ call' \in [Devices -> {Idle} \cup [at : Ats, inv : Invitations]]
      /\ call'[d].inv = call[d].inv /\ call'[d].at \in {"done", "closed"}
      /\ \A e \in Devices \ {d} : call'[e] = call[e]
  BY <1>1 DEF CommitOnKey, InvitationTypes, Ats
<1>5. InvitationTypes'
  BY <1>2, <1>3, <1>4, Zenon DEF InvitationTypes
<1>6. UsedUp'
  BY <1>2, Zenon DEF UsedUp
<1>7. ASSUME NEW e \in Devices PROVE Agreed(e)'
  <2>1. CASE e # d
    BY <1>2, <1>3, <1>4, <2>1, AgreedKept, Zenon
  <2>2. CASE e = d /\ call'[d].at = "closed"
    BY <1>1, <1>2, <1>3, <1>4, <2>2, AgreedClosed, Zenon
  <2>3. CASE e = d /\ call'[d].at = "done"
    <3>1. result'[d] # "true"
      BY <1>1, <1>2 DEF Agreed, Idle
    <3> QED
      BY <1>1, <1>2, <1>3, <1>4, <2>3, <3>1, Zenon DEF Agreed
  <2> QED
    BY <1>4, <2>1, <2>2, <2>3, Zenon
<1> QED
  BY <1>3, <1>5, <1>6, <1>7, Zenon

\* A storage error on the inviter closes the connection and brings no invitation
\* back.
LEMMA StorageFails_Keeps ==
    ASSUME InvitationInv, NEW d \in Devices, StorageFails(d)
    PROVE  InvitationInv'
<1> USE DEF InvitationInv
<1> DEFINE i == call[d].inv
           n == NameOf[i]
           read == invitation_read(i)
<1>1. /\ call[d] \in [at : Ats, inv : Invitations] /\ i \in Invitations /\ n \in InviteeNames
      /\ call[d].at # "idle"
  BY CallTypes, Zenon DEF StorageFails
<1>2. /\ UNCHANGED <<commitsFirst, known, member, confs, result, uses>>
      /\ call' = [call EXCEPT ![d].at = "closed"]
  BY Zenon DEF StorageFails
<1>3. /\ inv' \in [Invitations -> DOMAIN Stage]
      /\ synced' \in [Invitations -> DOMAIN Stage]
      /\ \A j \in Invitations : uses[j] = 1 => inv'[j] = "gone" /\ synced'[j] = "gone"
  <2>1. CASE call[d].at = "cookie" /\ inv' = read.inv /\ synced' = read.synced
    BY <1>1, <2>1, ReadUsesUp DEF UsedUp
  <2>2. CASE /\ inv[i] = "fresh" /\ UNCHANGED synced
             /\ \E left \in {"used", "gone"} : inv' = [inv EXCEPT ![i] = left]
    BY <1>1, <2>2 DEF UsedUp, InvitationTypes, Stage
  <2>3. CASE UNCHANGED <<inv, synced>>
    BY <2>3 DEF UsedUp, InvitationTypes
  <2> QED
    BY <2>1, <2>2, <2>3, Zenon DEF StorageFails
<1>4. /\ stored' \in [InviteeNames -> Devices \cup {Unknown, Blacklist}]
      /\ \A m \in InviteeNames : known[m] \in Devices => stored'[m] = stored[m]
  <2>1. stored' = stored \/ (MayCommit(n) /\ stored' = [stored EXCEPT ![n] = d])
    BY Zenon DEF StorageFails
  <2> QED
    BY <1>1, <2>1, DevicesAssumption DEF Blacklist, MayCommit, InvitationTypes, Unknown
<1>5. /\ call' \in [Devices -> {Idle} \cup [at : Ats, inv : Invitations]]
      /\ call'[d].at = "closed"
      /\ \A e \in Devices \ {d} : call'[e] = call[e]
  BY <1>1, <1>2, Zenon DEF InvitationTypes, Ats
<1>6. InvitationTypes'
  BY <1>2, <1>3, <1>4, <1>5, Zenon DEF InvitationTypes
<1>7. UsedUp' /\ KnownStored' /\ Kept
  BY <1>2, <1>3, <1>4, Zenon DEF UsedUp, KnownStored, Kept
<1>8. ASSUME NEW e \in Devices PROVE Agreed(e)'
  BY <1>1, <1>2, <1>5, <1>7, AgreedKept, AgreedClosed, Zenon
<1> QED
  BY <1>6, <1>7, <1>8, Zenon

\* A crash of the inviter: what is sure to be on disk keeps used invitations gone
\* and the invitees known.
LEMMA Restart_Keeps ==
    ASSUME InvitationInv,
           NEW sure \in [Invitations -> DOMAIN Stage], NEW seen \in [Invitations -> DOMAIN Stage],
           NEW files \in [InviteeNames -> Devices \cup {Unknown, Blacklist}],
           \A i \in Invitations : uses[i] = 1 => sure[i] = "gone",
           \A n \in InviteeNames : known[n] \in Devices => files[n] = known[n],
           Restart(sure, seen, files)
    PROVE  InvitationInv'
<1> USE DEF InvitationInv
<1>1. UNCHANGED <<commitsFirst, member, confs, result, uses>> /\ known' = files /\ stored' = files
  BY Zenon DEF Restart
<1>2. /\ inv' \in [Invitations -> DOMAIN Stage] /\ synced' = inv'
      /\ \A i \in Invitations : sure[i] = "gone" => inv'[i] = "gone"
  BY DEF Restart, Stage
<1>3. /\ call' \in [Devices -> {Idle} \cup [at : Ats, inv : Invitations]]
      /\ \A d \in Devices : \/ call'[d] = call[d]
                            \/ call[d].at # "idle" /\ call'[d].at = "closed"
  <2>1. call' = Cut
    BY Zenon DEF Restart
  <2>2. ASSUME NEW d \in Devices
        PROVE  /\ call'[d] \in {Idle} \cup [at : Ats, inv : Invitations]
               /\ \/ call'[d] = call[d]
                  \/ call[d].at # "idle" /\ call'[d].at = "closed"
    <3>1. CASE call[d] = Idle
      BY <2>1, <3>1, Zenon DEF Cut
    <3>2. CASE call[d] # Idle
      <4>1. call[d] \in [at : Ats, inv : Invitations] /\ call[d].at # "idle"
        BY <3>2, CallTypes, Zenon
      <4>2. call'[d] = [call[d] EXCEPT !.at = "closed"]
        BY <2>1, <3>2, Zenon DEF Cut
      <4> QED
        BY <4>1, <4>2, Zenon DEF Ats
    <3> QED
      BY <3>1, <3>2, Zenon
  <2> QED
    BY <2>1, <2>2, Zenon DEF Cut
<1>4. InvitationTypes'
  BY <1>1, <1>2, <1>3, Zenon DEF InvitationTypes
<1>5. UsedUp' /\ KnownStored' /\ Kept
  BY <1>1, <1>2, Zenon DEF UsedUp, KnownStored, Kept
<1>6. ASSUME NEW d \in Devices PROVE Agreed(d)'
  BY <1>1, <1>3, <1>5, AgreedKept, AgreedClosed, Zenon
<1> QED
  BY <1>4, <1>5, <1>6, Zenon

\* The inviter crashes between two handlers.
LEMMA InviterCrashes_Keeps == InvitationInv /\ InviterCrashes => InvitationInv'
<1> SUFFICES ASSUME InvitationInv, InviterCrashes PROVE InvitationInv'
  BY Zenon
<1> QED
  BY Restart_Keeps DEF InviterCrashes, InvitationInv, InvitationTypes, UsedUp, KnownStored

\* The inviter crashes inside process_invitation: the configuration of the invitee
\* is written for a free name only.
LEMMA CrashesHandling_Keeps ==
    ASSUME InvitationInv, NEW d \in Devices, CrashesHandling(d)
    PROVE  InvitationInv'
<1> USE DEF InvitationInv
<1> DEFINE i == call[d].inv
           n == NameOf[i]
           read == invitation_read(i)
           New == [stored EXCEPT ![n] = d]
<1>1. i \in Invitations /\ n \in InviteeNames
  BY CallTypes, Zenon DEF CrashesHandling
<1>2. /\ inv \in [Invitations -> DOMAIN Stage] /\ synced \in [Invitations -> DOMAIN Stage]
      /\ read.inv \in [Invitations -> DOMAIN Stage]
      /\ read.synced \in [Invitations -> DOMAIN Stage]
      /\ stored \in [InviteeNames -> Devices \cup {Unknown, Blacklist}]
      /\ New \in [InviteeNames -> Devices \cup {Unknown, Blacklist}]
  BY <1>1, ReadUsesUp, Zenon DEF InvitationTypes
<1>3. \A j \in Invitations : uses[j] = 1 => synced[j] = "gone" /\ read.synced[j] = "gone"
  BY <1>1, ReadUsesUp DEF UsedUp
<1>4. /\ \A m \in InviteeNames : known[m] \in Devices => stored[m] = known[m]
      /\ MayCommit(n) => \A m \in InviteeNames : known[m] \in Devices => New[m] = known[m]
  BY <1>1, DevicesAssumption DEF Blacklist, KnownStored, MayCommit, Unknown, InvitationTypes
<1>5. CASE Restart(synced, read.inv, stored)
  <2> HIDE DEF read
  <2> QED
    BY <1>2, <1>3, <1>4, <1>5, Restart_Keeps
<1>6. CASE MayCommit(n) /\ Restart(read.synced, read.inv, New)
  <2> HIDE DEF read, New
  <2> QED
    BY <1>2, <1>3, <1>4, <1>6, Restart_Keeps, Zenon
<1>7. CASE MayCommit(n) /\ Restart(synced, inv, New)
  <2> HIDE DEF read, New
  <2> QED
    BY <1>2, <1>3, <1>4, <1>7, Restart_Keeps, Zenon
<1> QED
  BY <1>5, <1>6, <1>7, Zenon DEF CrashesHandling

\* The steps of an invitee change nothing on the side of the inviter.
LEMMA DeviceKeeps ==
    ASSUME InvitationInv, NEW d \in Devices,
           UNCHANGED <<commitsFirst, inv, synced, known, stored, uses>>,
           call' \in [Devices -> {Idle} \cup [at : Ats, inv : Invitations]],
           member' \in [Devices -> SUBSET InviteeNames], confs' \in [Devices -> SUBSET InviteeNames],
           result' \in [Devices -> {"none", "true", "false"}],
           \A e \in Devices \ {d} : /\ call'[e] = call[e] /\ member'[e] = member[e]
                                    /\ confs'[e] = confs[e] /\ result'[e] = result[e],
           Agreed(d)'
    PROVE  InvitationInv'
<1> USE DEF InvitationInv
<1>1. InvitationTypes'
  BY Zenon DEF InvitationTypes
<1>2. UsedUp' /\ KnownStored' /\ Kept
  BY Zenon DEF UsedUp, KnownStored, Kept
<1>3. ASSUME NEW e \in Devices PROVE Agreed(e)'
  BY <1>2, AgreedKept, Zenon
<1> QED
  BY <1>1, <1>2, <1>3, Zenon

\* meshlink_join starts.
LEMMA Join_Keeps ==
    ASSUME InvitationInv, NEW d \in Devices, NEW i \in Invitations, Join(d, i)
    PROVE  InvitationInv'
<1> USE DEF InvitationInv
<1>1. /\ call' = [call EXCEPT ![d] = [at |-> "cookie", inv |-> i]]
      /\ result' = [result EXCEPT ![d] = "none"]
      /\ UNCHANGED <<commitsFirst, inv, synced, known, stored, member, confs, uses>>
  BY Zenon DEF Join, inviter
<1>2. Agreed(d)'
  BY <1>1 DEF Agreed, InvitationTypes
<1> QED
  BY <1>1, <1>2, DeviceKeeps, Zenon DEF InvitationTypes, Ats

\* finalize_join stores the configuration; the call may succeed at once only if the
\* inviter has committed.
LEMMA finalize_join_Keeps ==
    ASSUME InvitationInv, NEW d \in Devices, finalize_join(d)
    PROVE  InvitationInv'
<1> USE DEF InvitationInv
<1> DEFINE n == NameOf[call[d].inv]
<1>1. /\ call[d] \in [at : Ats, inv : Invitations] /\ n \in InviteeNames
      /\ call[d].at = "contents" /\ result[d] # "true"
  BY CallTypes DEF finalize_join, Agreed, Idle
<1>2. /\ member' = [member EXCEPT ![d] = {n}] /\ confs' = [confs EXCEPT ![d] = {n}]
      /\ UNCHANGED <<commitsFirst, inv, synced, known, stored, uses>>
  BY Zenon DEF finalize_join, inviter
<1>3. member'[d] = {n} /\ confs'[d] = {n}
  BY <1>2, Zenon DEF InvitationTypes
<1>4. CASE commitsFirst
  <2>1. /\ call' = [call EXCEPT ![d] = Idle]
        /\ \E r \in {"true", "false"} : result' = [result EXCEPT ![d] = r]
        /\ known[n] = d
    BY <1>1, <1>4 DEF finalize_join, Success, Agreed
  <2>2. Agreed(d)'
    BY <1>2, <1>3, <2>1 DEF Agreed, InvitationTypes, Idle
  <2> QED
    BY <1>1, <1>2, <2>1, <2>2, DeviceKeeps DEF InvitationTypes
<1>5. CASE ~commitsFirst
  <2>1. call' = [call EXCEPT ![d].at = "key"] /\ UNCHANGED result
    BY <1>5, Zenon DEF finalize_join
  <2>2. call'[d].at = "key" /\ call'[d].inv = call[d].inv
    BY <1>1, <2>1, Zenon DEF InvitationTypes
  <2>3. Agreed(d)'
    BY <1>1, <1>2, <1>3, <1>5, <2>1, <2>2, Zenon DEF Agreed
  <2> QED
    BY <1>1, <1>2, <2>1, <2>3, DeviceKeeps DEF InvitationTypes, Ats
<1> QED
  BY <1>4, <1>5, Zenon

\* finalize_join fails, with or without something written.
LEMMA FinalizeFails_Keeps ==
    ASSUME InvitationInv, NEW d \in Devices, FinalizeFails(d)
    PROVE  InvitationInv'
<1> USE DEF InvitationInv
<1> DEFINE n == NameOf[call[d].inv]
<1>1. n \in InviteeNames /\ call[d].at = "contents"
  BY CallTypes, Zenon DEF FinalizeFails
<1>2. /\ call' = [call EXCEPT ![d] = Idle]
      /\ result' = [result EXCEPT ![d] = "false"]
      /\ UNCHANGED <<commitsFirst, inv, synced, known, stored, uses>>
  BY Zenon DEF FinalizeFails, inviter
<1>3. PICK added \in SUBSET {n} : \E written \in SUBSET added :
             /\ member' = [member EXCEPT ![d] = added]
             /\ confs' = [confs EXCEPT ![d] = written]
  BY Zenon DEF FinalizeFails
<1>4. confs'[d] \subseteq {n}
  BY <1>3, Zenon DEF InvitationTypes
<1>5. Agreed(d)'
  BY <1>1, <1>2, <1>4 DEF Agreed, InvitationTypes, Idle
<1>6. /\ member' \in [Devices -> SUBSET InviteeNames] /\ confs' \in [Devices -> SUBSET InviteeNames]
      /\ \A e \in Devices \ {d} : member'[e] = member[e] /\ confs'[e] = confs[e]
  BY <1>1, <1>3 DEF InvitationTypes
<1> QED
  BY <1>2, <1>5, <1>6, DeviceKeeps, Zenon DEF InvitationTypes

\* The invitee is told that the inviter has committed.
LEMMA Accepted_Keeps ==
    ASSUME InvitationInv, NEW d \in Devices, Accepted(d)
    PROVE  InvitationInv'
<1> USE DEF InvitationInv
<1>1. /\ call[d].at = "done" /\ ~commitsFirst /\ confs[d] = member[d]
      /\ member[d] = {NameOf[call[d].inv]} /\ known[NameOf[call[d].inv]] = d
  BY Zenon DEF Accepted, Agreed
<1>2. /\ call' = [call EXCEPT ![d] = Idle]
      /\ \E r \in {"true", "false"} : result' = [result EXCEPT ![d] = r]
      /\ UNCHANGED <<commitsFirst, inv, synced, known, stored, member, confs, uses>>
  BY Zenon DEF Accepted, Success, inviter
<1>3. Agreed(d)'
  <2>1. call'[d] = Idle
    BY <1>2, Zenon DEF InvitationTypes
  <2> QED
    BY <1>1, <1>2, <2>1 DEF Agreed, Idle
<1> QED
  BY <1>2, <1>3, DeviceKeeps DEF InvitationTypes

\* The connection breaks, or meshlink_join finds that it did.
LEMMA Ends_Keeps ==
    ASSUME InvitationInv, NEW d \in Devices, Breaks(d) \/ Cancelled(d)
    PROVE  InvitationInv'
<1> USE DEF InvitationInv
<1>1. CASE Breaks(d)
  <2>1. /\ call[d] \in [at : Ats, inv : Invitations] /\ call[d].at # "idle"
        /\ call' = [call EXCEPT ![d].at = "closed"]
        /\ UNCHANGED <<commitsFirst, inv, synced, known, stored, member, confs, result, uses>>
    BY <1>1, CallTypes, Zenon DEF Breaks, inviter
  <2>2. Agreed(d)'
    BY <2>1, AgreedClosed, Zenon DEF InvitationTypes, Kept
  <2> QED
    BY <2>1, <2>2, DeviceKeeps, Zenon DEF InvitationTypes, Ats
<1>2. CASE Cancelled(d)
  <2>1. /\ call' = [call EXCEPT ![d] = Idle] /\ result' = [result EXCEPT ![d] = "false"]
        /\ UNCHANGED <<commitsFirst, inv, synced, known, stored, member, confs, uses>>
    BY <1>2, Zenon DEF Cancelled, inviter
  <2>2. Agreed(d)'
    BY <2>1 DEF Agreed, InvitationTypes, Idle
  <2> QED
    BY <2>1, <2>2, DeviceKeeps, Zenon DEF InvitationTypes
<1> QED
  BY <1>1, <1>2, Zenon

\* The invitee crashes: what is on its disk is what the inviter agreed to.
LEMMA DeviceCrashes_Keeps ==
    ASSUME InvitationInv, NEW d \in Devices, DeviceCrashes(d)
    PROVE  InvitationInv'
<1> USE DEF InvitationInv
<1>1. PICK left \in SUBSET InviteeNames :
         /\ left = confs[d] \/ (call[d].at = "contents" /\ left = {NameOf[call[d].inv]})
         /\ member' = [member EXCEPT ![d] = left]
         /\ confs' = [confs EXCEPT ![d] = left]
  BY Zenon DEF DeviceCrashes
<1>2. /\ call' = [call EXCEPT ![d] = Idle]
      /\ UNCHANGED <<commitsFirst, inv, synced, known, stored, result, uses>>
  BY Zenon DEF DeviceCrashes, inviter
<1>3. member'[d] = left /\ confs'[d] = left /\ call'[d] = Idle
  BY <1>1, <1>2, Zenon DEF InvitationTypes
<1>4. Agreed(d)'
  BY <1>1, <1>2, <1>3 DEF Agreed, Idle
<1> QED
  BY <1>1, <1>2, <1>4, DeviceKeeps, Zenon DEF InvitationTypes

\* Every step keeps the invariant.
LEMMA InvitationInvNext == InvitationInv /\ [InvitationNext]_joinvars => InvitationInv'
<1> SUFFICES ASSUME InvitationInv, [InvitationNext]_joinvars PROVE InvitationInv'
  BY Zenon
<1>1. ASSUME NEW i \in Invitations, Expire(i) PROVE InvitationInv'
  <2>1. UNCHANGED <<commitsFirst, inv, synced, known, stored, call, member, confs, result, uses>>
    BY <1>1, Zenon DEF Expire, devices
  <2> QED
    BY <2>1 DEF InvitationInv, InvitationTypes, UsedUp, KnownStored, Agreed
<1>2. CASE UNCHANGED joinvars
  BY <1>2 DEF joinvars, InvitationInv, InvitationTypes, UsedUp, KnownStored, Agreed
<1>3. ASSUME NEW d \in Devices,
             \/ process_invitation(d) \/ CommitOnKey(d) \/ StorageFails(d) \/ CrashesHandling(d)
             \/ finalize_join(d) \/ FinalizeFails(d) \/ Accepted(d)
             \/ Breaks(d) \/ Cancelled(d) \/ DeviceCrashes(d)
      PROVE  InvitationInv'
  BY <1>3, process_invitation_Keeps, CommitOnKey_Keeps, StorageFails_Keeps, CrashesHandling_Keeps,
     finalize_join_Keeps, FinalizeFails_Keeps, Accepted_Keeps, Ends_Keeps, DeviceCrashes_Keeps, Zenon
<1> QED
  BY <1>1, <1>2, <1>3, Invite_Keeps, BlacklistName_Keeps, InviterCrashes_Keeps, Join_Keeps, Zenon
     DEF InvitationNext

\* InvitationInv holds in every reachable state.
THEOREM InvitationInvariant == InvitationSpec => []InvitationInv
  BY InvitationInvInit, InvitationInvNext, PTL DEF InvitationSpec

\* An invitation is good for one use: process_invitation sends its contents at most
\* once, whoever has the URL and wherever the inviter crashes.
THEOREM UsedOnce == InvitationSpec => []OneUse
<1>1. InvitationInv => OneUse
  BY DEF InvitationInv, UsedUp, OneUse
<1> QED
  BY <1>1, InvitationInvariant, PTL

\* Once meshlink_join has returned true, the inviter has the key of the invitee
\* under its name, in memory and in its configuration files, through crashes and
\* other invitations for that name.
THEOREM JoinedStaysKnown == InvitationSpec => []JoinedIsKnown
<1>1. InvitationInv => JoinedIsKnown
  BY DEF InvitationInv, InvitationTypes, KnownStored, Agreed, JoinedIsKnown
<1> QED
  BY <1>1, InvitationInvariant, PTL

\* If the inviter commits first, no two devices store the configuration of one name.
THEOREM NamesDiffer == InvitationSpec => []OneIdentity
<1>1. InvitationInv => OneIdentity
  BY DEF InvitationInv, Agreed, OneIdentity
<1> QED
  BY <1>1, InvitationInvariant, PTL

-----------------------------------------------------------------------------
(* The host configuration file and the calls that write it.                 *)

\* The sequence m consists of p, q and s.
Joined(m, p, q, s) ==
    /\ Len(m) = Len(p) + Len(q) + Len(s)
    /\ \A i \in 1 .. Len(p) : m[i] = p[i]
    /\ \A i \in 1 .. Len(q) : m[Len(p) + i] = q[i]
    /\ \A i \in 1 .. Len(s) : m[Len(p) + Len(q) + i] = s[i]

\* Where the parts of a concatenation are.
LEMMA ConcatJoins ==
    ASSUME NEW S, NEW p \in Seq(S), NEW q \in Seq(S), NEW s \in Seq(S)
    PROVE  Joined(p \o q \o s, p, q, s) /\ (p \o q \o s) \in Seq(S)
BY DEF Joined

\* The k elements of q are between the eight of p and the two of s.
Framed(m, p, q, s, k) ==
    /\ Len(m) = 10 + k
    /\ \A i \in 1 .. 8 : m[i] = p[i]
    /\ \A i \in 1 .. k : m[8 + i] = q[i]
    /\ m[9 + k] = s[1] /\ m[10 + k] = s[2]

\* A list between eight elements and two, as in a host configuration file.
LEMMA JoinedFramed ==
    ASSUME NEW m, NEW p, NEW q, NEW s, Joined(m, p, q, s),
           Len(p) = 8, Len(s) = 2, Len(q) \in Nat
    PROVE  Framed(m, p, q, s, Len(q))
<1>1. m[8 + Len(q) + 1] = s[1] /\ m[8 + Len(q) + 2] = s[2]
  BY DEF Joined
<1>2. 8 + Len(q) + 1 = 9 + Len(q) /\ 8 + Len(q) + 2 = 10 + Len(q)
  OBVIOUS
<1> QED
  BY <1>1, <1>2, Zenon DEF Joined, Framed

\* The elements of the file of n, which has k addresses.
MessageOf(m, n, k) ==
    /\ k \in Nat /\ k <= MaxKnown /\ Len(m) = 10 + k
    /\ m[1] = Element("uint32", 1) /\ m[2] = Element("str", "peer")
    /\ m[3] = Element("str", n.submesh) /\ m[4] = Element("int32", n.devclass)
    /\ m[5] = Element("bool", n.blacklisted) /\ m[6] = Element("bin", n.ecdsa)
    /\ m[7] = Element("str", n.canonical) /\ m[8] = Element("array", k)
    /\ \A i \in 1 .. k : m[8 + i] = packmsg_add_sockaddr(n.recent[i])
    /\ m[9 + k] = Element("int64", n.last_reachable)
    /\ m[10 + k] = Element("int64", n.last_unreachable)

\* The elements of the file that node_write_config makes.
LEMMA MessageElements == ASSUME NEW n \in Nodes PROVE MessageOf(Message(n), n, Len(n.recent))
<1> DEFINE k == Len(n.recent)
           q == [i \in 1 .. k |-> packmsg_add_sockaddr(n.recent[i])]
           T == {packmsg_add_sockaddr(a) : a \in HostAddrs}
<1>1. n.recent \in Seq(HostAddrs) /\ k \in Nat /\ k <= MaxKnown
  BY DEF Nodes
<1>2. q \in Seq(T) /\ Len(q) = k
  <2>1. \A i \in 1 .. k : n.recent[i] \in HostAddrs
    BY <1>1
  <2> QED
    BY <1>1, <2>1
<1>3. \A i \in 1 .. k : q[i] = packmsg_add_sockaddr(n.recent[i])
  BY Zenon
<1> HIDE DEF q, T, k
<1> DEFINE p == <<Element("uint32", 1), Element("str", "peer"), Element("str", n.submesh),
                  Element("int32", n.devclass), Element("bool", n.blacklisted),
                  Element("bin", n.ecdsa), Element("str", n.canonical), Element("array", k)>>
           s == <<Element("int64", n.last_reachable), Element("int64", n.last_unreachable)>>
           S == {p[1], p[2], p[3], p[4], p[5], p[6], p[7], p[8], s[1], s[2]} \cup T
<1>4. Message(n) = p \o q \o s
  BY Zenon DEF Message, q, k
<1>5. p \in Seq(S) /\ q \in Seq(S) /\ s \in Seq(S) /\ Len(p) = 8 /\ Len(s) = 2
  BY <1>2
<1>6. /\ p[1] = Element("uint32", 1) /\ p[2] = Element("str", "peer")
      /\ p[3] = Element("str", n.submesh) /\ p[4] = Element("int32", n.devclass)
      /\ p[5] = Element("bool", n.blacklisted) /\ p[6] = Element("bin", n.ecdsa)
      /\ p[7] = Element("str", n.canonical) /\ p[8] = Element("array", k)
      /\ s[1] = Element("int64", n.last_reachable) /\ s[2] = Element("int64", n.last_unreachable)
  BY Zenon
<1> HIDE DEF p, s, S
<1> DEFINE m == p \o q \o s
<1>7. Joined(m, p, q, s)
  BY <1>5, ConcatJoins, Zenon
<1> HIDE DEF m
<1>8. Framed(m, p, q, s, k)
  BY <1>1, <1>2, <1>5, <1>7, JoinedFramed, Zenon
<1>9. /\ m[1] = p[1] /\ m[2] = p[2] /\ m[3] = p[3] /\ m[4] = p[4]
      /\ m[5] = p[5] /\ m[6] = p[6] /\ m[7] = p[7] /\ m[8] = p[8]
  BY <1>8 DEF Framed
<1>10. Message(n) = m
  BY <1>4, Zenon DEF m
<1> QED
  BY <1>1, <1>3, <1>6, <1>8, <1>9, <1>10, Zenon DEF k, Framed, MessageOf

\* It is a sequence of elements, and so not a missing file.
LEMMA MessageIsFile == ASSUME NEW n \in Nodes PROVE Message(n) \in Seq(Elements) /\ Message(n) # NoNode
<1> DEFINE q == [i \in 1 .. Len(n.recent) |-> packmsg_add_sockaddr(n.recent[i])]
<1>1. n.recent \in Seq(HostAddrs) /\ Len(n.recent) \in Nat
  BY DEF Nodes
<1>2. \A a \in HostAddrs : packmsg_add_sockaddr(a) \in Elements
  BY Zenon DEF packmsg_add_sockaddr, Element, Elements
<1>3. q \in Seq(Elements)
  <2>1. \A i \in 1 .. Len(n.recent) : n.recent[i] \in HostAddrs
    BY <1>1
  <2>2. \A i \in 1 .. Len(n.recent) : packmsg_add_sockaddr(n.recent[i]) \in Elements
    BY <1>2, <2>1, Zenon
  <2> QED
    BY <1>1, <2>2
<1>4. /\ Element("uint32", 1) \in Elements /\ Element("str", "peer") \in Elements
      /\ Element("array", Len(n.recent)) \in Elements
  BY <1>1, Zenon DEF Element, Elements
<1>5. /\ Element("str", n.submesh) \in Elements /\ Element("int32", n.devclass) \in Elements
      /\ Element("bin", n.ecdsa) \in Elements /\ Element("str", n.canonical) \in Elements
      /\ Element("int64", n.last_reachable) \in Elements
      /\ Element("int64", n.last_unreachable) \in Elements
  BY DEF Nodes, Element, Elements
<1>6. Element("bool", n.blacklisted) \in Elements
  <2>1. n.blacklisted \in BOOLEAN
    BY Zenon DEF Nodes
  <2> QED
    BY <2>1, Zenon DEF Element, Elements
<1> HIDE DEF q
<1> DEFINE p == <<Element("uint32", 1), Element("str", "peer"), Element("str", n.submesh),
                  Element("int32", n.devclass), Element("bool", n.blacklisted),
                  Element("bin", n.ecdsa), Element("str", n.canonical), Element("array", Len(n.recent))>>
           s == <<Element("int64", n.last_reachable), Element("int64", n.last_unreachable)>>
<1>7. p \in Seq(Elements) /\ s \in Seq(Elements)
  BY <1>4, <1>5, <1>6
<1>8. Message(n) = p \o q \o s
  BY Zenon DEF Message, q
<1> HIDE DEF p, s
<1>9. p \o q \o s \in Seq(Elements)
  BY <1>3, <1>7, ConcatJoins, Zenon
<1> QED
  BY <1>8, <1>9, NodeAssumption, Zenon

\* The elements of Layout(k).
LayoutOf(l, k) ==
    /\ Len(l) = 10 + k
    /\ l[1] = "uint32" /\ l[2] = "str" /\ l[3] = "str" /\ l[4] = "int32"
    /\ l[5] = "bool" /\ l[6] = "bin" /\ l[7] = "str" /\ l[8] = "array"
    /\ \A i \in 1 .. k : l[8 + i] = "ext"
    /\ l[9 + k] = "int64" /\ l[10 + k] = "int64"

\* The element types that the readers expect.
LEMMA LayoutElements == ASSUME NEW k \in Nat PROVE LayoutOf(Layout(k), k)
<1> DEFINE p == <<"uint32", "str", "str", "int32", "bool", "bin", "str", "array">>
           q == [i \in 1 .. k |-> "ext"]
           s == <<"int64", "int64">>
           S == {"uint32", "str", "int32", "bool", "bin", "array", "ext", "int64"}
           l == p \o q \o s
<1>1. p \in Seq(S) /\ s \in Seq(S) /\ Len(p) = 8 /\ Len(s) = 2
  OBVIOUS
<1>2. q \in Seq(S) /\ Len(q) = k
  OBVIOUS
<1>3. \A i \in 1 .. k : q[i] = "ext"
  BY Zenon
<1>4. /\ p[1] = "uint32" /\ p[2] = "str" /\ p[3] = "str" /\ p[4] = "int32"
      /\ p[5] = "bool" /\ p[6] = "bin" /\ p[7] = "str" /\ p[8] = "array"
      /\ s[1] = "int64" /\ s[2] = "int64"
  BY Zenon
<1>5. Layout(k) = l
  BY Zenon DEF Layout
<1> HIDE DEF p, q, s, S
<1>6. Joined(l, p, q, s)
  BY <1>1, <1>2, ConcatJoins, Zenon
<1> HIDE DEF l
<1>7. Framed(l, p, q, s, k)
  BY <1>1, <1>2, <1>6, JoinedFramed, Zenon
<1>8. /\ l[1] = p[1] /\ l[2] = p[2] /\ l[3] = p[3] /\ l[4] = p[4]
      /\ l[5] = p[5] /\ l[6] = p[6] /\ l[7] = p[7] /\ l[8] = p[8]
  BY <1>7 DEF Framed
<1>9. LayoutOf(l, k)
  BY <1>3, <1>4, <1>7, <1>8, ZenonT(30) DEF Framed, LayoutOf
<1> QED
  BY <1>5, <1>9, Zenon

\* What node_write_config writes has the layout that load_node parses.
LEMMA MessageParses == ASSUME NEW n \in Nodes PROVE Parses(Message(n))
<1> DEFINE m == Message(n)
           k == Len(n.recent)
           l == Layout(k)
<1>1. MessageOf(m, n, k)
  BY MessageElements, Zenon
<1> HIDE DEF m, k
<1>2. k \in Nat /\ m[8].v = k
  BY <1>1 DEF MessageOf, Element
<1>3. LayoutOf(l, k)
  BY <1>2, LayoutElements, Zenon
<1>4. Layout(m[8].v) = l
  BY <1>2, Zenon
<1> HIDE DEF l
<1>5. Len(m) = Len(l) /\ Len(l) = 10 + k
  BY <1>1, <1>3, Zenon DEF MessageOf, LayoutOf
<1>6. ASSUME NEW i \in 1 .. 10 + k PROVE m[i].t = l[i]
  <2>1. i \in 1 .. 8 \/ i = 9 + k \/ i = 10 + k \/ i - 8 \in 1 .. k
    BY <1>2
  <2>2. CASE i \in 1 .. 8
    <3>1. i = 1 \/ i = 2 \/ i = 3 \/ i = 4 \/ i = 5 \/ i = 6 \/ i = 7 \/ i = 8
      BY <2>2
    <3> QED
      BY <1>1, <1>3, <3>1 DEF MessageOf, LayoutOf, Element
  <2>3. CASE i = 9 + k \/ i = 10 + k
    BY <1>1, <1>3, <2>3 DEF MessageOf, LayoutOf, Element
  <2>4. CASE i - 8 \in 1 .. k
    <3>1. PICK j \in 1 .. k : i = 8 + j
      BY <2>4
    <3>2. m[8 + j] = packmsg_add_sockaddr(n.recent[j]) /\ l[8 + j] = "ext"
      BY <1>1, <1>3, Zenon DEF MessageOf, LayoutOf
    <3>3. packmsg_add_sockaddr(n.recent[j]).t = "ext"
      BY Zenon DEF packmsg_add_sockaddr, Element
    <3> QED
      BY <3>1, <3>2, <3>3, Zenon
  <2> QED
    BY <2>1, <2>2, <2>3, <2>4, Zenon
<1>7. Parses(m)
  BY <1>4, <1>5, <1>6, Zenon DEF Parses
<1> QED
  BY <1>7, Zenon DEF m

\* Two nodes with the same stored fields.
SameFields(r, n) ==
    /\ r.submesh = n.submesh /\ r.devclass = n.devclass /\ r.blacklisted = n.blacklisted
    /\ r.ecdsa = n.ecdsa /\ r.canonical = n.canonical /\ r.recent = n.recent
    /\ r.last_reachable = n.last_reachable /\ r.last_unreachable = n.last_unreachable

\* The addresses in a file, of which at most max are read.
LEMMA AddressesRead ==
    ASSUME NEW n \in Nodes, NEW max \in Nat
    PROVE  /\ Addresses(Message(n), max) \in Seq(HostAddrs)
           /\ Len(Addresses(Message(n), max)) <= max
           /\ Len(n.recent) <= max => Addresses(Message(n), max) = n.recent
<1> DEFINE m == Message(n)
           k == Len(n.recent)
           c == IF k < max THEN k ELSE max
<1>1. MessageOf(m, n, k)
  BY MessageElements, Zenon
<1>2. n.recent \in Seq(HostAddrs) /\ k \in Nat
  BY DEF Nodes
<1>3. m[8].v = k
  BY <1>1 DEF MessageOf, Element
<1>4. c \in Nat /\ c <= k /\ c <= max /\ (k <= max => c = k)
  BY <1>2
<1>5. ASSUME NEW i \in 1 .. c PROVE packmsg_get_sockaddr(m[8 + i]) = n.recent[i]
  <2>1. m[8 + i] = packmsg_add_sockaddr(n.recent[i])
    BY <1>1, <1>4 DEF MessageOf
  <2> QED
    BY <2>1 DEF packmsg_add_sockaddr, packmsg_get_sockaddr, Element
<1>6. Addresses(m, max) = [i \in 1 .. c |-> n.recent[i]]
  BY <1>3, <1>5, Zenon DEF Addresses
<1> HIDE DEF m
<1>7. /\ [i \in 1 .. c |-> n.recent[i]] \in Seq(HostAddrs)
      /\ Len([i \in 1 .. c |-> n.recent[i]]) = c
  BY <1>2, <1>4
<1>8. k <= max => [i \in 1 .. c |-> n.recent[i]] = n.recent
  BY <1>2, <1>4
<1> QED
  BY <1>4, <1>6, <1>7, <1>8 DEF m

\* What is read of the file of n.
LoadsAs(r, n) == r \in Nodes /\ ~r.dirty /\ SameFields(r, n)

\* node_read_from_config reads back what node_write_config wrote.
LEMMA MessageLoads ==
    ASSUME NEW n \in Nodes
    PROVE  LoadsAs(node_read_from_config(new_node, Message(n)), n)
<1> DEFINE m == Message(n)
           k == Len(n.recent)
           r == node_read_from_config(new_node, m)
<1>1. MessageOf(m, n, k)
  BY MessageElements, Zenon
<1>2. Addresses(m, MaxKnown) = n.recent
  BY AddressesRead, NodeAssumption, Zenon DEF Nodes
<1> HIDE DEF m
<1>3. /\ m[3].v = n.submesh /\ m[4].v = n.devclass /\ m[5].v = n.blacklisted /\ m[6].v = n.ecdsa
      /\ m[7].v = n.canonical /\ m[8].v = k
      /\ m[9 + k].v = n.last_reachable /\ m[10 + k].v = n.last_unreachable
  BY <1>1 DEF MessageOf, Element
<1>4. r = [submesh |-> n.submesh, devclass |-> n.devclass, blacklisted |-> n.blacklisted,
           ecdsa |-> n.ecdsa, canonical |-> n.canonical, recent |-> n.recent,
           last_reachable |-> n.last_reachable, last_unreachable |-> n.last_unreachable,
           dirty |-> FALSE, reachable |-> FALSE]
  <2>1. r = [new_node EXCEPT !.submesh = n.submesh, !.devclass = n.devclass,
                             !.blacklisted = n.blacklisted, !.ecdsa = n.ecdsa,
                             !.canonical = n.canonical, !.recent = n.recent,
                             !.last_reachable = n.last_reachable,
                             !.last_unreachable = n.last_unreachable]
    <3>1. new_node.ecdsa = 0
      BY Zenon DEF new_node
    <3> QED
      BY <1>2, <1>3, <3>1, Zenon DEF node_read_from_config
  <2> HIDE DEF r
  <2> QED
    BY <2>1, Zenon DEF new_node
<1>5. r \in Nodes
  BY <1>4 DEF Nodes
<1>6. ~r.dirty /\ SameFields(r, n)
  BY <1>4 DEF SameFields
<1> QED
  BY <1>5, <1>6, Zenon DEF m, LoadsAs

\* load_node finds the node in the file that was made for it.
LEMMA FileLoads ==
    ASSUME NEW n \in Nodes, file = Message(n)
    PROVE  file # NoNode /\ load_node # NoNode /\ LoadsAs(load_node, n)
<1>1. file # NoNode /\ Parses(file)
  BY MessageIsFile, MessageParses, Zenon
<1>2. file[1].v = 1 /\ file[2].v = "peer"
  <2>1. MessageOf(file, n, Len(n.recent))
    BY MessageElements, Zenon
  <2> QED
    BY <2>1 DEF MessageOf, Element
<1>3. load_node = node_read_from_config(new_node, Message(n))
  BY <1>1, <1>2, Zenon DEF load_node, node_get_config
<1> QED
  BY <1>1, <1>3, MessageLoads, NodeAssumption, Zenon DEF LoadsAs

\* The same for the file that a step writes.
LEMMA NewFileLoads ==
    ASSUME NEW n \in Nodes, file' = Message(n)
    PROVE  file' # NoNode /\ load_node' # NoNode /\ LoadsAs(load_node', n)
<1>1. file' # NoNode /\ Parses(file')
  BY MessageIsFile, MessageParses, Zenon
<1>2. file'[1].v = 1 /\ file'[2].v = "peer"
  <2>1. MessageOf(file', n, Len(n.recent))
    BY MessageElements, Zenon
  <2> QED
    BY <2>1 DEF MessageOf, Element
<1>3. load_node' = node_read_from_config(new_node, Message(n))
  BY <1>1, <1>2, Zenon DEF load_node, node_get_config
<1> QED
  BY <1>1, <1>3, MessageLoads, NodeAssumption, Zenon DEF LoadsAs

\* A new node is clean and has neither a key nor a mark on the blacklist.
LEMMA NewNode == new_node \in Nodes /\ ~new_node.dirty /\ ~new_node.blacklisted /\ new_node.ecdsa = 0
BY NodeAssumption DEF new_node, Nodes

\* Two nodes with the same stored fields agree on any of them.
LEMMA FieldsOf ==
    ASSUME NEW r, NEW n, NEW W \in SUBSET Fields, SameFields(r, n)
    PROVE  \A f \in W : r[f] = n[f]
BY Zenon DEF SameFields, Fields

\* The change from the node in memory to n marks it dirty or is in "changed".
Marked(n, changed) ==
    /\ n \in Nodes /\ changed \subseteq Fields
    /\ "ecdsa" \in changed => changed = Fields
    /\ ~n.dirty /\ changed # Fields =>
          peer # NoNode /\ ~peer.dirty /\ \A f \in Fields \ changed : n[f] = peer[f]

\* It leaves the key and the blacklisting alone.
KeyAlone(n) ==
    policy # "disabled" /\ bad = 0 /\ ~skipped =>
        /\ peer = NoNode => n.ecdsa = 0
        /\ peer # NoNode => n.ecdsa = peer.ecdsa /\ n.blacklisted = peer.blacklisted

\* A call that does not write the node keeps the invariant if the node is marked and
\* the call leaves the key and the blacklisting alone.
LEMMA NotWritten_Keeps ==
    ASSUME NodeInv, up, NEW n, NEW changed, Marked(n, changed), KeyAlone(n),
           NotWritten(n, changed), UNCHANGED <<policy, up, skipped>>, events' \in Nat
    PROVE  NodeInv'
<1> USE DEF NodeInv
<1>1. peer' = n /\ unsaved' = unsaved \cup changed /\ file' = file /\ bad' = bad /\ n # NoNode
  BY NodeAssumption, Zenon DEF NotWritten, Marked
<1>2. load_node' = load_node
  BY <1>1, Zenon DEF load_node, node_get_config
<1>3. NodeTypes'
  BY <1>1, Zenon DEF NodeTypes, Marked
<1>4. KeyMarked'
  BY <1>1, Zenon DEF KeyMarked, NodeTypes, Marked
<1>5. CleanIsSaved'
  <2> SUFFICES ASSUME policy = "enabled", ~n.dirty, unsaved' # Fields
               PROVE  file # NoNode /\ \A f \in Fields \ unsaved' : load_node[f] = n[f]
    BY <1>1, <1>2, Zenon DEF CleanIsSaved
  <2>1. unsaved # Fields /\ changed # Fields
    BY <1>1, Zenon DEF NodeTypes, Marked
  <2> QED
    BY <1>1, <2>1, Zenon DEF CleanIsSaved, Marked
<1>6. KeyIsSaved'
  BY <1>1, <1>2, Zenon DEF KeyIsSaved, KeyAlone
<1> QED
  BY <1>3, <1>4, <1>5, <1>6, Zenon

\* node_write_config keeps the invariant under every storage policy, also if the
\* write fails.
LEMMA node_write_config_Keeps ==
    ASSUME NodeInv, up, NEW n, NEW changed, NEW new_key \in BOOLEAN,
           Marked(n, changed), ~new_key => KeyAlone(n),
           node_write_config(n, new_key, changed), UNCHANGED <<policy, up, skipped>>, events' \in Nat
    PROVE  NodeInv'
<1> USE DEF NodeInv
<1>1. n \in Nodes /\ n # NoNode
  BY NodeAssumption, Zenon DEF Marked
<1>2. CASE /\ peer' = [n EXCEPT !.dirty = FALSE] /\ file' = Message(n)
           /\ unsaved' = {} /\ bad' = bad
  <2>1. peer' = [n EXCEPT !.dirty = FALSE] /\ unsaved' = {} /\ bad' \in Nat
    BY <1>2, Zenon DEF NodeTypes
  <2>2. peer' \in Nodes /\ peer' # NoNode /\ SameFields(peer', n)
    <3>1. peer' \in Nodes
      BY <1>1, <2>1, Zenon DEF Nodes
    <3>2. SameFields(peer', n)
      BY <1>1, <2>1, Zenon DEF Nodes, SameFields
    <3> QED
      BY <3>1, <3>2, NodeAssumption, Zenon
  <2>3. file' # NoNode /\ LoadsAs(load_node', n)
    BY <1>1, <1>2, NewFileLoads, Zenon
  <2>4. NodeTypes'
    BY <1>1, <1>2, <2>1, <2>2, Zenon DEF NodeTypes
  <2>5. SameFields(load_node', peer')
    BY <2>2, <2>3, Zenon DEF LoadsAs, SameFields
  <2>6. CleanIsSaved'
    BY <2>3, <2>5, FieldsOf DEF CleanIsSaved
  <2>7. KeyMarked' /\ KeyIsSaved'
    BY <2>1, <2>2, <2>3, <2>5, Zenon DEF KeyMarked, KeyIsSaved, SameFields
  <2> QED
    BY <2>4, <2>6, <2>7, Zenon
<1>3. CASE /\ peer' = n /\ unsaved' = unsaved \cup changed /\ file' = file
           /\ (bad' = bad /\ ~Stored(new_key)) \/ bad' = bad + 1
  <2>1. load_node' = load_node
    BY <1>3, Zenon DEF load_node, node_get_config
  <2>2. NodeTypes' /\ KeyMarked'
    BY <1>1, <1>3 DEF NodeTypes, Marked, KeyMarked
  <2>3. CleanIsSaved'
    <3> SUFFICES ASSUME policy = "enabled", ~n.dirty, unsaved' # Fields
                 PROVE  file # NoNode /\ \A f \in Fields \ unsaved' : load_node[f] = n[f]
      BY <1>3, <2>1, Zenon DEF CleanIsSaved
    <3>1. unsaved # Fields /\ changed # Fields
      BY <1>3, Zenon DEF NodeTypes, Marked
    <3> QED
      BY <1>3, <3>1, Zenon DEF CleanIsSaved, Marked
  <2>4. KeyIsSaved'
    <3>1. CASE bad' = bad + 1
      BY <3>1 DEF KeyIsSaved, NodeTypes
    <3>2. CASE bad' = bad /\ ~Stored(new_key)
      <4>1. policy = "disabled" \/ ~new_key
        BY <3>2, Zenon DEF Stored, NodeTypes
      <4> QED
        BY <1>1, <1>3, <2>1, <3>2, <4>1, Zenon DEF KeyIsSaved, KeyAlone
    <3> QED
      BY <1>3, <3>1, <3>2, Zenon
  <2> QED
    BY <2>2, <2>3, <2>4, Zenon
<1> QED
  BY <1>2, <1>3, Zenon DEF node_write_config

\* node_add_recent_address: the list stays within its bound, nothing else changes, and
\* a change marks the node.
AddsAddress(r, n) ==
    /\ r \in Nodes
    /\ r.ecdsa = n.ecdsa /\ r.blacklisted = n.blacklisted
    /\ r = n \/ r.dirty
    /\ n.dirty => r.dirty

\* node_add_recent_address keeps the list within its bound, and marks the node if it
\* changes it.
LEMMA AddressAdded ==
    ASSUME NEW n \in Nodes, NEW sa \in HostAddrs
    PROVE  AddsAddress(node_add_recent_address(n, sa), n)
<1> DEFINE old == {i \in 1 .. Len(n.recent) : n.recent[i] = sa}
           i == IF old # {} THEN CHOOSE k \in old : TRUE
                ELSE IF Len(n.recent) = MaxKnown THEN MaxKnown ELSE Len(n.recent) + 1
           list == <<sa>> \o SubSeq(n.recent, 1, i - 1) \o SubSeq(n.recent, i + 1, Len(n.recent))
           r == [n EXCEPT !.recent = list, !.dirty = TRUE]
<1>1. n.recent \in Seq(HostAddrs) /\ Len(n.recent) \in Nat /\ Len(n.recent) <= MaxKnown
  BY DEF Nodes
<1>2. i \in 1 .. Len(n.recent) \/ (i = Len(n.recent) + 1 /\ Len(n.recent) < MaxKnown)
  BY <1>1, NodeAssumption
<1>3. node_add_recent_address(n, sa) = IF old # {} /\ i = 1 THEN n ELSE r
  BY Zenon DEF node_add_recent_address
<1> HIDE DEF old, i
<1>4. list \in Seq(HostAddrs) /\ Len(list) <= MaxKnown
  <2>1. /\ SubSeq(n.recent, 1, i - 1) \in Seq(HostAddrs)
        /\ Len(SubSeq(n.recent, 1, i - 1)) = i - 1
    BY <1>1, <1>2
  <2>2. /\ SubSeq(n.recent, i + 1, Len(n.recent)) \in Seq(HostAddrs)
        /\ i <= Len(n.recent) => Len(SubSeq(n.recent, i + 1, Len(n.recent))) = Len(n.recent) - i
        /\ i = Len(n.recent) + 1 => Len(SubSeq(n.recent, i + 1, Len(n.recent))) = 0
    BY <1>1, <1>2
  <2> DEFINE a == SubSeq(n.recent, 1, i - 1)
             b == SubSeq(n.recent, i + 1, Len(n.recent))
  <2> HIDE DEF a, b
  <2>3. <<sa>> \in Seq(HostAddrs) /\ Len(<<sa>>) = 1
    OBVIOUS
  <2>4. (<<sa>> \o a \o b) \in Seq(HostAddrs) /\ Len(<<sa>> \o a \o b) = 1 + Len(a) + Len(b)
    BY <2>1, <2>2, <2>3, ConcatJoins DEF Joined, a, b
  <2>5. Len(a) = i - 1 /\ Len(b) = IF i <= Len(n.recent) THEN Len(n.recent) - i ELSE 0
    BY <1>1, <1>2, <2>1, <2>2 DEF a, b
  <2>6. 1 + Len(a) + Len(b) <= MaxKnown
    BY <1>1, <1>2, <2>5, NodeAssumption
  <2>7. list = <<sa>> \o a \o b
    BY Zenon DEF a, b
  <2> HIDE DEF list
  <2> QED
    BY <2>4, <2>6, <2>7, Zenon
<1> HIDE DEF list
<1>5. r \in Nodes /\ r.dirty /\ r.ecdsa = n.ecdsa /\ r.blacklisted = n.blacklisted
  BY <1>4, Zenon DEF Nodes
<1> QED
  BY <1>3, <1>5, Zenon DEF AddsAddress

\* node_read_public_key changes a node only if it has no key and the file has one.
ReadsKey(r, n) ==
    /\ r \in Nodes /\ r.dirty = n.dirty /\ r.blacklisted = n.blacklisted
    /\ n.ecdsa # 0 \/ ~HasKey(n) => r = n

\* node_read_public_key changes a node only if it has no key and the file has one.
LEMMA KeyRead == ASSUME NodeTypes, NEW n \in Nodes PROVE ReadsKey(node_read_public_key(n), n)
<1>1. CASE n.ecdsa # 0 \/ ~HasKey(n)
  BY <1>1, Zenon DEF node_read_public_key, ReadsKey
<1>2. CASE n.ecdsa = 0 /\ HasKey(n)
  <2>1. file # NoNode
    BY <1>2, Zenon DEF HasKey, node_get_config
  <2>2. PICK m \in Nodes : file = Message(m)
    BY <2>1, Zenon DEF NodeTypes
  <2> DEFINE k == Len(m.recent)
             added == Addresses(file, MaxKnown - Len(n.recent))
             list == n.recent \o added
  <2>3. /\ file[6].v = m.ecdsa /\ file[7].v = m.canonical /\ file[8].v = k
        /\ file[9 + k].v = m.last_reachable /\ file[10 + k].v = m.last_unreachable
    <3>1. MessageOf(file, m, k)
      BY <2>2, MessageElements, Zenon
    <3> QED
      BY <3>1 DEF MessageOf, Element
  <2>4. /\ n.recent \in Seq(HostAddrs) /\ Len(n.recent) \in Nat
        /\ MaxKnown - Len(n.recent) \in Nat
    BY NodeAssumption DEF Nodes
  <2>5. added \in Seq(HostAddrs) /\ Len(added) <= MaxKnown - Len(n.recent)
    BY <2>2, <2>4, AddressesRead, Zenon
  <2> HIDE DEF added
  <2>6. list \in Seq(HostAddrs) /\ Len(list) <= MaxKnown
    <3>1. list \in Seq(HostAddrs) /\ Len(list) = Len(n.recent) + Len(added)
      BY <2>4, <2>5
    <3>2. Len(added) \in Nat
      BY <2>5
    <3> HIDE DEF list
    <3> QED
      BY <2>4, <2>5, <3>1, <3>2, NodeAssumption
  <2>7. node_read_public_key(n) =
          [n EXCEPT !.ecdsa = m.ecdsa, !.canonical = IF @ = 0 THEN m.canonical ELSE @,
                    !.recent = list,
                    !.last_reachable = IF @ = 0 THEN m.last_reachable ELSE @,
                    !.last_unreachable = IF @ = 0 THEN m.last_unreachable ELSE @]
    BY <1>2, <2>3 DEF node_read_public_key, added
  <2> HIDE DEF list
  <2> QED
    BY <1>2, <2>6, <2>7, Zenon DEF ReadsKey, Nodes
<1> QED
  BY <1>1, <1>2, Zenon DEF Nodes, ReadsKey

\* What an event leaves alone.
LEMMA EventHappens ==
    ASSUME NodeTypes, Event
    PROVE  up /\ UNCHANGED <<policy, up, skipped>> /\ events' \in Nat /\ Now \in Nat
BY DEF NodeTypes, Event, Now

\* A node that is dirty is marked.
LEMMA DirtyIsMarked == ASSUME NEW n \in Nodes, n.dirty PROVE Marked(n, {})
BY Zenon DEF Marked, Fields

\* A node that did not change needs no mark.
LEMMA PeerIsMarked == ASSUME peer \in Nodes PROVE Marked(peer, {}) /\ KeyAlone(peer)
BY NodeAssumption, Zenon DEF Marked, KeyAlone, Fields

\* The key in the file is the one that load_node finds.
LEMMA FileKey == ASSUME NodeTypes, file # NoNode PROVE file[6].v = load_node.ecdsa
<1>1. PICK m \in Nodes : file = Message(m)
  BY Zenon DEF NodeTypes
<1>2. MessageOf(file, m, Len(m.recent))
  BY <1>1, MessageElements, Zenon
<1>3. load_node.ecdsa = m.ecdsa
  BY <1>1, FileLoads, Zenon DEF LoadsAs, SameFields
<1> QED
  BY <1>2, <1>3 DEF MessageOf, Element

\* When no write failed and the file was loaded, a key that id_h or req_key_ext_h
\* finds is in memory.
LEMMA KeyInMemory ==
    ASSUME NodeInv, up, peer # NoNode, HasKey(peer), policy # "disabled", bad = 0, ~skipped
    PROVE  peer.ecdsa # 0
<1>1. CASE file # NoNode
  BY <1>1, FileKey, Zenon DEF NodeInv, KeyIsSaved, HasKey
<1>2. CASE file = NoNode
  BY <1>2, Zenon DEF HasKey, node_get_config
<1> QED
  BY <1>1, <1>2, Zenon

\* add_edge_h makes a dirty node, or takes over the device class.
LEMMA add_edge_h_Keeps ==
    ASSUME NodeInv, NEW sub \in {"core", "sub"}, NEW devclass \in DevClasses, NEW b \in BOOLEAN,
           add_edge_h(sub, devclass, b)
    PROVE  NodeInv'
<1> USE DEF NodeInv
<1>1. /\ up /\ UNCHANGED <<policy, up, skipped>> /\ events' \in Nat
  BY EventHappens, Zenon DEF add_edge_h
<1>2. CASE peer = NoNode
  <2> DEFINE n == [new_node EXCEPT !.submesh = sub, !.devclass = devclass,
                                   !.blacklisted = b, !.dirty = TRUE]
  <2>1. n \in Nodes /\ n.dirty /\ n.ecdsa = 0
    BY NewNode, Zenon DEF Nodes
  <2>2. NotWritten(n, {})
    BY <1>2, Zenon DEF add_edge_h
  <2> HIDE DEF n
  <2>3. Marked(n, {}) /\ KeyAlone(n)
    BY <1>2, <2>1, DirtyIsMarked, Zenon DEF KeyAlone
  <2> QED
    BY <1>1, <2>2, <2>3, NotWritten_Keeps, Zenon
<1>3. CASE peer # NoNode
  <2> DEFINE n == [peer EXCEPT !.devclass = devclass]
             changed == IF devclass = peer.devclass THEN {} ELSE {"devclass"}
  <2>1. peer \in Nodes
    BY <1>3, Zenon DEF NodeTypes
  <2>2. n \in Nodes /\ n.dirty = peer.dirty /\ \A f \in Fields \ changed : n[f] = peer[f]
    BY <2>1, Zenon DEF Nodes, Fields
  <2>3. NotWritten(n, changed)
    BY <1>3, Zenon DEF add_edge_h
  <2>4. Marked(n, changed)
    BY <1>3, <2>2, Zenon DEF Marked, Fields
  <2>5. KeyAlone(n)
    BY <1>3, <2>1, Zenon DEF KeyAlone, Nodes
  <2> QED
    BY <1>1, <2>3, <2>4, <2>5, NotWritten_Keeps, Zenon
<1> QED
  BY <1>2, <1>3, Zenon

\* ack_h marks the node, and finds the key it has.
LEMMA ack_h_Keeps ==
    ASSUME NodeInv, NEW devclass \in DevClasses, NEW sa \in HostAddrs, ack_h(devclass, sa)
    PROVE  NodeInv'
<1> USE DEF NodeInv
<1>1. /\ up /\ UNCHANGED <<policy, up, skipped>> /\ events' \in Nat /\ peer # NoNode
      /\ peer \in Nodes
  BY EventHappens, Zenon DEF ack_h, Known, NodeTypes
<1> DEFINE r == node_read_public_key(peer)
           d == [r EXCEPT !.devclass = devclass, !.dirty = TRUE]
           n == node_add_recent_address(d, sa)
<1>2. NotWritten(n, {})
  BY Zenon DEF ack_h
<1>3. ReadsKey(r, peer)
  BY <1>1, KeyRead, Zenon
<1> HIDE DEF r
<1>4. d \in Nodes /\ d.dirty /\ d.ecdsa = r.ecdsa /\ d.blacklisted = r.blacklisted
  BY <1>3, Zenon DEF ReadsKey, Nodes
<1> HIDE DEF d
<1>5. AddsAddress(n, d)
  BY <1>4, AddressAdded, Zenon
<1> HIDE DEF n
<1>6. Marked(n, {})
  BY <1>4, <1>5, DirtyIsMarked, Zenon DEF AddsAddress
<1>7. KeyAlone(n)
  <2> SUFFICES ASSUME policy # "disabled", bad = 0, ~skipped
               PROVE  n.ecdsa = peer.ecdsa /\ n.blacklisted = peer.blacklisted
    BY <1>1, Zenon DEF KeyAlone
  <2>1. peer.ecdsa # 0
    BY <1>1, KeyInMemory, Zenon DEF ack_h
  <2> QED
    BY <1>3, <1>4, <1>5, <2>1, Zenon DEF ReadsKey, AddsAddress
<1> QED
  BY <1>1, <1>2, <1>6, <1>7, NotWritten_Keeps, Zenon

\* commit_invitation writes the node or does not keep it.
LEMMA commit_invitation_Keeps ==
    ASSUME NodeInv, NEW sub \in {"core", "sub"}, NEW sa \in HostAddrs, commit_invitation(sub, sa)
    PROVE  NodeInv'
<1> USE DEF NodeInv
<1> DEFINE c == [new_node EXCEPT !.submesh = sub, !.ecdsa = 1]
           n == node_add_recent_address(c, sa)
<1>1. up /\ UNCHANGED <<policy, up, skipped>> /\ events' \in Nat /\ peer = NoNode /\ file = NoNode
  BY EventHappens, Zenon DEF commit_invitation
<1>2. c \in Nodes /\ ~c.dirty /\ c.recent = <<>>
  BY NewNode, Zenon DEF Nodes, new_node
<1>3. n \in Nodes /\ n.dirty
  <2>1. AddsAddress(n, c)
    BY <1>2, AddressAdded, Zenon
  <2>2. n.dirty
    BY <1>2 DEF node_add_recent_address, new_node
  <2> QED
    BY <2>1, <2>2, Zenon DEF AddsAddress
<1>4. CASE node_write_config(n, TRUE, {})
  <2> HIDE DEF n
  <2>1. Marked(n, {})
    BY <1>3, DirtyIsMarked, Zenon
  <2> QED
    BY <1>1, <1>4, <2>1, node_write_config_Keeps, Zenon
<1>5. CASE bad' = bad + 1 /\ UNCHANGED <<peer, file, unsaved>>
  BY <1>1, <1>5, NodeAssumption DEF NodeTypes, KeyMarked, CleanIsSaved, KeyIsSaved
<1> QED
  BY <1>4, <1>5, Zenon DEF commit_invitation

\* req_key_ext_h takes a key from the file or writes the new one.
LEMMA learn_key_Keeps == ASSUME NodeInv, learn_key PROVE NodeInv'
<1> USE DEF NodeInv
<1>1. /\ up /\ UNCHANGED <<policy, up, skipped>> /\ events' \in Nat /\ peer # NoNode
      /\ peer \in Nodes
  BY EventHappens, Zenon DEF learn_key, Known, NodeTypes
<1>2. CASE HasKey(peer)
  <2> DEFINE n == node_read_public_key(peer)
  <2>1. NotWritten(n, {})
    BY <1>2, Zenon DEF learn_key
  <2>2. ReadsKey(n, peer)
    BY <1>1, KeyRead, Zenon
  <2> HIDE DEF n
  <2>3. KeyAlone(n)
    BY <1>1, <1>2, <2>2, KeyInMemory, Zenon DEF KeyAlone, ReadsKey
  <2>4. CASE n = peer \/ n.dirty
    <3>1. Marked(n, {})
      BY <1>1, <2>2, <2>4, PeerIsMarked, DirtyIsMarked, Zenon DEF ReadsKey
    <3> QED
      BY <1>1, <2>1, <2>3, <3>1, NotWritten_Keeps, Zenon
  <2>5. CASE n # peer /\ ~n.dirty
    <3>1. peer.ecdsa = 0 /\ ~peer.dirty /\ node_get_config /\ file[6].v # 0
      BY <1>2, <2>2, <2>5, Zenon DEF ReadsKey, HasKey
    <3>2. file # NoNode /\ load_node.ecdsa # 0
      BY <3>1, FileKey, Zenon DEF node_get_config
    <3>3. policy = "enabled" => unsaved = Fields
      <4> SUFFICES ASSUME policy = "enabled", unsaved # Fields PROVE FALSE
        BY Zenon
      <4>1. "ecdsa" \in Fields \ unsaved
        BY Zenon DEF KeyMarked, Fields
      <4>2. load_node["ecdsa"] = peer["ecdsa"]
        BY <1>1, <3>1, <4>1, Zenon DEF CleanIsSaved
      <4> QED
        BY <3>1, <3>2, <4>2, Zenon
    <3>4. load_node' = load_node
      BY <2>1, Zenon DEF NotWritten, load_node, node_get_config
    <3>5. CleanIsSaved' /\ NodeTypes' /\ KeyMarked'
      BY <1>1, <2>1, <2>2, <3>3, Zenon DEF CleanIsSaved, NodeTypes, KeyMarked, NotWritten, ReadsKey
    <3>6. KeyIsSaved'
      BY <1>1, <2>1, <2>2, <2>3, <3>2, <3>4, NodeAssumption, Zenon
         DEF KeyIsSaved, NotWritten, KeyAlone, ReadsKey
    <3> QED
      BY <3>5, <3>6, Zenon
  <2> QED
    BY <2>4, <2>5, Zenon
<1>3. CASE ~HasKey(peer)
  <2> DEFINE n == [peer EXCEPT !.ecdsa = 1, !.dirty = TRUE]
  <2>1. n \in Nodes /\ n.dirty
    BY <1>1, Zenon DEF Nodes
  <2>2. node_write_config(n, TRUE, {})
    BY <1>3, Zenon DEF learn_key
  <2> HIDE DEF n
  <2>3. Marked(n, {})
    BY <2>1, DirtyIsMarked, Zenon
  <2> QED
    BY <1>1, <2>2, <2>3, node_write_config_Keeps, Zenon
<1> QED
  BY <1>2, <1>3, Zenon

\* A canonical address that changes is in the history and leaves the rest alone.
LEMMA CanonicalMarked ==
    ASSUME peer \in Nodes, NEW a \in {0, 1, 2}
    PROVE  LET n == [peer EXCEPT !.canonical = a]
               changed == IF a = peer.canonical THEN {} ELSE {"canonical"}
           IN  Marked(n, changed) /\ KeyAlone(n)
<1> DEFINE n == [peer EXCEPT !.canonical = a]
           changed == IF a = peer.canonical THEN {} ELSE {"canonical"}
<1>1. n \in Nodes /\ n.dirty = peer.dirty /\ \A f \in Fields \ changed : n[f] = peer[f]
  BY Zenon DEF Nodes, Fields
<1>2. KeyAlone(n)
  BY NodeAssumption, Zenon DEF Nodes, KeyAlone
<1>3. Marked(n, changed)
  BY <1>1, NodeAssumption, Zenon DEF Marked, Fields
<1> QED
  BY <1>2, <1>3, Zenon

\* The three calls that change the canonical address.
LEMMA Canonical_Keeps ==
    ASSUME NodeInv, NEW a \in {1, 2},
           req_canonical(a) \/ meshlink_set_canonical_address(a) \/ meshlink_clear_canonical_address
    PROVE  NodeInv'
<1> USE DEF NodeInv
<1>1. /\ up /\ UNCHANGED <<policy, up, skipped>> /\ events' \in Nat /\ peer # NoNode
      /\ peer \in Nodes
  BY EventHappens, Zenon
     DEF req_canonical, meshlink_set_canonical_address, meshlink_clear_canonical_address, Known,
         NodeTypes
<1> DEFINE n(x) == [peer EXCEPT !.canonical = x]
           changed(x) == IF x = peer.canonical THEN {} ELSE {"canonical"}
<1>2. \A x \in {0, 1, 2} : Marked(n(x), changed(x)) /\ KeyAlone(n(x))
  BY <1>1, CanonicalMarked, Zenon
<1>3. \/ NotWritten(n(a), changed(a))
      \/ \E x \in {0, 1, 2} : node_write_config(n(x), FALSE, changed(x))
  BY Zenon DEF req_canonical, meshlink_set_canonical_address, meshlink_clear_canonical_address
<1> HIDE DEF n, changed
<1> QED
  BY <1>1, <1>2, <1>3, NotWritten_Keeps, node_write_config_Keeps, Zenon

\* An address is hinted or seen.
LEMMA Address_Keeps ==
    ASSUME NodeInv, NEW sa \in HostAddrs, meshlink_hint_address(sa) \/ address_seen(sa)
    PROVE  NodeInv'
<1> USE DEF NodeInv
<1> DEFINE n == node_add_recent_address(peer, sa)
<1>1. /\ up /\ UNCHANGED <<policy, up, skipped>> /\ events' \in Nat /\ peer # NoNode
      /\ peer \in Nodes
  BY EventHappens, Zenon DEF meshlink_hint_address, address_seen, Known, NodeTypes
<1>2. AddsAddress(n, peer)
  BY <1>1, AddressAdded, Zenon
<1>3. NotWritten(n, {}) \/ node_write_config(n, FALSE, {})
  BY Zenon DEF meshlink_hint_address, address_seen
<1> HIDE DEF n
<1>4. Marked(n, {}) /\ KeyAlone(n)
  BY <1>1, <1>2, PeerIsMarked, DirtyIsMarked, Zenon DEF AddsAddress, KeyAlone
<1> QED
  BY <1>1, <1>3, <1>4, NotWritten_Keeps, node_write_config_Keeps, Zenon

\* check_reachability marks the node, and writes it the first time.
LEMMA check_reachability_Keeps == ASSUME NodeInv, check_reachability PROVE NodeInv'
<1> USE DEF NodeInv
<1> DEFINE n == [peer EXCEPT !.reachable = ~@, !.dirty = TRUE]
<1>1. /\ up /\ UNCHANGED <<policy, up, skipped>> /\ events' \in Nat /\ Now \in Nat
      /\ peer # NoNode /\ peer \in Nodes
  BY EventHappens, Zenon DEF check_reachability, Known, NodeTypes
<1>2. /\ n \in Nodes /\ n.dirty /\ n.ecdsa = peer.ecdsa /\ n.blacklisted = peer.blacklisted
  BY <1>1, Zenon DEF Nodes
<1>3. \E x \in {n, [n EXCEPT !.last_unreachable = Now], [n EXCEPT !.last_reachable = Now]} :
         NotWritten(x, {}) \/ node_write_config(x, FALSE, {})
  BY Zenon DEF check_reachability
<1> HIDE DEF n
<1>4. \A x \in {n, [n EXCEPT !.last_unreachable = Now], [n EXCEPT !.last_reachable = Now]} :
         x \in Nodes /\ x.dirty /\ x.ecdsa = peer.ecdsa /\ x.blacklisted = peer.blacklisted
  BY <1>1, <1>2, ZenonT(30) DEF Nodes
<1>5. \A x \in {n, [n EXCEPT !.last_unreachable = Now], [n EXCEPT !.last_reachable = Now]} :
         Marked(x, {}) /\ KeyAlone(x)
  BY <1>1, <1>4, DirtyIsMarked, Zenon DEF KeyAlone
<1> QED
  BY <1>1, <1>3, <1>5, NotWritten_Keeps, node_write_config_Keeps, Zenon

\* blacklist changes the mark and perhaps last_unreachable, and no other field.
LEMMA blacklistMarked ==
    ASSUME NodeTypes, Now \in Nat, NEW n \in Nodes, NEW changed, Marked(n, changed),
           \/ changed = {} /\ n = peer /\ peer \in Nodes
           \/ changed = Fields
    PROVE  Marked([n EXCEPT !.blacklisted = TRUE, !.last_unreachable = IF n.reachable THEN Now ELSE @],
                  changed \cup {"blacklisted", "last_unreachable"})
<1> DEFINE x == [n EXCEPT !.blacklisted = TRUE, !.last_unreachable = IF n.reachable THEN Now ELSE @]
           c == changed \cup {"blacklisted", "last_unreachable"}
<1>1. x \in Nodes /\ x.dirty = n.dirty /\ \A f \in Fields \ {"blacklisted", "last_unreachable"} : x[f] = n[f]
  BY Zenon DEF Nodes, Fields
<1> HIDE DEF x
<1>2. CASE changed = Fields
  <2>1. c = Fields
    BY <1>2, Zenon DEF Fields
  <2> QED
    BY <1>1, <2>1, Zenon DEF Marked, x
<1>3. CASE changed = {} /\ n = peer /\ peer \in Nodes
  BY <1>1, <1>3, NodeAssumption, Zenon DEF Marked, x, Fields
<1> QED
  BY <1>2, <1>3, Zenon

\* meshlink_blacklist_by_name writes the node it changes.
LEMMA blacklist_Keeps == ASSUME NodeInv, meshlink_blacklist_by_name PROVE NodeInv'
<1> USE DEF NodeInv
<1>1. /\ up /\ UNCHANGED <<policy, up, skipped>> /\ events' \in Nat /\ Now \in Nat
  BY EventHappens, Zenon DEF meshlink_blacklist_by_name, meshlink_blacklist, Known
<1>2. PICK n \in Nodes, changed \in {{}, Fields} :
         /\ blacklist(n, changed) /\ Marked(n, changed) /\ KeyAlone(n)
         /\ changed = {} => n = peer /\ peer \in Nodes
  <2>1. CASE peer # NoNode
    <3>1. peer \in Nodes
      BY <2>1, Zenon DEF NodeTypes
    <3> QED
      BY <2>1, <3>1, PeerIsMarked, Zenon DEF meshlink_blacklist_by_name, meshlink_blacklist
  <2>2. CASE peer = NoNode
    <3>1. Marked(new_node, Fields) /\ KeyAlone(new_node)
      BY <2>2, NewNode, Zenon DEF Marked, KeyAlone
    <3>2. Fields # {}
      BY Zenon DEF Fields
    <3> QED
      BY <2>2, <3>1, <3>2, NewNode, Zenon DEF meshlink_blacklist_by_name
  <2> QED
    BY <2>1, <2>2, Zenon
<1>3. CASE n.blacklisted
  <2>1. NotWritten(n, changed)
    BY <1>2, <1>3, Zenon DEF blacklist
  <2> QED
    BY <1>1, <1>2, <2>1, NotWritten_Keeps, Zenon
<1>4. CASE ~(n.blacklisted)
  <2> DEFINE x == [n EXCEPT !.blacklisted = TRUE, !.last_unreachable = IF n.reachable THEN Now ELSE @]
             c == changed \cup {"blacklisted", "last_unreachable"}
  <2>1. node_write_config(x, TRUE, c)
    BY <1>2, <1>4, Zenon DEF blacklist
  <2>2. Marked(x, c)
    BY <1>1, <1>2, blacklistMarked, Zenon
  <2> HIDE DEF x, c
  <2> QED
    BY <1>1, <2>1, <2>2, node_write_config_Keeps, Zenon
<1> QED
  BY <1>3, <1>4, Zenon

\* whitelist changes the mark and perhaps last_reachable, and no other field.
LEMMA whitelistMarked ==
    ASSUME NodeTypes, Now \in Nat, NEW n \in Nodes, NEW changed, Marked(n, changed),
           \/ changed = {} /\ n = peer /\ peer \in Nodes
           \/ changed = Fields
    PROVE  Marked([n EXCEPT !.blacklisted = FALSE, !.last_reachable = IF n.reachable THEN Now ELSE @],
                  changed \cup {"blacklisted", "last_reachable"})
<1> DEFINE x == [n EXCEPT !.blacklisted = FALSE, !.last_reachable = IF n.reachable THEN Now ELSE @]
           c == changed \cup {"blacklisted", "last_reachable"}
<1>1. x \in Nodes /\ x.dirty = n.dirty /\ \A f \in Fields \ {"blacklisted", "last_reachable"} : x[f] = n[f]
  BY Zenon DEF Nodes, Fields
<1> HIDE DEF x
<1>2. CASE changed = Fields
  <2>1. c = Fields
    BY <1>2, Zenon DEF Fields
  <2> QED
    BY <1>1, <2>1, Zenon DEF Marked, x
<1>3. CASE changed = {} /\ n = peer /\ peer \in Nodes
  BY <1>1, <1>3, NodeAssumption, Zenon DEF Marked, x, Fields
<1> QED
  BY <1>2, <1>3, Zenon

\* meshlink_whitelist_by_name writes the node it changes.
LEMMA whitelist_Keeps == ASSUME NodeInv, meshlink_whitelist_by_name PROVE NodeInv'
<1> USE DEF NodeInv
<1>1. /\ up /\ UNCHANGED <<policy, up, skipped>> /\ events' \in Nat /\ Now \in Nat
  BY EventHappens, Zenon DEF meshlink_whitelist_by_name, meshlink_whitelist, Known
<1>2. PICK n \in Nodes, changed \in {{}, Fields} :
         /\ whitelist(n, changed) /\ Marked(n, changed) /\ KeyAlone(n)
         /\ changed = {} => n = peer /\ peer \in Nodes
  <2>1. CASE peer # NoNode
    <3>1. peer \in Nodes
      BY <2>1, Zenon DEF NodeTypes
    <3> QED
      BY <2>1, <3>1, PeerIsMarked, Zenon DEF meshlink_whitelist_by_name, meshlink_whitelist
  <2>2. CASE peer = NoNode
    <3>1. Marked(new_node, Fields) /\ KeyAlone(new_node)
      BY <2>2, NewNode, Zenon DEF Marked, KeyAlone
    <3>2. Fields # {}
      BY Zenon DEF Fields
    <3> QED
      BY <2>2, <3>1, <3>2, NewNode, Zenon DEF meshlink_whitelist_by_name
  <2> QED
    BY <2>1, <2>2, Zenon
<1>3. CASE ~n.blacklisted
  <2>1. NotWritten(n, changed)
    BY <1>2, <1>3, Zenon DEF whitelist
  <2> QED
    BY <1>1, <1>2, <2>1, NotWritten_Keeps, Zenon
<1>4. CASE ~(~n.blacklisted)
  <2> DEFINE x == [n EXCEPT !.blacklisted = FALSE, !.last_reachable = IF n.reachable THEN Now ELSE @]
             c == changed \cup {"blacklisted", "last_reachable"}
  <2>1. node_write_config(x, TRUE, c)
    BY <1>2, <1>4, Zenon DEF whitelist
  <2>2. Marked(x, c)
    BY <1>1, <1>2, whitelistMarked, Zenon
  <2> HIDE DEF x, c
  <2> QED
    BY <1>1, <2>1, <2>2, node_write_config_Keeps, Zenon
<1> QED
  BY <1>3, <1>4

\* Forgetting, the periodic write, a crash, and loading the files at the start.
LEMMA Others_Keep ==
    ASSUME NodeInv, meshlink_forget_node \/ write_dirty \/ ProcessEnds \/ config_scan_all
    PROVE  NodeInv'
<1> USE DEF NodeInv
<1>1. CASE meshlink_forget_node
  <2>1. /\ up /\ UNCHANGED <<policy, up, skipped>> /\ events' \in Nat
        /\ peer' = NoNode /\ file' = NoNode /\ unsaved' = {} /\ bad' = bad
    BY <1>1, EventHappens, Zenon DEF meshlink_forget_node, Known
  <2> QED
    BY <2>1, Zenon DEF NodeTypes, KeyMarked, CleanIsSaved, KeyIsSaved
<1>2. CASE write_dirty
  <2>1. /\ up /\ UNCHANGED <<policy, up, skipped, events>> /\ peer \in Nodes
        /\ node_write_config(peer, FALSE, {})
    BY <1>2, Zenon DEF write_dirty, NodeTypes
  <2> QED
    BY <2>1, PeerIsMarked, node_write_config_Keeps, Zenon DEF NodeTypes
<1>3. CASE ProcessEnds
  BY <1>3, Zenon DEF ProcessEnds, NodeTypes, KeyMarked, CleanIsSaved, KeyIsSaved
<1>4. CASE config_scan_all
  <2>1. up' = TRUE /\ unsaved' = {} /\ UNCHANGED <<policy, file, events, bad>>
    BY <1>4, Zenon DEF config_scan_all
  <2>2. load_node' = load_node
    BY <2>1, Zenon DEF load_node, node_get_config
  <2>3. KeyMarked'
    BY <2>1, Zenon DEF KeyMarked
  <2>4. CASE file = NoNode
    <3>1. load_node = NoNode
      BY <2>4, Zenon DEF load_node, node_get_config
    <3>2. peer' = NoNode
      BY <1>4, <3>1, Zenon DEF config_scan_all
    <3> QED
      BY <2>1, <2>3, <2>4, <3>2, Zenon DEF NodeTypes, CleanIsSaved, KeyIsSaved
  <2>5. CASE file # NoNode /\ peer' = NoNode
    <3>1. load_node # NoNode
      BY <2>5, FileLoads, Zenon DEF NodeTypes
    <3>2. skipped' = TRUE
      BY <1>4, <2>5, <3>1, Zenon DEF config_scan_all
    <3> QED
      BY <2>1, <2>3, <2>5, <3>2, Zenon DEF NodeTypes, CleanIsSaved, KeyIsSaved
  <2>6. CASE file # NoNode /\ peer' = load_node
    <3>1. load_node \in Nodes
      BY <2>6, FileLoads, Zenon DEF NodeTypes, LoadsAs
    <3>2. NodeTypes'
      BY <2>1, <2>6, <3>1, Zenon DEF NodeTypes
    <3> QED
      BY <2>1, <2>2, <2>3, <2>6, <3>1, <3>2, NodeAssumption, Zenon DEF CleanIsSaved, KeyIsSaved
  <2> QED
    BY <1>4, <2>4, <2>5, <2>6, Zenon DEF config_scan_all
<1> QED
  BY <1>1, <1>2, <1>3, <1>4, Zenon

\* The invariant holds before anything is known of the peer.
LEMMA NodeInvInit == NodeInit => NodeInv
<1> SUFFICES ASSUME NodeInit PROVE NodeInv
  BY Zenon
<1> QED
  BY Zenon DEF NodeInit, NodeInv, NodeTypes, KeyMarked, CleanIsSaved, KeyIsSaved

\* Every step keeps the invariant.
LEMMA NodeInvNext == NodeInv /\ [NodeNext]_confvars => NodeInv'
<1> SUFFICES ASSUME NodeInv, [NodeNext]_confvars PROVE NodeInv'
  BY Zenon
<1>1. CASE UNCHANGED confvars
  <2>1. UNCHANGED <<policy, up, peer, file, unsaved, skipped, events, bad>>
    BY <1>1, Zenon DEF confvars
  <2>2. load_node' = load_node
    BY <2>1, Zenon DEF load_node, node_get_config
  <2> QED
    BY <2>1, <2>2, Zenon DEF NodeInv, NodeTypes, KeyMarked, CleanIsSaved, KeyIsSaved
<1> QED
  BY <1>1, add_edge_h_Keeps, ack_h_Keeps, commit_invitation_Keeps, learn_key_Keeps, Canonical_Keeps,
     Address_Keeps, check_reachability_Keeps, blacklist_Keeps, whitelist_Keeps, Others_Keep, Zenon
     DEF NodeNext

\* What is not marked dirty is on disk and reads back, up to the changes that do not
\* mark it; the key and the blacklisting of a peer are on disk under every policy
\* that stores keys, unless a write failed or the file was not loaded.
THEOREM NodeIsRemembered == NodeSpec => []NodeRemembered
<1>1. NodeInv => NodeRemembered
  <2> SUFFICES ASSUME NodeInv, up, peer # NoNode PROVE NodeRemembered
    BY Zenon DEF NodeRemembered
  <2>1. file # NoNode => load_node # NoNode
    BY FileLoads, Zenon DEF NodeInv, NodeTypes
  <2> QED
    BY <2>1, Zenon DEF NodeInv, CleanIsSaved, KeyIsSaved, NodeRemembered
<1> QED
  BY <1>1, NodeInvInit, NodeInvNext, PTL DEF NodeSpec
=============================================================================
