------------------------------- MODULE MCNode -------------------------------
(***************************************************************************)
(* What goes on inside one node.  What it keeps on disk, under crashes:    *)
(* its configuration (ConfStore, two storage keys, two updates, two        *)
(* rotations, two crashes and one fsync that fails), its invitations       *)
(* (Invitation: two of them for the same name, two devices) and what it    *)
(* knows of a peer (NodeConfig: three addresses, two of which are kept,    *)
(* four events and a write that fails).  And a channel, with its callbacks *)
(* (ChannelAio: three buffers over a send buffer of two bytes).  A         *)
(* behaviour exercises one of them.                                        *)
(***************************************************************************)
EXTENDS ConfStore, Invitation, NodeConfig, ChannelAio

VARIABLE part

SameName == [i \in Invitations |-> "foo"]

OneKey == keys = <<CHOOSE k \in Keys : TRUE>>

MCInit ==
    /\ Init /\ InvitationInit /\ NodeInit /\ ChannelInit
    /\ \/ part = "config" /\ ~commitsFirst /\ policy = "enabled" /\ stack = <<>>
       \/ part = "invitation" /\ ~newFirst /\ OneKey /\ policy = "enabled" /\ stack = <<>>
       \/ part = "node" /\ ~newFirst /\ OneKey /\ ~commitsFirst /\ stack = <<>>
       \/ part = "channel" /\ ~newFirst /\ OneKey /\ ~commitsFirst /\ policy = "enabled"

ConfigStep == part = "config" /\ Next /\ UNCHANGED <<part, joinvars, confvars, channelvars>>
InvitationStep == part = "invitation" /\ InvitationNext /\ UNCHANGED <<part, vars, confvars, channelvars>>
NodeStep == part = "node" /\ NodeNext /\ UNCHANGED <<part, vars, joinvars, channelvars>>
ChannelStep == part = "channel" /\ ChannelNext /\ UNCHANGED <<part, vars, joinvars, confvars>>

MCNext == ConfigStep \/ InvitationStep \/ NodeStep \/ ChannelStep

MCSpec == MCInit /\ [][MCNext]_<<vars, part, joinvars, confvars, channelvars>>
=============================================================================
