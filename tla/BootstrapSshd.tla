---------------------------- MODULE BootstrapSshd ----------------------------
(***************************************************************************)
(* The first boot of a node: cloud-init runs one shell chain that publishes *)
(* the SSH fragments 10, 20, 50 and 60 with the ownership helper, has sshd *)
(* check them, moves the socket and the service to them and only then      *)
(* touches the completion marker.  A chain that is killed starts again at  *)
(* the next boot, over whatever the killed one left on disk.               *)
(***************************************************************************)
EXTENDS Integers, Sequences, FiniteSets

CONSTANTS MaxBoots,     \* boots of the node
          MaxFaults     \* failing system calls and commands

BootstrapAssumption == MaxBoots \in Nat \ {0} /\ MaxFaults \in Nat

VARIABLES file,      \* fragment -> what it holds
          residue,   \* fragments with a private temporary file left over
          pc,        \* step of the chain
          snap,      \* fragments as the helper read them
          todo,      \* fragments still to publish
          attempted, \* fragments the rollback has to restore, oldest first
          torn,      \* the rollback of this boot failed
          unit,      \* socket and service as systemd runs them
          marker,    \* /var/lib/cloud-init-vpn-bootstrap.done
          ran,       \* cloud-init will not run the script again
          boots, faults

guest == <<file, residue, pc, snap, todo, attempted, torn, unit, marker, ran, boots, faults>>

(* The names of TARGETS, in the order in which sshd reads and the helper   *)
(* publishes them.                                                         *)
Targets == <<"10", "20", "50", "60">>
Names == {Targets[i] : i \in 1 .. Len(Targets)}

Contents == {"absent", "ours", "owned", "comment", "foreign", "unsafe"}

(* What sshd computes from the fragments: the first one that sets an       *)
(* option decides it.  The packaged main file sets none of them.           *)
Effective(f) == [port |-> IF f["10"] = "ours" THEN "configured" ELSE "default",
                 password |-> \/ f["10"] = "foreign"
                              \/ /\ f["10"] # "ours"
                                 /\ f["50"] # "owned"
                                 /\ f["60"] # "ours",
                 x11 |-> f["20"] # "ours"]

Hard == [port |-> "configured", password |-> FALSE, x11 |-> FALSE]
Off == [port |-> "none", password |-> FALSE, x11 |-> FALSE]

(* A fragment with another owner, links or a wider mode is not read.       *)
Readable(f) == \A n \in Names : f[n] # "unsafe"

(* What each fragment may already hold.                                    *)
ValidExisting(f) == /\ \A n \in {"10", "20", "60"} : f[n] \in {"absent", "ours"}
                    /\ f["50"] \in {"absent", "owned", "comment"}

(* What the helper publishes; "absent" removes the fragment.               *)
Candidate(n, f) ==
    CASE n \in {"10", "20"} -> "ours"
      [] n = "50" -> IF f["50"] = "absent" THEN "absent" ELSE "comment"
      [] n = "60" -> "absent"

Changed(f) == SelectSeq(Targets, LAMBDA n : Candidate(n, f) # f[n])

(* What the image and the earlier stages of cloud-init leave behind.       *)
Images == [Names -> Contents]
FirstBoot(f) == /\ f["10"] = "absent"
                /\ f["20"] \in {"absent", "foreign"}
                /\ f["50"] \in {"absent", "owned", "foreign"}
                /\ f["60"] \in {"absent", "ours", "unsafe"}

(* systemd at boot: the socket generator and the service read the disk.    *)
Booted(u) == [u EXCEPT !.gen = Effective(file).port,
                       !.port = IF u.socket THEN Effective(file).port ELSE "none",
                       !.service = IF u.enabled \/ ~u.socket THEN Effective(file) ELSE Off]

GuestInit ==
    /\ file \in {f \in Images : FirstBoot(f)}
    /\ residue = {} /\ pc = "off" /\ snap = file
    /\ todo = <<>> /\ attempted = <<>> /\ torn = FALSE
    /\ unit \in {[socket |-> s, gen |-> "default", port |-> "none",
                  enabled |-> FALSE, service |-> Off] : s \in BOOLEAN}
    /\ marker = FALSE /\ ran = FALSE /\ boots = 0 /\ faults = 0

Disk == <<file, residue>>
Helper == <<snap, todo, attempted, torn>>
Node == <<unit, marker, ran, boots>>

Boot ==
    /\ pc = "off" /\ boots < MaxBoots
    /\ boots' = boots + 1
    /\ unit' = Booted(unit)
    /\ pc' = IF ran THEN "done" ELSE "begin"
    /\ torn' = FALSE
    /\ UNCHANGED <<Disk, snap, todo, attempted, marker, ran, faults>>

(* test -f marker || { ...                                                 *)
Begin ==
    /\ pc = "begin"
    /\ IF marker THEN pc' = "done" /\ ran' = TRUE
                 ELSE pc' = "normalize" /\ ran' = ran
    /\ UNCHANGED <<Disk, Helper, unit, marker, boots, faults>>

(* normalize: every fragment is read and judged before anything changes.   *)
Snapshot ==
    /\ pc = "normalize"
    /\ snap' = file
    /\ attempted' = <<>>
    /\ IF Readable(file) /\ ValidExisting(file)
         THEN pc' = "clean" /\ todo' = Changed(file) /\ ran' = ran
         ELSE pc' = "failed" /\ todo' = <<>> /\ ran' \in BOOLEAN
    /\ UNCHANGED <<Disk, torn, unit, marker, boots, faults>>

CleanResidues == {}

Clean ==
    /\ pc = "clean"
    /\ residue' = CleanResidues
    /\ pc' = "publish"
    /\ UNCHANGED <<file, Helper, Node, faults>>

(* _cleanup_residues fails before anything was published: no rollback.     *)
CleanFails ==
    /\ pc = "clean" /\ faults < MaxFaults
    /\ faults' = faults + 1
    /\ residue' \in {residue, CleanResidues}
    /\ pc' = "failed" /\ ran' \in BOOLEAN
    /\ UNCHANGED <<file, Helper, unit, marker, boots>>

(* _write_atomic up to the fsync of the temporary file.                    *)
WriteTemporary ==
    /\ pc = "publish" /\ todo # <<>> /\ Candidate(Head(todo), snap) # "absent"
    /\ attempted' = Append(attempted, Head(todo))
    /\ residue' = residue \cup {Head(todo)}
    /\ pc' = "written"
    /\ UNCHANGED <<file, snap, todo, torn, Node, faults>>

Replace ==
    /\ pc = "written"
    /\ file' = [file EXCEPT ![Head(todo)] = Candidate(Head(todo), snap)]
    /\ residue' = residue \ {Head(todo)}
    /\ pc' = "replaced"
    /\ UNCHANGED <<Helper, Node, faults>>

(* The directory is synced: the boundary at which the acceptance stops.    *)
Synced ==
    /\ pc = "replaced"
    /\ todo' = Tail(todo)
    /\ pc' = "publish"
    /\ UNCHANGED <<Disk, snap, attempted, torn, Node, faults>>

Remove ==
    /\ pc = "publish" /\ todo # <<>> /\ Candidate(Head(todo), snap) = "absent"
    /\ attempted' = Append(attempted, Head(todo))
    /\ file' = [file EXCEPT ![Head(todo)] = "absent"]
    /\ pc' = "replaced"
    /\ UNCHANGED <<residue, snap, todo, torn, Node, faults>>

(* sshd -T over the published fragments; it may also fail or hang.         *)
AssertEffective ==
    /\ pc = "publish" /\ todo = <<>>
    /\ pc' = IF Effective(file) = Hard THEN "sshd" ELSE "restore"
    /\ UNCHANGED <<Disk, Helper, Node, faults>>

(* An error of publication or of sshd -T starts the rollback.              *)
PublishFails ==
    /\ pc \in {"publish", "written", "replaced"} /\ faults < MaxFaults
    /\ faults' = faults + 1
    /\ residue' = IF pc = "written" THEN residue \ {Head(todo)} ELSE residue
    /\ pc' = "restore"
    /\ UNCHANGED <<file, Helper, Node>>

Restored(f, n) == [f EXCEPT ![n] = snap[n]]

(* _restore, newest first.                                                 *)
Restore ==
    /\ pc = "restore"
    /\ IF attempted = <<>>
         THEN /\ pc' = "failed" /\ ran' \in BOOLEAN
              /\ UNCHANGED <<file, attempted>>
         ELSE /\ file' = Restored(file, attempted[Len(attempted)])
              /\ attempted' = SubSeq(attempted, 1, Len(attempted) - 1)
              /\ UNCHANGED <<pc, ran>>
    /\ UNCHANGED <<residue, snap, todo, torn, unit, marker, boots, faults>>

RestoreFails ==
    /\ pc = "restore" /\ faults < MaxFaults
    /\ faults' = faults + 1 /\ torn' = TRUE
    /\ pc' = "failed" /\ ran' \in BOOLEAN
    /\ UNCHANGED <<Disk, snap, todo, attempted, unit, marker, boots>>

(* ... && sshd -t && systemctl daemon-reload                               *)
SshdTest ==
    /\ pc = "sshd"
    /\ pc' = "reload"
    /\ UNCHANGED <<Disk, Helper, Node, faults>>

DaemonReload ==
    /\ pc = "reload"
    /\ unit' = [unit EXCEPT !.gen = Effective(file).port]
    /\ pc' = "socket"
    /\ UNCHANGED <<Disk, Helper, marker, ran, boots, faults>>

SocketRestarted(u) == [u EXCEPT !.port = u.gen, !.service = Effective(file)]

(* { ! is-active ssh.socket || { restart ssh.socket && restart ssh; }; }   *)
RestartSocket ==
    /\ pc = "socket"
    /\ unit' = IF unit.socket THEN SocketRestarted(unit) ELSE unit
    /\ pc' = "enable"
    /\ UNCHANGED <<Disk, Helper, marker, ran, boots, faults>>

(* systemctl enable --now ssh: a running service is not touched.           *)
EnableNow ==
    /\ pc = "enable"
    /\ unit' = [unit EXCEPT !.enabled = TRUE,
                            !.service = IF @ = Off THEN Effective(file) ELSE @]
    /\ pc' = "ssh"
    /\ UNCHANGED <<Disk, Helper, marker, ran, boots, faults>>

ReloadSsh ==
    /\ pc = "ssh"
    /\ unit' = [unit EXCEPT !.service = Effective(file)]
    /\ pc' = "touch"
    /\ UNCHANGED <<Disk, Helper, marker, ran, boots, faults>>

Touch ==
    /\ pc = "touch"
    /\ marker' = TRUE
    /\ pc' = "touched"
    /\ UNCHANGED <<Disk, Helper, unit, ran, boots, faults>>

(* cloud-init records that the script ran.                                 *)
ScriptsRan ==
    /\ pc = "touched"
    /\ ran' = TRUE /\ pc' = "done"
    /\ UNCHANGED <<Disk, Helper, unit, marker, boots, faults>>

Chain == {"sshd", "reload", "socket", "enable", "ssh", "touch"}

ChainFails ==
    /\ pc \in Chain /\ faults < MaxFaults
    /\ faults' = faults + 1
    /\ pc' = "failed" /\ ran' \in BOOLEAN
    /\ UNCHANGED <<Disk, Helper, unit, marker, boots>>

(* The node goes down.  A restore that was under way may leave its         *)
(* temporary file behind.                                                  *)
GoesDown ==
    /\ pc' = "off"
    /\ \/ residue' = residue
       \/ /\ pc = "restore" /\ attempted # <<>>
          /\ snap[attempted[Len(attempted)]] # "absent"
          /\ residue' = residue \cup {attempted[Len(attempted)]}
    /\ UNCHANGED <<file, Helper, Node, faults>>

PowerCycle == pc # "off" /\ boots < MaxBoots /\ GoesDown

GuestSteps ==
    \/ Begin \/ Snapshot \/ Clean \/ WriteTemporary \/ Replace \/ Synced \/ Remove
    \/ AssertEffective \/ Restore \/ SshdTest \/ DaemonReload \/ RestartSocket
    \/ EnableNow \/ ReloadSsh \/ Touch \/ ScriptsRan

GuestFaults == CleanFails \/ PublishFails \/ RestoreFails \/ ChainFails

GuestNext == Boot \/ GuestSteps \/ GuestFaults \/ PowerCycle

GuestSpec == GuestInit /\ [][GuestNext]_guest

-----------------------------------------------------------------------------

(* Types; a node carries at most one temporary file of the helper, far     *)
(* below the number at which the helper refuses to run.                    *)
TypeOK ==
    /\ file \in Images
    /\ residue \subseteq Names /\ Cardinality(residue) <= 1
    /\ snap \in Images
    /\ \A i \in 1 .. Len(todo) : todo[i] \in Names
    /\ \A i \in 1 .. Len(attempted) : attempted[i] \in Names
    /\ marker \in BOOLEAN /\ ran \in BOOLEAN /\ torn \in BOOLEAN
    /\ boots \in 0 .. MaxBoots /\ faults \in 0 .. MaxFaults

(* When the fragments a boot found refuse password logins, no step of its  *)
(* publication or rollback, wherever it is cut off, allows them: fragment  *)
(* 10 is in place before 50 and 60 lose their directive, and goes last in  *)
(* the rollback.                                                           *)
NeverOpens == ~Effective(snap).password => ~Effective(file).password

(* The marker stands for a node whose fragments are complete and whose     *)
(* listener really moved: the service runs the hardened policy and a       *)
(* socket-activated node listens on the configured port.                   *)
MarkerServes ==
    marker /\ pc # "off" =>
        /\ Effective(file) = Hard /\ residue = {}
        /\ unit.service = Hard /\ unit.enabled
        /\ unit.socket => unit.port = "configured"

(* A refused chain leaves the fragments as the boot found them, unless the *)
(* rollback itself failed or sshd had already accepted the new layout.     *)
RefusedExactly ==
    pc = "failed" /\ ~torn /\ Effective(file) # Hard => file = snap

(* A fragment that belongs to somebody else is never touched.              *)
ForeignKept ==
    \A n \in Names : file[n] \in {"foreign", "unsafe"} => file'[n] = file[n]

=============================================================================
