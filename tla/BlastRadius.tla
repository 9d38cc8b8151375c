----------------------------- MODULE BlastRadius -----------------------------
(***************************************************************************)
(* sf_blast.classify: what a mission could reach, destroy, carry out or    *)
(* leave behind, derived from its ceiling and from what one traversal saw. *)
(*                                                                         *)
(* A world says what there is, including what the traversal does not get   *)
(* to: a thing is in sight or hidden, in the part of a tree that was not   *)
(* enumerated.  The findings of the classifier use what is in sight only;  *)
(* Really is what the world makes possible, by the classifier's own notion *)
(* of the four questions.  Of a finding, its axis and level are kept.      *)
(***************************************************************************)
EXTENDS Naturals, FiniteSets, FiniteSetsExt

VARIABLES
  world,    \* what there is
  levels    \* the level of each axis, once it was classified

blVars == <<world, levels>>

Dimensions == {"reachable", "destructible", "exfiltratable", "durable"}

\* LEVELS, by their place on the ladder: what was not seen outranks all.
NONE == 0
CONTAINED == 1
BOUNDED == 2
BROAD == 3
UNKNOWN == 4

-----------------------------------------------------------------------------
(* Worlds.                                                                 *)

\* The fields of the resolved SandboxSpec, and whether the mission's test
\* command is predictable from its argv.
Ceilings == [writable : BOOLEAN, network : {"none", "listed", "open"},
             account : BOOLEAN, credentials : BOOLEAN, test : BOOLEAN]

\* How a traversal ends.  "gone" is a root that cannot be examined.
Walks == {"whole", "truncated", "partly", "gone"}

\* Where a repository is: in sight, hidden, hidden behind a harmless one that
\* is in sight, or past the number of repositories that are read.  It runs a
\* program of its own by a hook, a key, or a file that it includes.  Its remote
\* has the scheme of the network or a user ("wire") or is an address without
\* either, like host:path; is a path in a mounted tree, given from the root or
\* not, or elsewhere; or runs a command.
Repositories ==
  [place : {"seen", "hidden", "behind", "over"},
   shape : {"inside", "external", "garbled"},
   config : {"read", "unread", "conditional"},
   remote : {"none", "wire", "host", "mounted", "relative", "unmounted", "command"},
   runs : BOOLEAN,
   hooks : {"read", "unread"}]

NoRepo == [place |-> "none", shape |-> "inside", config |-> "read",
           remote |-> "none", runs |-> FALSE, hooks |-> "read"]

Ungranted == [walk |-> "none", socket |-> "none"]
GrantShapes == {Ungranted} \cup [walk : Walks, socket : {"none", "seen", "hidden"}]

\* A masked file or directory; where another name of its content is, if only
\* outside of all that is mounted.
Masks == [kind : {"none", "absent", "unexaminable", "file", "directory", "partly"},
          second : {"none", "workspace", "hidden", "grant", "hiddengrant", "outside"}]
NoMask == [kind |-> "none", second |-> "none"]

\* Something is hidden only in a tree that was not enumerated to its end, and
\* nothing is in sight in one that could not be examined.
Sound(w) ==
  /\ ({w.socket, w.repo.place, w.mask.second} \cap {"hidden", "behind"} # {}
        => w.walk # "whole")
  /\ (w.walk = "gone" => w.socket # "seen" /\ w.repo.place \in {"none", "hidden"}
                         /\ w.mask.second # "workspace")
  /\ (w.grant.socket = "hidden" => w.grant.walk # "whole")
  /\ (w.grant.socket = "seen" => w.grant.walk # "gone")
  /\ (w.mask.second = "grant" => w.grant.walk \notin {"none", "gone"})
  /\ (w.mask.second = "hiddengrant" => w.grant.walk \in {"truncated", "partly", "gone"})
  /\ (w.mask.kind \in {"none", "absent"} => w.mask.second = "none")
  /\ (w.repo.place # "seen" \/ w.repo.shape = "garbled"
        => w.repo.config = "read" /\ w.repo.hooks = "read")

\* Sockets, repositories, and grants with masks do not meet: a remote that is
\* a path is in a mounted tree or it is not.  Nor do repositories or masks and
\* a writable workspace, or repositories and credentials.
Worlds ==
  LET W(ceilings, sockets, repos, grants, masks) ==
        [ceiling : ceilings, walk : Walks, socket : sockets, repo : repos,
         grant : grants, mask : masks]
      fixed == {c \in Ceilings : ~c.writable}
      bare == {c \in fixed : ~c.credentials}
  IN {w \in W(Ceilings, {"none", "seen", "hidden"}, {NoRepo}, {Ungranted}, {NoMask})
              \cup W(bare, {"none"}, Repositories, {Ungranted}, {NoMask})
              \cup W(fixed, {"none"}, {NoRepo}, GrantShapes, Masks) : Sound(w)}

-----------------------------------------------------------------------------
(* Findings: sets of an axis with a level.                                 *)

\* _unseen: a reading that did not complete is said on all these axes.
Unseen(complete, axes) == IF complete THEN {} ELSE axes \X {UNKNOWN}

\* _reassure: the comfortable row, or UNKNOWN in its place.
Reassure(complete, axis, level) == {<<axis, IF complete THEN level ELSE UNKNOWN>>}

\* _socket_findings
SocketFindings == {"exfiltratable", "reachable"} \X {UNKNOWN}

TreeRead(w) == w.walk = "whole"

\* The reading that a mask's row rests on: every name was enumerated.
HardlinksRead(w) == TreeRead(w) /\ w.grant.walk \in {"none", "whole"}

WorkspaceFindings(w) ==
  IF w.walk = "gone" THEN Unseen(FALSE, {"reachable", "destructible", "durable"})
  ELSE Unseen(TreeRead(w), {"reachable"})
       \cup Reassure(TRUE, "reachable", CONTAINED)
       \cup (IF w.socket = "seen" THEN SocketFindings ELSE {})
       \cup (IF w.ceiling.writable
             THEN {"destructible", "durable"} \X {CONTAINED}
             ELSE Reassure(TRUE, "destructible", NONE))

GrantFindings(w) ==
  CASE w.grant.walk = "none" -> {}
    [] w.grant.walk = "gone" -> Unseen(FALSE, {"reachable"})
    [] OTHER -> {<<"reachable", BOUNDED>>}
                \cup (IF w.grant.socket = "seen" THEN SocketFindings ELSE {})
                \cup Unseen(w.grant.walk # "truncated", {"reachable"})

\* _mask_findings.  A file has its number of names in its inode; a directory's
\* files are compared with what the traversals saw; what cannot be examined
\* counts as absent.
MaskFindings(w) ==
  LET met == w.mask.second \in {"workspace", "grant"} IN
  CASE w.mask.kind = "none" -> {}
    [] w.mask.kind \in {"absent", "unexaminable"} -> Reassure(TRUE, "reachable", CONTAINED)
    [] w.mask.kind = "file" -> Reassure(w.mask.second = "none", "reachable", CONTAINED)
    [] w.mask.kind = "directory" ->
         Reassure(HardlinksRead(w) /\ ~met, "reachable", CONTAINED)
    [] w.mask.kind = "partly" -> Reassure(FALSE, "reachable", CONTAINED)

AccountFindings(w) ==
  IF w.ceiling.account
  THEN ({"reachable", "destructible", "durable"}
         \cup IF w.ceiling.network = "none" THEN {} ELSE {"exfiltratable"}) \X {BOUNDED}
  ELSE {}

NetworkFindings(w) ==
  CASE w.ceiling.network = "none" -> Reassure(TRUE, "exfiltratable", NONE)
    [] w.ceiling.network = "listed" ->
         {<<"reachable", BOUNDED>>, <<"exfiltratable", BROAD>>, <<"durable", BOUNDED>>}
    [] w.ceiling.network = "open" ->
         {<<"reachable", BROAD>>, <<"exfiltratable", BROAD>>, <<"durable", UNKNOWN>>}

CredentialFindings(w) ==
  IF w.ceiling.credentials
  THEN ({"reachable"} \cup IF w.ceiling.network = "none" /\ ~w.ceiling.account
                           THEN {} ELSE {"exfiltratable"}) \X {BOUNDED}
  ELSE {}

\* _remote_reachability: an address that it does not know for one is a path,
\* and a path that does not begin at the root is not mounted.
Channel(w) ==
  \/ w.repo.remote \in {"mounted", "command"}
  \/ w.repo.remote = "wire" /\ w.ceiling.network # "none"

\* One repository that is read.  What a conditional include would add is not
\* in what git answers.
RepoFindings(w) ==
  LET r == w.repo
      complete == r.config = "read"
      remote == IF complete THEN r.remote ELSE "none" IN
  (IF r.shape = "external" THEN {"durable", "reachable"} \X {UNKNOWN} ELSE {})
  \cup Unseen(complete, Dimensions)
  \cup IF r.config = "unread" THEN {}
       ELSE (IF remote = "none" \/ ~Channel(w) THEN Reassure(complete, "durable", CONTAINED)
             ELSE {"durable", "exfiltratable", "destructible"} \X {UNKNOWN})
            \cup (IF remote = "command" THEN {<<"reachable", UNKNOWN>>} ELSE {})
            \cup (IF r.runs THEN {<<"durable", BOUNDED>>} ELSE {})
            \cup Unseen(r.hooks # "unread", {"durable"})

\* variant: the search's failure is said only where nothing was found
SilentGitFindings(w) ==
  CASE w.repo.place \in {"none", "hidden"} -> Reassure(TreeRead(w), "durable", CONTAINED)
    [] w.repo.place = "behind" -> Reassure(TRUE, "durable", CONTAINED)
    [] OTHER -> RepoFindings(w)

GitFindings(w) ==
  Unseen(TreeRead(w), {"durable"})
  \cup CASE w.repo.place \in {"none", "hidden"} -> Reassure(TreeRead(w), "durable", CONTAINED)
         [] w.repo.place = "behind" -> Reassure(TRUE, "durable", CONTAINED)
         [] OTHER -> IF w.repo.place = "over" \/ w.repo.shape = "garbled"
                       THEN Unseen(FALSE, {"durable"}) ELSE RepoFindings(w)

\* _test_findings: an unpredictable command makes what is open unknown.
TestFindings(w, found) ==
  LET open == {f[1] : f \in {g \in found : g[2] > CONTAINED}} \ {"reachable"} IN
  IF w.ceiling.test THEN {}
  ELSE IF open = {} THEN Reassure(TreeRead(w) /\ HardlinksRead(w), "destructible", CONTAINED)
  ELSE open \X {UNKNOWN}

Findings(w) ==
  LET found == WorkspaceFindings(w) \cup GrantFindings(w) \cup MaskFindings(w)
                 \cup AccountFindings(w) \cup NetworkFindings(w)
                 \cup CredentialFindings(w) \cup GitFindings(w)
  IN found \cup TestFindings(w, found)

Level(found, d) == Max({f[2] : f \in {g \in found : g[1] = d}} \cup {NONE})

-----------------------------------------------------------------------------
Unclassified == [d \in Dimensions |-> UNKNOWN + 1]

BlTypeOK == levels \in [Dimensions -> NONE..UNKNOWN] \cup {Unclassified}

BlInit == world \in Worlds /\ levels = Unclassified

Classify ==
  /\ levels = Unclassified
  /\ levels' = LET found == Findings(world) IN [d \in Dimensions |-> Level(found, d)]
  /\ UNCHANGED world

BlNext == Classify

BlSpec == BlInit /\ [][BlNext]_blVars

-----------------------------------------------------------------------------
(* What the world makes possible.                                          *)

\* Where git connects to: an address needs a network, a path has to be mounted.
Misread(w) ==
  \/ w.repo.remote = "host" /\ w.ceiling.network # "none"
  \/ w.repo.remote = "relative"

Really(w, d) ==
  LET repo == w.repo.place # "none"
      push == repo /\ (Channel(w) \/ Misread(w))
      socket == {w.socket, w.grant.socket} # {"none"}
      network == w.ceiling.network # "none" IN
  CASE d = "reachable" ->
         \/ socket \/ network \/ w.ceiling.account \/ w.ceiling.credentials
         \/ w.grant.walk # "none" \/ w.mask.second \notin {"none", "outside"}
         \/ repo /\ (w.repo.shape = "external" \/ w.repo.remote = "command")
    [] d = "destructible" -> w.ceiling.account \/ push
    [] d = "exfiltratable" ->
         socket \/ network \/ push \/ (w.ceiling.credentials /\ w.ceiling.account)
    [] d = "durable" ->
         \/ network \/ w.ceiling.account \/ push
         \/ repo /\ (w.repo.shape = "external" \/ w.repo.runs)

\* Everything that a row could rest on was read to its end; where the other
\* names of a masked file are, its inode does not say.
AllRead(w) ==
  /\ HardlinksRead(w)
  /\ ~(w.mask.kind = "file" /\ w.mask.second = "outside")
  /\ w.mask.kind \notin {"partly", "unexaminable"}
  /\ w.repo.place \in {"none", "seen"} /\ w.repo.shape # "garbled"
  /\ w.repo.config = "read" /\ w.repo.hooks # "unread"

\* Where the code reassures without having looked: what a hidden socket or
\* repository carries out or destroys, a repository past the budget or whose
\* .git file is garbled, a mask that cannot be examined, what a push changes
\* through a remote that was taken for a path or for one outside.
Overlooked(w, d) ==
  \/ d \in {"exfiltratable", "destructible"} /\ ~HardlinksRead(w)
  \/ d # "durable" /\ w.repo.place = "over"
  \/ d # "durable" /\ w.repo.shape = "garbled"
  \/ d = "reachable" /\ w.mask.kind = "unexaminable"
  \/ d # "reachable" /\ Misread(w)

\* An axis that is called contained is contained in the world, and where all
\* was read a contained one is called so: the two sides of the docstring's
\* rules, that unknown is not safe and that noise is a failure (sf_blast.py:35-47).
ContainedIsTrue ==
  levels # Unclassified => \A d \in Dimensions :
    /\ levels[d] <= CONTAINED /\ Really(world, d) => Overlooked(world, d)
    /\ AllRead(world) /\ ~Really(world, d) => levels[d] <= CONTAINED
=============================================================================
