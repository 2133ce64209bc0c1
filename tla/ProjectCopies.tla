------------------------------- MODULE ProjectCopies -------------------------------
(***************************************************************************)
(* Copies of projects (app/services/example_copies.py) and the trash that  *)
(* projects go to (app/services/projects.py), while the projects go on:    *)
(* snapshots are added, canvases edited, changes proposed and decided,     *)
(* each in one step (SnapshotGovernance has their interleavings).          *)
(*                                                                         *)
(* A copy reads table after table, each in a moment of its own, until it   *)
(* inserts the first row; from there on it holds the write lock.           *)
(***************************************************************************)
EXTENDS Naturals, Sequences, FiniteSets

CONSTANTS
    Copiers,           \* threads that copy projects
    MaxProjects,       \* bound: projects, copies included
    MaxVersions,       \* bound: snapshots of a project
    MaxEdits,          \* bound: edits of a project's canvas
    MaxProposals       \* bound: proposals of a project

ASSUME CopyBounds ==
    /\ MaxProjects \in Nat \ {0} /\ MaxVersions \in Nat
    /\ MaxEdits \in Nat /\ MaxProposals \in Nat

VARIABLES
    projects,          \* projects with their snapshots, claims, proposals and canvas
    copiers,           \* what each thread that copies has read
    purging            \* projects that a purge has read and is about to delete

copyVars == <<projects, copiers, purging>>

-------------------------------------------------------------------------------
(* Rows *)

\* A proposal: the snapshot it starts from, and the canvas edit it reconciles with that
\* snapshot; 0 when it changes a claim.
Proposal == Nat \X Nat

Project == [status  : {"example", "active", "trashed", "purged"},
            current : Nat,             \* version of current_snapshot_id; 0: none
            last    : Nat,             \* its snapshots are 1 .. last
            claims  : Nat,             \* how often claims were added
            proposals : SUBSET Proposal,
            open    : SUBSET Proposal, \* those nobody has decided
            shows   : Nat,             \* the snapshot its canvas was written from;
                                       \* 0: none, or it was edited since
            edits   : Nat,             \* how often its canvas was edited
            kept    : BOOLEAN,         \* it has rows that a purge does not know of
            parent  : Nat,             \* project_relations; 0: no relation
            torn    : BOOLEAN]         \* history: its parent changed while it was copied,
                                       \* or was torn itself

Copier == [op       : {"idle", "claims", "snapshots", "proposals", "write"},
           project  : Nat,
           current  : Nat,
           last     : Nat,
           claims   : Nat,
           proposals : SUBSET Proposal,
           open     : SUBSET Proposal,
           resolved : BOOLEAN,         \* every reference read so far is to a row read
           torn     : BOOLEAN]         \* history: the project has changed since

NoCopier == [op |-> "idle", project |-> 0, current |-> 0, last |-> 0, claims |-> 0,
             proposals |-> {}, open |-> {}, resolved |-> TRUE, torn |-> FALSE]

EmptyProject(status) ==
    [status |-> status, current |-> 0, last |-> 0, claims |-> 0, proposals |-> {},
     open |-> {}, shows |-> 0, edits |-> 0, kept |-> FALSE, parent |-> 0, torn |-> FALSE]

CopyTypeOK ==
    /\ projects \in Seq(Project) /\ Len(projects) <= MaxProjects
    /\ copiers \in [Copiers -> Copier]
    /\ purging \subseteq DOMAIN projects

CopyInit ==
    /\ \E status \in {"example", "active"} : projects = <<EmptyProject(status)>>
    /\ copiers = [t \in Copiers |-> NoCopier]
    /\ purging = {}

Ids    == DOMAIN projects
Exists(p) == p \in Ids /\ projects[p].status # "purged"

\* Copies in the making of a project that changes are torn.
Tears(p) ==
    copiers' = [t \in Copiers |->
        IF copiers[t].project = p THEN [copiers[t] EXCEPT !.torn = TRUE] ELSE copiers[t]]

CopierIs(t, copier) == copiers' = [copiers EXCEPT ![t] = copier]

-------------------------------------------------------------------------------
(* What happens to a project *)

\* The next snapshot, written from the solution confirmed or the proposal accepted, and
\* the canvas from it; UNIQUE(project_id, version) refuses a version there is.
Replaces(p, claims, open) ==
    LET old == projects[p] IN
    /\ old.last < MaxVersions /\ old.current + 1 > old.last
    /\ projects' = [projects EXCEPT
         ![p] = [old EXCEPT !.current = old.current + 1, !.last = old.current + 1,
                   !.claims = claims, !.open = open, !.shows = old.current + 1]]
    /\ Tears(p)
    /\ UNCHANGED purging

ConfirmFirst(p) ==
    /\ Exists(p) /\ projects[p].current = 0
    /\ Replaces(p, projects[p].claims + 1, projects[p].open)

\* Other proposals against the old snapshot stay open.
Accept(p, proposal) ==
    /\ Exists(p) /\ proposal \in projects[p].open /\ proposal[1] = projects[p].current
    /\ \E claims \in {projects[p].claims, projects[p].claims + 1} :
         Replaces(p, claims, projects[p].open \ {proposal})

\* Rejected or deferred.
Decide(p, proposal) ==
    /\ Exists(p) /\ proposal \in projects[p].open
    /\ projects' = [projects EXCEPT ![p].open = @ \ {proposal}]
    /\ Tears(p)
    /\ UNCHANGED purging

MayPropose(p) == Cardinality(projects[p].proposals) < MaxProposals

ProposeChange(p) ==
    LET old      == projects[p]
        proposal == <<old.current, 0>> IN
    /\ Exists(p) /\ old.current # 0 /\ proposal \notin old.proposals
    /\ MayPropose(p)
    /\ projects' = [projects EXCEPT
         ![p] = [old EXCEPT !.proposals = @ \cup {proposal}, !.open = @ \cup {proposal}]]
    /\ Tears(p)
    /\ UNCHANGED purging

\* What an edit proposes: to take it into the snapshot, if there is one.
Reconciliation(project) ==
    IF project.current = 0 THEN {} ELSE {<<project.current, project.edits + 1>>}

UpdateCanvas(p) ==
    LET old == projects[p] IN
    /\ Exists(p) /\ MayPropose(p) /\ old.edits < MaxEdits
    /\ projects' = [projects EXCEPT
         ![p] = [old EXCEPT !.edits = @ + 1, !.shows = 0,
                   !.proposals = @ \cup Reconciliation(old),
                   !.open = @ \cup Reconciliation(old)]]
    /\ Tears(p)
    /\ UNCHANGED purging

\* A draft, an AI reference, a comparison, feedback, or a generation that refers to its
\* solution run: purge_from_trash deletes none of these.
KeepRows(p) ==
    /\ Exists(p) /\ ~projects[p].kept
    /\ projects' = [projects EXCEPT ![p].kept = TRUE]
    /\ UNCHANGED <<copiers, purging>>

-------------------------------------------------------------------------------
(* ExampleCopyService.copy *)

CopyReadsProject(t, p) ==
    /\ copiers[t].op = "idle" /\ Len(projects) < MaxProjects
    /\ Exists(p) /\ projects[p].status \in {"example", "active"}
    /\ CopierIs(t, [NoCopier EXCEPT !.op = "claims", !.project = p,
                                    !.current = projects[p].current])
    /\ UNCHANGED <<projects, purging>>

\* Of a purged project nothing is read any more.
CopyReadsClaims(t) ==
    LET p == copiers[t].project IN
    /\ copiers[t].op = "claims"
    /\ CopierIs(t, [copiers[t] EXCEPT !.op = "snapshots",
                      !.claims = IF Exists(p) THEN projects[p].claims ELSE 0])
    /\ UNCHANGED <<projects, purging>>

\* The snapshots, and later their links to claims.
CopyReadsSnapshots(t) ==
    LET p == copiers[t].project IN
    /\ copiers[t].op = "snapshots"
    /\ CopierIs(t, [copiers[t] EXCEPT !.op = "proposals",
                      !.last = IF Exists(p) THEN projects[p].last ELSE 0,
                      !.resolved = Exists(p) => projects[p].claims <= copiers[t].claims])
    /\ UNCHANGED <<projects, purging>>

\* Mutant of Resolved: what a proposal starts from is not looked up.
ResolvedClaims(copier, proposals) == copier.resolved

\* id_map has every row that is referred to; that decided proposals refer to rows, too.
Resolved(copier, proposals) ==
    copier.resolved /\ \A proposal \in proposals : proposal[1] \in 1 .. copier.last

CopyReadsProposals(t) ==
    LET p         == copiers[t].project
        proposals == IF Exists(p) THEN projects[p].proposals ELSE {} IN
    /\ copiers[t].op = "proposals"
    /\ CopierIs(t, [copiers[t] EXCEPT !.op = "write", !.proposals = proposals,
                      !.open = IF Exists(p) THEN projects[p].open ELSE {},
                      !.resolved = Resolved(copiers[t], proposals)])
    /\ UNCHANGED <<projects, purging>>

\* The rows of the copy; the canvas is read when they are written.
Copied(copier) ==
    LET parent == projects[copier.project] IN
    [status |-> "active", current |-> copier.current, last |-> copier.last,
     claims |-> copier.claims, proposals |-> copier.proposals, open |-> copier.open,
     shows |-> parent.shows, edits |-> parent.edits, kept |-> FALSE,
     parent |-> copier.project, torn |-> copier.torn \/ parent.torn]

\* One transaction.  The relation to a parent that has been purged is refused.
CopyWrites(t) ==
    /\ copiers[t].op = "write" /\ copiers[t].resolved
    /\ Exists(copiers[t].project) /\ Len(projects) < MaxProjects
    /\ projects' = Append(projects, Copied(copiers[t]))
    /\ CopierIs(t, NoCopier)
    /\ UNCHANGED purging

\* A reference to a row that was not read, a parent that is gone, or the end of the
\* process: the copy is rolled back.
CopyFails(t) ==
    /\ copiers[t].op # "idle"
    /\ CopierIs(t, NoCopier)
    /\ UNCHANGED <<projects, purging>>

-------------------------------------------------------------------------------
(* The trash *)

Trash(p) ==
    /\ Exists(p) /\ projects[p].status # "trashed"
    /\ projects' = [projects EXCEPT ![p].status = "trashed"]
    /\ UNCHANGED <<copiers, purging>>

\* An example becomes a project like any other.
TakeBack(p) ==
    /\ Exists(p) /\ projects[p].status = "trashed"
    /\ projects' = [projects EXCEPT ![p].status = "active"]
    /\ UNCHANGED <<copiers, purging>>

\* A purge that stops here leaves nothing behind: it never writes.
PurgeReads(p) ==
    /\ Exists(p) /\ projects[p].status = "trashed"
    /\ purging' = purging \cup {p}
    /\ UNCHANGED <<projects, copiers>>

\* Mutant of Unrelated: relations are removed on the side of the child only.
UnrelatedChild(p) == [projects EXCEPT ![p].parent = 0]

\* project_relations of a purged project go, as its child and as its parent.
Unrelated(p) ==
    [q \in Ids |-> IF q = p \/ projects[q].parent = p
                   THEN [projects[q] EXCEPT !.parent = 0] ELSE projects[q]]

\* The DELETEs name the id alone; foreign keys of rows that are kept refuse the last.
PurgeWrites(p) ==
    /\ p \in purging
    /\ Exists(p) /\ ~projects[p].kept
    /\ projects' = [Unrelated(p) EXCEPT ![p] = EmptyProject("purged")]
    /\ purging' = purging \ {p}
    /\ Tears(p)

CopyNext ==
    \/ \E p \in Ids : \/ ConfirmFirst(p) \/ ProposeChange(p) \/ UpdateCanvas(p) \/ KeepRows(p)
                      \/ \E proposal \in projects[p].open :
                           Accept(p, proposal) \/ Decide(p, proposal)
                      \/ Trash(p) \/ TakeBack(p) \/ PurgeReads(p) \/ PurgeWrites(p)
                      \/ \E t \in Copiers : CopyReadsProject(t, p)
    \/ \E t \in Copiers :
         \/ CopyReadsClaims(t) \/ CopyReadsSnapshots(t) \/ CopyReadsProposals(t)
         \/ CopyWrites(t) \/ CopyFails(t)

-------------------------------------------------------------------------------
(* Properties *)

(* "an editable, independently keyed copy" (example_copies.py:33): although a copy is put
   together from reads of different moments, of a project that may be changed, thrown away
   or purged meanwhile, every snapshot that a project or one of its proposals refers to is
   among its own, and its relation is to a project there is.  A copy of a whole project
   that did not change meanwhile is whole: its current snapshot is its last, so that its
   definition can be changed further, and its canvas shows that snapshot, or an edit that
   somebody was, in this very project, asked to take into that snapshot.  (A copy that an
   edit overtakes before its first row gets the canvas without the proposal: it is torn.) *)
CopiesAreWhole ==
    \A p \in Ids : Exists(p) =>
        LET project == projects[p] IN
        /\ project.current <= project.last
        /\ project.open \subseteq project.proposals
        /\ \A proposal \in project.proposals : proposal[1] \in 1 .. project.last
        /\ project.parent # 0 => Exists(project.parent)
        /\ ~project.torn =>
             /\ project.current = project.last
             /\ \/ project.current \in {0, project.shows}
                \/ <<project.current, project.edits>> \in project.proposals

================================================================================
