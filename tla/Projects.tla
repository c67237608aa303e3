-------------------------------- MODULE Projects --------------------------------
(***************************************************************************)
(* Patching and deleting projects: a patch reads the row, checks the role  *)
(* and writes name and settings back whole, over what others have written  *)
(* in the meantime.                                                        *)
(***************************************************************************)
EXTENDS Naturals, FiniteSets

CONSTANTS
  Patches,   \* requests that patch a project
  Creations, \* requests that create one
  Names      \* project names, the first row's among them

(* Identifiers differ, and a row that is gone has no name of a project.    *)
ASSUME ProjectsAssumption ==
  /\ "project" \notin Creations /\ Patches \cap Creations = {}
  /\ {"gone", "keep"} \cap Names = {}

Fields == {"name", "settings"}

VARIABLES
  projects,  \* rows: [name, settings] of each project, or Gone
  change,    \* where each request is
  asked,     \* what a patch asks for: a value or "keep" for each field
  copy,      \* the row it read
  since,     \* history: fields others have patched since it read
  latest,    \* history: what each field was patched to last
  overlaid   \* history: fields written back since by a patch that overlapped

projectVars == <<projects, change, asked, copy, since, latest, overlaid>>

Gone == [name |-> "gone", settings |-> "gone"]
Rows == DOMAIN projects

-----------------------------------------------------------------------------
Step(p, from, to) == change[p] = from /\ change' = [change EXCEPT ![p] = to]

(* The unique index on the lower-cased name within the organization.       *)
Taken(name, row) == \E q \in Rows \ {row} : projects[q].name = name

(* Create: the row the request adds is named after the request.            *)
Create(c, name) ==
  /\ change[c] = "new"
  /\ change' = [change EXCEPT ![c] = IF Taken(name, c) THEN "conflict" ELSE "done"]
  /\ projects' = IF Taken(name, c) THEN projects
                 ELSE [projects EXCEPT ![c] = [name |-> name, settings |-> "initial"]]
  /\ UNCHANGED <<asked, copy, since, latest, overlaid>>

GetByID(p) ==
  /\ change[p] = "new" /\ projects["project"] # Gone
  /\ change' = [change EXCEPT ![p] = "read"]
  /\ copy' = [copy EXCEPT ![p] = projects["project"]]
  /\ since' = [since EXCEPT ![p] = {}]
  /\ UNCHANGED <<projects, asked, latest, overlaid>>

(* Mutant of Patched: a patch without a name clears the name.               *)
PatchedAll(p) == asked[p]

(* What the patch asks for, and the rest as it was read.                   *)
Patched(p) == [f \in Fields |-> IF asked[p][f] = "keep" THEN copy[p][f] ELSE asked[p][f]]

Asks(p, f) == asked[p][f] # "keep"

(* Project.Update writes all columns, if the row is still there and the    *)
(* name is free.                                                           *)
Update(p) ==
  LET row == Patched(p) IN
  /\ Step(p, "read", "done")
  /\ projects["project"] # Gone /\ ~Taken(row.name, "project")
  /\ projects' = [projects EXCEPT !["project"] = row]
  /\ latest' = [f \in Fields |-> IF Asks(p, f) THEN asked[p][f] ELSE latest[f]]
  /\ since' = [q \in Patches |-> since[q] \cup {f \in Fields : Asks(p, f)}]
  /\ overlaid' = {f \in overlaid \cup since[p] : ~Asks(p, f)}
  /\ UNCHANGED <<asked, copy>>

(* Forbidden, not found, a name that is taken, or a failing statement.     *)
UpdateFails(p) ==
  /\ Step(p, "read", "failed")
  /\ UNCHANGED <<projects, asked, copy, since, latest, overlaid>>

Delete ==
  /\ projects["project"] # Gone
  /\ projects' = [projects EXCEPT !["project"] = Gone]
  /\ UNCHANGED <<change, asked, copy, since, latest, overlaid>>

-----------------------------------------------------------------------------
First == [name |-> "first", settings |-> "initial"]
Wishes == [name : Names \cup {"keep"}, settings : {"new", "keep"}]

ProjectStart(wishes) ==
  /\ projects = [q \in Creations \cup {"project"} |-> IF q = "project" THEN First ELSE Gone]
  /\ change = [r \in Patches \cup Creations |-> "new"]
  /\ asked = wishes /\ copy = [p \in Patches |-> First]
  /\ since = [p \in Patches |-> {}] /\ latest = First /\ overlaid = {}

ProjectInit == \E wishes \in [Patches -> Wishes] : ProjectStart(wishes)

Patch(p) == GetByID(p) \/ Update(p) \/ UpdateFails(p)

ProjectNext ==
  \/ \E p \in Patches : Patch(p)
  \/ \E c \in Creations, name \in Names : Create(c, name)
  \/ Delete

ProjectSpec == ProjectInit /\ [][ProjectNext]_projectVars

-----------------------------------------------------------------------------
(* A field of a project is what it was last patched to, unless a patch of  *)
(* the other field that had read the row before wrote it back: patches     *)
(* that do not overlap never undo each other, and a field nobody patched   *)
(* keeps its value.  Two projects of an organization never share a name,   *)
(* whichever of creation and renaming comes first (project/service.go:     *)
(* 35-64, 102-127, 130-145).                                               *)
PatchesSurvive ==
  /\ projects["project"] # Gone =>
       \A f \in Fields : projects["project"][f] = latest[f] \/ f \in overlaid
  /\ \A q, r \in Rows : q # r /\ projects[q] # Gone => projects[q].name # projects[r].name

(* The copy a patch holds is stale only in fields that were patched since  *)
(* it was read, or were written back before.                               *)
CopiesTell ==
  \A p \in Patches : change[p] = "read" =>
    \A f \in Fields : copy[p][f] = latest[f] \/ f \in overlaid \cup since[p]

(* Rows and copies that are there have a name.                             *)
Named ==
  /\ \A q \in Rows : projects[q] # Gone => projects[q].name # "gone"
  /\ \A p \in Patches : copy[p].name # "gone"

ProjectRow == [name : Names \cup {"first", "gone"}, settings : {"initial", "new", "gone"}]

ProjectsTypeOK ==
  /\ projects \in [Creations \cup {"project"} -> ProjectRow]
  /\ change \in [Patches \cup Creations -> {"new", "read", "done", "failed", "conflict"}]
  /\ asked \in [Patches -> Wishes]
  /\ copy \in [Patches -> ProjectRow]
  /\ since \in [Patches -> SUBSET Fields] /\ latest \in ProjectRow /\ overlaid \subseteq Fields

(* The inductive invariant.                                                *)
ProjectsInv == ProjectsTypeOK /\ Named /\ CopiesTell /\ PatchesSurvive
=============================================================================
