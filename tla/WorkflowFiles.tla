---------------------------- MODULE WorkflowFiles ----------------------------
(***************************************************************************)
(* Which workflow a name stands for: workflows/loader.py, and what the     *)
(* editor of the web server and `solux workflows delete` do to the files.  *)
(* A listing lets the last file of a name win and knows a workflow by the  *)
(* name in the file; a run takes the first file whose workflow or whose    *)
(* own name (its stem) is the name asked for; the editor looks at the name *)
(* of the file only.                                                       *)
(*   A directory maps each file, a pair of a stem and an extension, to     *)
(* what it holds: a workflow, Invalid (what the parser refuses), text that *)
(* is not UTF-8 or has an invalid date, which nobody catches, or NoFile.   *)
(***************************************************************************)
EXTENDS Naturals, Sequences, FiniteSetsExt

CONSTANTS
  WorkflowNames,  \* names and stems
  Sorted,         \* the files of a directory in the order of their paths
  BuiltinNames,   \* keys of BUILTIN_WORKFLOWS
  WorkflowBodies,         \* what a workflow says but for its name
  ReservedNames,  \* "new", "save", "delete": pages beside those of workflows
  NoFile, Invalid, Undecodable, BadDate, NotFound, Raised

\* A workflow may refer to an environment variable that is not set.
Workflows == [name : WorkflowNames, body : WorkflowBodies, unset : BOOLEAN]
BuiltinWorkflow(n) == [name |-> n, body |-> "builtin", unset |-> FALSE]

\* UnicodeDecodeError and ValueError are no WorkflowLoadError.
Escaping == {Undecodable, BadDate}
Contents == Workflows \cup {Invalid, NoFile} \cup Escaping
Files    == WorkflowNames \X {"yaml", "yml"}

ASSUME FilesAssumption ==
  /\ Sorted \in Seq(Files) /\ \A f \in Files : \E i \in DOMAIN Sorted : Sorted[i] = f
  /\ ({NoFile, Invalid, Raised} \cup Escaping) \cap Workflows = {}
  /\ NoFile # Invalid /\ Raised # Invalid /\ {NoFile, Invalid} \cap Escaping = {}

\* _workflow_files: the places of the files that are there.
Listing(dir) == {i \in DOMAIN Sorted : dir[Sorted[i]] # NoFile}

\* _load_yaml_file: text that cannot be decoded or dated raises an error that is
\* not a WorkflowLoadError; so does, if it must be, a variable that is not set,
\* which is left blank otherwise.
LoadFile(content, interpolate, strict) ==
  IF content = Invalid THEN Invalid
  ELSE IF content \in Escaping \/ (interpolate /\ strict /\ content.unset) THEN Raised
  ELSE content

\* list_workflows: the last file that says a name; secrets are not looked up.
\* What escapes one file ends the listing.
Listed(dir) ==
  LET read(i) == LoadFile(dir[Sorted[i]], FALSE, FALSE)
      says(n) == {i \in Listing(dir) : read(i) # Invalid /\ read(i).name = n}
  IN  IF \E i \in Listing(dir) : read(i) = Raised THEN Raised
      ELSE [n \in WorkflowNames |->
              IF says(n) # {} THEN read(Max(says(n)))
              ELSE IF n \in BuiltinNames THEN BuiltinWorkflow(n) ELSE NotFound]

\* Mutation: a file that cannot be read ends the search.
Load_StopsAtInvalid(dir, n, strict) ==
  LET read(i) == LoadFile(dir[Sorted[i]], TRUE, strict)
      ends    == {i \in Listing(dir) : \/ read(i) \in {Raised, Invalid}
                                       \/ read(i).name = n \/ Sorted[i][1] = n}
  IN  IF ends # {} /\ read(Min(ends)) # Invalid THEN read(Min(ends))
      ELSE IF n \in BuiltinNames THEN BuiltinWorkflow(n) ELSE NotFound

\* load_workflow: the files are read in order up to the first match, and the
\* first one that raises ends the search.
Load(dir, n, strict) ==
  LET read(i) == LoadFile(dir[Sorted[i]], TRUE, strict)
      ends    == {i \in Listing(dir) : /\ read(i) # Invalid
                                       /\ \/ read(i) = Raised
                                          \/ read(i).name = n \/ Sorted[i][1] = n}
  IN  IF ends # {} THEN read(Min(ends))
      ELSE IF n \in BuiltinNames THEN BuiltinWorkflow(n) ELSE NotFound

\* The file that the editor and the delete command mean by a name.
FileNamed(dir, n) ==
  IF dir[<<n, "yaml">>] # NoFile THEN <<n, "yaml">> ELSE <<n, "yml">>

\* _handle_workflow_editor: the text of the file, else of the workflow that a
\* run would take, else none. The page "new" stands for a workflow that is to be
\* written, and "save" and "delete" are no pages of the editor.
Shown(dir, n) ==
  LET text == dir[FileNamed(dir, n)] IN
  IF n \in ReservedNames THEN NotFound
  ELSE IF text = Undecodable THEN Raised
  ELSE IF text # NoFile THEN text
  ELSE IF Load(dir, n, FALSE) = Raised THEN NotFound ELSE Load(dir, n, FALSE)

\* Mutation: the workflow is saved beside a .yml of its name.
SaveWorkflow_Yml(dir, n, content) ==
  IF content \in Workflows THEN [dir EXCEPT ![<<n, "yml">>] = content] ELSE dir

\* handle_save_workflow: whatever name the text itself gives; here every error
\* is caught, and n may be reserved.
SaveWorkflow(dir, n, content) ==
  IF content \in Workflows THEN [dir EXCEPT ![<<n, "yaml">>] = content] ELSE dir

\* cmd_workflows_delete
DeleteWorkflow(dir, n) ==
  IF dir[FileNamed(dir, n)] = NoFile THEN dir ELSE [dir EXCEPT ![FileNamed(dir, n)] = NoFile]

-----------------------------------------------------------------------------
Dirs == [Files -> Contents]

\* The files that would be run for n.
Claimants(dir, n) ==
  {f \in DOMAIN dir : dir[f] \in Workflows /\ (f[1] = n \/ dir[f].name = n)}

\* Some file of the directory cannot be decoded, or dated.
IsSpoilt(dir) == \E f \in Files : dir[f] \in Escaping

\* As long as no two files claim a name, the workflow listed under it is the
\* one that runs, files that cannot be parsed hide none, and only a secret
\* that is missing stands between them. One file that cannot be decoded or dated
\* hides every workflow from the listing; what runs then is still no other.
ListedIsLoaded(dir, n, strict) ==
  LET runs == Load(dir, n, strict) IN
  /\ IsSpoilt(dir) =>
       /\ Listed(dir) = Raised
       /\ runs = Raised \/ \E f \in Claimants(dir, n) : runs = dir[f]
  /\ (\A f, g \in Claimants(dir, n) : f = g) /\ ~IsSpoilt(dir) =>
       LET shown == Listed(dir)[n] IN
       \/ shown = runs
       \/ shown \in {NotFound, BuiltinWorkflow(n)} /\ runs \in Workflows /\ runs.name # n
       \/ strict /\ runs = Raised

\* What is saved under its own name is what the editor shows from then on,
\* unless it has pages of its own under that name, and what runs unless another
\* file claims the name, cannot be decoded or dated, or misses a secret; and
\* deleting it twice leaves the built-in workflow or none.
SavedIsRun(dir, w) ==
  LET saved   == SaveWorkflow(dir, w.name, w)
      cleared == DeleteWorkflow(DeleteWorkflow(saved, w.name), w.name)
  IN  /\ Shown(saved, w.name) = IF w.name \in ReservedNames THEN NotFound ELSE w
      /\ Claimants(saved, w.name) = {<<w.name, "yaml">>} /\ ~IsSpoilt(saved) =>
           /\ Load(saved, w.name, FALSE) = w
           /\ Listed(saved)[w.name] = w
           /\ Load(cleared, w.name, FALSE)
                = IF w.name \in BuiltinNames THEN BuiltinWorkflow(w.name) ELSE NotFound
=============================================================================
