------------------------------ MODULE Codegen ------------------------------
(***************************************************************************)
(* The tool generate_implementation: it shows the model the files of an    *)
(* issue, parses SEARCH/REPLACE blocks out of the answer, and applies them *)
(* to the files, which it reads again and which may have changed.  One     *)
(* file that cannot be edited discards the edits of all of them, and the   *)
(* fenced whole-file blocks of the answer are returned instead.  Text is a *)
(* sequence of a few symbols; the model is external and may answer         *)
(* anything.                                                               *)
(***************************************************************************)
EXTENDS Integers, Sequences, FiniteSets, SequencesExt

CONSTANTS RepoFiles,   \* files that can be named
          Contents,    \* texts a file can hold
          Searches,    \* texts of SEARCH blocks
          Texts,       \* texts of REPLACE blocks and of fenced blocks
          MaxBlocks    \* bound on the blocks of an answer

ASSUME CodegenConstants == MaxBlocks \in Nat

VARIABLES disk,    \* disk[f]: the content of f, or Missing
          shown,   \* what the prompt quoted of each file
          answer,  \* the blocks of the answer, in order, edits and fenced ones
          gen      \* where the handler is: the edits it has grouped, its results

codegenVars == <<disk, shown, answer, gen>>

Missing == <<"missing">>
Edit(f, search, replace) == [kind |-> "edit", file |-> f, search |-> search, replace |-> replace]
Fenced(f, text) == [kind |-> "fenced", file |-> f, search |-> <<>>, replace |-> text]
Blocks == {Edit(f, s, r) : f \in RepoFiles, s \in Searches, r \in Texts}
            \cup {Fenced(f, t) : f \in RepoFiles, t \in Texts}

\* How far the handler is; files whose edits are still to be applied, files as they were
\* when they were read for that, and the results.
NewGen == [at |-> "new", todo |-> {}, read |-> <<>>, files |-> <<>>, edited |-> FALSE]

CodegenInit ==
  /\ disk \in [RepoFiles -> Contents \cup {Missing}]
  /\ shown = <<>> /\ answer = <<>> /\ gen = NewGen

\* Someone else works in the repository.
ChangeFile(f) ==
  /\ gen.at \in {"asked", "edit"}
  /\ \E c \in Contents \cup {Missing} : c # disk[f] /\ disk' = [disk EXCEPT ![f] = c]
  /\ UNCHANGED <<shown, answer, gen>>

\* makeCodegenHandler up to the request: a file that is not there is described as such.
\* (A request without a title or files is refused.)
AskForEdits ==
  /\ gen.at = "new"
  /\ \E scope \in SUBSET RepoFiles \ {{}} : shown' = [f \in scope |-> disk[f]]
  /\ gen' = [gen EXCEPT !.at = "asked"]
  /\ UNCHANGED <<disk, answer>>

\* The model answers; an answer without choices and a failed request end the call.
ModelAnswers ==
  /\ gen.at = "asked"
  /\ \E n \in 0 .. MaxBlocks : \E bs \in [1 .. n -> Blocks] : answer' = bs
  /\ gen' = [gen EXCEPT !.at = "parse"]
  /\ UNCHANGED <<disk, shown>>

ModelFails ==
  /\ gen.at = "asked" /\ gen' = [gen EXCEPT !.at = "failed"]
  /\ UNCHANGED <<disk, shown, answer>>

EditsOf(f) == SelectSeq(answer, LAMBDA b : b.kind = "edit" /\ b.file = f)

Named == {f \in RepoFiles : EditsOf(f) # <<>>}

\* extractCodeBlocks: the fenced blocks that carry a path.
CodeBlocks ==
  LET fenced == SelectSeq(answer, LAMBDA b : b.kind = "fenced")
  IN [i \in DOMAIN fenced |-> [file |-> fenced[i].file, content |-> fenced[i].replace]]

\* extractSearchReplaceBlocks groups the edits by file, keeping their order.
GroupEdits ==
  /\ gen.at = "parse"
  /\ gen' = IF Named = {} THEN [gen EXCEPT !.at = "done", !.files = CodeBlocks]
            ELSE [gen EXCEPT !.at = "edit", !.todo = Named, !.edited = TRUE]
  /\ UNCHANGED <<disk, shown, answer>>

Occurs(search, text) == search \in SubSeqs(text)

\* strings.Replace with n = 1: the first occurrence; an empty search is found in front.
Replaced(edit, text) == ReplaceFirstSubSeq(edit.replace, edit.search, text)

\* The edits of one file, one after the other; Missing when one is not found.
Applied(edits, text) ==
  FoldLeft(LAMBDA acc, e : IF acc # Missing /\ Occurs(e.search, acc) THEN Replaced(e, acc)
                           ELSE Missing, text, edits)

\* One round of the loop over the files, which a map orders as it pleases.  The error of
\* a file that is gone or an edit that is not found is logged, and nothing is kept.
ApplyEdits(f) ==
  /\ gen.at = "edit" /\ f \in gen.todo
  /\ LET modified == IF disk[f] = Missing THEN Missing ELSE Applied(EditsOf(f), disk[f])
         files == Append(gen.files, [file |-> f, content |-> modified])
         read == [x \in DOMAIN gen.read \cup {f} |-> IF x = f THEN disk[f] ELSE gen.read[x]]
         last == gen.todo = {f}
     IN gen' = IF modified = Missing
               THEN [gen EXCEPT !.at = "done", !.todo = {}, !.files = CodeBlocks, !.edited = FALSE,
                                !.read = read]
               ELSE [gen EXCEPT !.at = IF last THEN "done" ELSE @, !.todo = @ \ {f},
                                !.files = files, !.read = read]
  /\ UNCHANGED <<disk, shown, answer>>

CodegenNext ==
  \/ AskForEdits \/ ModelAnswers \/ ModelFails \/ GroupEdits
  \/ \E f \in RepoFiles : ChangeFile(f) \/ ApplyEdits(f)

-----------------------------------------------------------------------------
\* Type invariant.
CodegenTypeOK ==
  /\ disk \in [RepoFiles -> Contents \cup {Missing}] /\ Len(answer) <= MaxBlocks
  /\ gen.at \in {"new", "asked", "parse", "edit", "done", "failed"}
  /\ gen.todo \subseteq RepoFiles

\* The file with one edit made where the search text first starts.
EditedAt(e, text) ==
  LET starts == {i \in 0 .. Len(text) - Len(e.search) :
                   \A k \in DOMAIN e.search : text[i + k] = e.search[k]}
      i == Min(starts)
  IN IF text = Missing \/ starts = {} THEN Missing
     ELSE SubSeq(text, 1, i) \o e.replace \o SubSeq(text, i + Len(e.search) + 1, Len(text))

EditedBy(f, text) == FoldLeft(LAMBDA t, e : EditedAt(e, t), text, EditsOf(f))

\* The answer of generate_implementation is whole.  Edited files come back all or not at
\* all, each once, and each is one reading of the file with every edit the model gave
\* for it made in the order it gave them, whatever other files' edits stand between them
\* and whatever happened to the repository since the prompt.  The edits are given up only
\* for a reason, a file that was not shown, has changed since, or does not contain what
\* the model wants replaced, and then only fenced blocks come back
\* (extractSearchReplaceBlocks, makeCodegenHandler).
EditsAreWhole ==
  gen.at = "done" =>
    IF gen.edited
    THEN /\ Len(gen.files) = Cardinality(Named)
         /\ \A f \in Named : \E i \in DOMAIN gen.files :
              gen.files[i] = [file |-> f, content |-> EditedBy(f, gen.read[f])]
    ELSE /\ Range(gen.files) = {[file |-> b.file, content |-> b.replace] :
                                  b \in {b \in Range(answer) : b.kind = "fenced"}}
         /\ Named # {} => \E f \in DOMAIN gen.read :
              f \in DOMAIN shown /\ shown[f] = gen.read[f] => EditedBy(f, shown[f]) = Missing
=============================================================================
