------------------------ MODULE QuestionnaireEditor ------------------------
(***************************************************************************)
(* The questionnaire page of the dashboard and routes/questionnaires.ts:   *)
(* the page loads the tenant's newest questionnaire, changes its own copy  *)
(* and sends all of it; PUT replaces the stored questions by two           *)
(* statements of one transaction at READ COMMITTED.  The save button is    *)
(* never disabled, so saves of one page overlap.                           *)
(***************************************************************************)
EXTENDS Naturals, Sequences, FiniteSets

CONSTANTS
  Pages,         \* browser tabs
  Saves,         \* clicks on the save button
  QuestionKeys,  \* numerals of the keys frage_1, frage_2, ... that the user types
  MaxQuestions, MaxEdits, MaxVisits  \* bounds of the model

ASSUME EditorAssumption ==
  /\ QuestionKeys \subseteq Nat
  /\ MaxQuestions \in Nat /\ MaxEdits \in Nat /\ MaxVisits \in Nat

VARIABLES
  stored,     \* questionnaires in the order of their creation: sets of rows
  page,       \* page[p]: what tab p shows
  save,       \* save[s]: where save s is, what it sends and what it has locked
  edits,      \* edits so far, of all pages
  putsOverlapped  \* history: two PUTs of one questionnaire overlapped

editorVars == <<stored, page, save, edits, putsOverlapped>>

(***************************************************************************)
(* A question: its key, whether its prompt is filled in, its type as far   *)
(* as the schema tells types apart, and its optional fields.  JavaScript   *)
(* has two ways of leaving one out: a field the page never set is absent,  *)
(* one that comes from the database without a value is null.               *)
(***************************************************************************)
Field == {"absent", "null", "given"}
EditedQuestion == [key : Nat, filled : BOOLEAN, type : {"text", "choice", "scale"},
                   options : Field, bounds : Field]
NewQuestion(n) ==
  [key |-> n, filled |-> FALSE, type |-> "text", options |-> "absent", bounds |-> "absent"]

NewId == 0  \* the empty id of a questionnaire that is not stored yet
NoPage == [view |-> "loading", visit |-> 0, id |-> NewId, questions |-> <<>>, saved |-> FALSE]
NoSave == [at |-> "idle", page |-> CHOOSE p \in Pages : TRUE, visit |-> 0, id |-> NewId,
           sent |-> <<>>, rows |-> {}]

\* What a row keeps of a question: a field without a value is NULL.
RowsOf(s, qs) ==
  LET column(f) == IF f = "given" THEN "given" ELSE "null" IN
  {[by |-> s, order |-> i,
    question |-> [qs[i] EXCEPT !.options = column(@), !.bounds = column(@)]] : i \in DOMAIN qs}

\* The question lists a GET may answer with: by order, ties in any way.
AsLoaded(rows) ==
  {qs \in [1 .. Cardinality(rows) -> {r.question : r \in rows}] :
     \E f \in [DOMAIN qs -> rows] :
       /\ \A i, j \in DOMAIN qs : i < j => f[i] # f[j] /\ f[i].order <= f[j].order
       /\ \A i \in DOMAIN qs : qs[i] = f[i].question}

\* createStarterContent: what an operator provisions a tenant with.
Starter == {[by |-> "starter", order |-> 1,
             question |-> [NewQuestion(1) EXCEPT !.filled = TRUE, !.options = "null", !.bounds = "null"]]}

EditorInit ==
  /\ stored \in {<<>>, <<Starter>>}
  /\ page = [p \in Pages |-> NoPage]
  /\ save = [s \in Saves |-> NoSave]
  /\ edits = 0 /\ putsOverlapped = FALSE

---------------------------------------------------------------------------
(* The page.                                                                *)

\* GET /questionnaires: the newest one, or an empty one to be created.
LoadPage(p) ==
  /\ page[p].view = "loading"
  /\ \E qs \in IF stored = <<>> THEN {<<>>} ELSE AsLoaded(stored[Len(stored)]) :
       page' = [page EXCEPT ![p] = [@ EXCEPT !.view = "ready", !.id = Len(stored), !.questions = qs]]
  /\ UNCHANGED <<stored, save, edits, putsOverlapped>>

\* The user leaves the page and comes back.
VisitAgain(p) ==
  /\ page[p].view = "ready" /\ page[p].visit < MaxVisits
  /\ page' = [page EXCEPT ![p] = [NoPage EXCEPT !.visit = page[p].visit + 1]]
  /\ UNCHANGED <<stored, save, edits, putsOverlapped>>

Edit(p, qs, saved) ==
  /\ page[p].view = "ready" /\ edits < MaxEdits
  /\ page' = [page EXCEPT ![p].questions = qs, ![p].saved = saved]
  /\ edits' = edits + 1
  /\ UNCHANGED <<stored, save, putsOverlapped>>

\* addQuestion: the key is the number of questions plus one, taken or not.
AddQuestion(p) ==
  LET qs == page[p].questions IN
  /\ Len(qs) < MaxQuestions
  /\ Edit(p, Append(qs, NewQuestion(Len(qs) + 1)), page[p].saved)

RemoveQuestion(p, idx) ==
  LET qs == page[p].questions IN
  Edit(p, SubSeq(qs, 1, idx - 1) \o SubSeq(qs, idx + 1, Len(qs)), page[p].saved)

\* move, downwards; upwards is the same swap.
MoveQuestion(p, idx) ==
  LET qs == page[p].questions IN
  /\ idx + 1 \in DOMAIN qs
  /\ Edit(p, [qs EXCEPT ![idx] = qs[idx + 1], ![idx + 1] = qs[idx]], page[p].saved)

\* The inputs of a question; those of its options or bounds appear with its type.
Patched(q) ==
  {[q EXCEPT !.key = k] : k \in QuestionKeys} \cup {[q EXCEPT !.filled = TRUE]}
  \cup {[q EXCEPT !.type = t] : t \in {"text", "choice", "scale"}}
  \cup {[q EXCEPT !.options = IF q.type = "choice" THEN "given" ELSE @]}
  \cup {[q EXCEPT !.bounds = IF q.type = "scale" THEN "given" ELSE @]}

UpdateQuestion(p, idx) ==
  \E q \in Patched(page[p].questions[idx]) \ {page[p].questions[idx]} :
    Edit(p, [page[p].questions EXCEPT ![idx] = q], FALSE)

ClickSave(p, s) ==
  /\ page[p].view = "ready" /\ save[s].at = "idle"
  /\ page' = [page EXCEPT ![p].saved = FALSE]
  /\ save' = [save EXCEPT ![s] = [@ EXCEPT !.at = "sent", !.page = p, !.visit = page[p].visit,
                                           !.id = page[p].id, !.sent = page[p].questions]]
  /\ UNCHANGED <<stored, edits, putsOverlapped>>

\* The reply: a page left meanwhile does not see it.
ShowReply(s) ==
  LET p == save[s].page IN
  /\ save[s].at \in {"ok", "error", "refused"}
  /\ save' = [save EXCEPT ![s].at = "done"]
  /\ page' = IF save[s].at # "ok" \/ page[p].visit # save[s].visit THEN page
             ELSE [page EXCEPT ![p].saved = TRUE, ![p].id = save[s].id]
  /\ UNCHANGED <<stored, edits, putsOverlapped>>

---------------------------------------------------------------------------
(* The routes.                                                              *)

\* upsertQuestionnaireSchema: optional() takes an absent field, not a null one.
Acceptable(qs) ==
  /\ qs # <<>>
  /\ \A i, j \in DOMAIN qs : i # j => qs[i].key # qs[j].key
  /\ \A i \in DOMAIN qs : /\ qs[i].filled /\ "null" \notin {qs[i].options, qs[i].bounds}
                          /\ qs[i].type = "choice" => qs[i].options = "given"
                          /\ qs[i].type = "scale" => qs[i].bounds = "given"

Parse(s) ==
  /\ save[s].at = "sent"
  /\ save' = [save EXCEPT ![s].at = IF ~Acceptable(save[s].sent) THEN "refused"
                                    ELSE IF save[s].id = NewId THEN "create" ELSE "replace"]
  /\ UNCHANGED <<stored, page, edits, putsOverlapped>>

\* POST: the questionnaire and its questions by one nested create.
CreateQuestionnaire(s) ==
  /\ save[s].at = "create"
  /\ stored' = Append(stored, RowsOf(s, save[s].sent))
  /\ save' = [save EXCEPT ![s].at = "ok", ![s].id = Len(stored')]
  /\ UNCHANGED <<page, edits, putsOverlapped>>

\* The other transactions on s's questionnaire.
Rivals(s, at) == {t \in Saves \ {s} : save[t].id = save[s].id /\ save[t].at \in at}

\* PUT: deleteMany takes its snapshot of the rows ...
StartDelete(s) ==
  /\ save[s].at = "replace"
  /\ save' = [save EXCEPT ![s].at = "deleting", ![s].rows = stored[save[s].id]]
  /\ putsOverlapped' = (putsOverlapped \/ Rivals(s, {"deleting", "deleted"}) # {})
  /\ UNCHANGED <<stored, page, edits>>

LocksTaken(s) == \E t \in Rivals(s, {"deleted"}) : save[t].rows \cap save[s].rows # {}

\* Mutant: the deletion is not part of the transaction.
DeleteRows_Autocommit(s) ==
  /\ save[s].at = "deleting"
  /\ save' = [save EXCEPT ![s].at = "deleted", ![s].rows = {}]
  /\ stored' = [stored EXCEPT ![save[s].id] = @ \ save[s].rows]
  /\ UNCHANGED <<page, edits, putsOverlapped>>

\* ... and deletes those that are still there once nobody else has them locked: never
\* a row committed after the snapshot.
DeleteRows(s) ==
  /\ save[s].at = "deleting" /\ ~LocksTaken(s)
  /\ save' = [save EXCEPT ![s].at = "deleted", ![s].rows = @ \cap stored[save[s].id]]
  /\ UNCHANGED <<stored, page, edits, putsOverlapped>>

\* update, which locks the questionnaire, its nested create, and the commit: a key of a
\* row that is left violates the unique index and rolls everything back.
InsertRows(s) ==
  LET left == stored[save[s].id] \ save[s].rows
      inserted == RowsOf(s, save[s].sent) IN
  /\ save[s].at = "deleted"
  /\ IF \E r \in left, n \in inserted : r.question.key = n.question.key
     THEN stored' = stored /\ save' = [save EXCEPT ![s].at = "error", ![s].rows = {}]
     ELSE /\ stored' = [stored EXCEPT ![save[s].id] = left \cup inserted]
          /\ save' = [save EXCEPT ![s].at = "ok", ![s].rows = {}]
  /\ UNCHANGED <<page, edits, putsOverlapped>>

\* The connection breaks: the transaction is rolled back.
SaveFails(s) ==
  /\ save[s].at \in {"create", "replace", "deleting", "deleted"}
  /\ save' = [save EXCEPT ![s].at = "error", ![s].rows = {}]
  /\ UNCHANGED <<stored, page, edits, putsOverlapped>>

---------------------------------------------------------------------------
EditorNext ==
  \/ \E p \in Pages :
       \/ LoadPage(p) \/ VisitAgain(p) \/ AddQuestion(p)
       \/ \E idx \in DOMAIN page[p].questions :
            RemoveQuestion(p, idx) \/ MoveQuestion(p, idx) \/ UpdateQuestion(p, idx)
       \/ \E s \in Saves : ClickSave(p, s)
  \/ \E s \in Saves : \/ Parse(s) \/ CreateQuestionnaire(s) \/ StartDelete(s)
                      \/ DeleteRows(s) \/ InsertRows(s) \/ SaveFails(s) \/ ShowReply(s)

EditorSpec == EditorInit /\ [][EditorNext]_editorVars

---------------------------------------------------------------------------
(* Properties.                                                              *)

EditorTypeOK ==
  /\ \A i \in DOMAIN stored : \A r \in stored[i] :
       r.by \in Saves \cup {"starter"} /\ r.question \in EditedQuestion /\ r.order \in Nat \ {0}
  /\ \A p \in Pages : /\ page[p].view \in {"loading", "ready"}
                      /\ page[p].id \in 0 .. Len(stored) /\ page[p].visit \in 0 .. MaxVisits
                      /\ page[p].questions \in Seq(EditedQuestion) /\ page[p].saved \in BOOLEAN
  /\ \A s \in Saves : /\ save[s].at \in {"idle", "sent", "create", "replace", "deleting",
                                         "deleted", "ok", "error", "refused", "done"}
                      /\ save[s].id \in 0 .. Len(stored) /\ save[s].sent \in Seq(EditedQuestion)
  /\ edits \in 0 .. MaxEdits /\ putsOverlapped \in BOOLEAN

\* At every moment a call reads of a questionnaire exactly the questions of one save:
\* never none, never a part, never a mixture (questionnaires.ts:80-104) - unless two
\* PUTs overlapped, whose insertions do not see one another.
StoredWasSentUnlessOverlapped ==
  putsOverlapped \/ \A i \in DOMAIN stored :
    \/ stored[i] = Starter
    \/ \E s \in Saves : stored[i] = RowsOf(s, save[s].sent) /\ stored[i] # {}

\* "can immediately edit the Assistent ... and Fragebogen" (docs/GO_LIVE.md:90): a list of
\* questions that the page loaded is not refused when it is sent back.
LoadedCanBeSaved ==
  \A s \in Saves, i \in DOMAIN stored :
    save[s].at = "refused" => save[s].sent \notin AsLoaded(stored[i])
============================================================================
