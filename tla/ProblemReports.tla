---------------------------- MODULE ProblemReports ----------------------------
(***************************************************************************)
(* The problems of one printer: the catalog of official messages of its    *)
(* model (internal/hmscodes/hmscodes.go) and the projection of reported    *)
(* codes that the activity log announces (internal/printer problems.go,    *)
(* store.go, events.go).                                                   *)
(*                                                                         *)
(* One worker refreshes the table of a model: it asks, publishes what it   *)
(* got and saves the body, while reports are projected under the published *)
(* table.  A message is "text", "empty" or "unlisted"; severities, links   *)
(* and wording are left out.  A code that marks a user's cancel is no code *)
(* here.                                                                   *)
(***************************************************************************)
EXTENDS Integers

CONSTANTS
  Screens,  \* screen codes, all of one hardware module
  Healths,  \* health codes
  Joins,    \* the health codes of the module of Screens
  Texts     \* per version of the provider's catalog, what it says of a code

ASSUME ProblemAssumption ==
  Joins \subseteq Healths /\ Screens \cap Healths = {} /\ DOMAIN Texts \subseteq Nat

VARIABLES
  doc,        \* the printer's document
  table,      \* Catalog.tables of the model
  cached,       \* its cache file
  asked,      \* the refresh: idle, waiting for an answer, saving a body
  published,  \* the version the provider is at
  said,       \* the transitions of the last report
  under       \* history: the table of the last report

problemVars == <<doc, table, cached, asked, published, said, under>>

Codes == Screens \cup Healths
NoScreen == "none"
Reports == [screen : Screens \cup {NoScreen}, health : SUBSET Healths]
Versions == DOMAIN Texts

(* A table that is not ready has no version; an empty ready one stands at  *)
(* version 0.                                                              *)
NoCache == -1
Tables == [state : {"loading", "failed", "ready"}, version : Versions \cup {0}, empty : BOOLEAN]
Loading == [state |-> "loading", version |-> 0, empty |-> FALSE]
Failed == [Loading EXCEPT !.state = "failed"]
EmptyReady == [state |-> "ready", version |-> 0, empty |-> TRUE]
Full(v) == [state |-> "ready", version |-> v, empty |-> FALSE]

ProblemTypes ==
  /\ doc \in Reports /\ table \in Tables /\ under \in Tables
  /\ cached \in Versions \cup {NoCache} /\ published \in Versions
  /\ asked \in {"idle", "asked", "save"}
  /\ said \in [announced : SUBSET SUBSET Codes, resolved : SUBSET SUBSET Codes,
               fresh : SUBSET Codes, gone : SUBSET Codes]

Silence == [announced |-> {}, resolved |-> {}, fresh |-> {}, gone |-> {}]
ProblemInit ==
  /\ doc = [screen |-> NoScreen, health |-> {}]
  /\ table = Loading /\ cached = NoCache /\ asked = "idle"
  /\ published \in Versions /\ said = Silence /\ under = Loading
-----------------------------------------------------------------------------
(* Snapshot.HMS and Snapshot.Error, and what Problems hides: an official   *)
(* empty text, and a health code that a ready catalog does not list.       *)
Message(t, c) ==
  IF t.state # "ready" THEN "pending" ELSE IF t.empty THEN "unlisted" ELSE Texts[t.version][c]
Visible(t, c) ==
  IF c \in Screens THEN Message(t, c) # "empty" ELSE Message(t, c) \notin {"empty", "unlisted"}

Reported(d) == d.health \cup ({d.screen} \cap Screens)

(* printer.Problems: a visible screen code takes the visible health codes  *)
(* of its module with it; each other one is a problem of its own.          *)
Problems(d, t) ==
  LET seen == {c \in Reported(d) : Visible(t, c)}
      joined == IF d.screen \in seen THEN {d.screen} \cup (seen \cap Joins) ELSE {}
  IN  ({joined} \ {{}}) \cup {{c} : c \in seen \ joined}

(* The problem part of Transitions.                                        *)
New(olds, news) == {g \in news : g \cap UNION olds = {}}

\* Mutant: the old report keeps the catalog it was shown under.
OldProblemsAsShown(d, t) == Problems(d, under)

OldProblems(d, t) == Problems(d, t)

(* Store.Apply: both projections are made under one snapshot.              *)
Apply(d) ==
  /\ LET olds == OldProblems(doc, table)
         news == Problems(d, table)
     IN  said' = [announced |-> New(olds, news), resolved |-> New(news, olds),
                  fresh |-> Reported(d) \ Reported(doc), gone |-> Reported(doc) \ Reported(d)]
  /\ doc' = d /\ under' = table
  /\ UNCHANGED <<table, cached, asked, published>>
-----------------------------------------------------------------------------
(* Catalog.refresh: the request.                                           *)
Ask ==
  /\ asked = "idle" /\ asked' = "asked"
  /\ UNCHANGED <<doc, table, cached, published, said, under>>

(* publishFailure: an answer that fails or cannot be parsed.               *)
AskFails ==
  /\ asked = "asked" /\ asked' = "idle"
  /\ table' = IF table.state = "ready" THEN table ELSE Failed
  /\ UNCHANGED <<doc, cached, published, said, under>>

(* Result 201.                                                             *)
Unchanged ==
  /\ asked = "asked" /\ asked' = "idle"
  /\ table' = IF table.state = "ready" THEN table ELSE EmptyReady
  /\ UNCHANGED <<doc, cached, published, said, under>>

(* A full answer, which a mirror may give late, replaces only an older one.*)
Replaces(v) == table.state # "ready" \/ v > table.version

FullAnswer(v) ==
  /\ asked = "asked" /\ v <= published
  /\ IF Replaces(v) THEN table' = Full(v) /\ asked' = "save"
     ELSE UNCHANGED table /\ asked' = "idle"
  /\ UNCHANGED <<doc, cached, published, said, under>>

(* saveCache: the file is replaced by a rename, or kept.                   *)
Save ==
  /\ asked = "save" /\ asked' = "idle"
  /\ cached' \in {table.version, cached}
  /\ UNCHANGED <<doc, table, published, said, under>>

Update ==
  /\ published' \in {v \in Versions : v > published}
  /\ UNCHANGED <<doc, table, cached, asked, said, under>>

(* The process ends anywhere; New loads the cache before the first report. *)
Restart ==
  /\ table' = IF cached = NoCache THEN Loading ELSE Full(cached)
  /\ doc' = [screen |-> NoScreen, health |-> {}] /\ said' = Silence /\ under' = table'
  /\ asked' = "idle" /\ UNCHANGED <<cached, published>>

ProblemNext ==
  \/ \E d \in Reports : Apply(d)
  \/ Ask \/ AskFails \/ Unchanged \/ Save \/ Update \/ Restart
  \/ \E v \in Versions : FullAnswer(v)

ProblemSpec == ProblemInit /\ [][ProblemNext]_problemVars
-----------------------------------------------------------------------------
(* An announced problem is made of codes the report brought and a resolved *)
(* one of codes it took away: a catalog that arrives, fails or changes     *)
(* between two reports announces and resolves nothing (Store.Apply).       *)
NoEcho ==
  /\ UNION said.announced \subseteq said.fresh
  /\ UNION said.resolved \subseteq said.gone

(* Every visible code of the page is in exactly one problem (Problems).    *)
OneProblemEach ==
  \A c \in {c \in Reported(doc) : Visible(table, c)} :
    \E g \in Problems(doc, table) : c \in g /\ \A h \in Problems(doc, table) : c \in h => h = g

(* The table in use is never older than the one saved: no late answer and  *)
(* no restart takes it back behind the cache file, which is written after  *)
(* the table is published (Catalog.refresh, saveCache, New).               *)
NeverBehindFile == table.state = "ready" => cached <= table.version

ProblemsRight == NoEcho /\ OneProblemEach /\ NeverBehindFile
=============================================================================
