------------------------------ MODULE Library ------------------------------
(***************************************************************************)
(* One document of the build library and its chunks in the vector store,   *)
(* which is another database: every save queues a job that embeds the      *)
(* document again, a deletion one that drops its chunks, and an upload one *)
(* that asks the model to summarise it. Documents share nothing.           *)
(***************************************************************************)
EXTENDS Naturals, FiniteSets

CONSTANTS
    Jobs,           \* messages of the queue: each serves once
    MaxText         \* bound on the texts the document has had

ASSUME LibraryConstants == MaxText \in Nat \ {0}

VARIABLES
    doc,            \* the row of the document
    editor,         \* an edit under way: the row it read, or none
    job,            \* per message: what it is for and how far its worker is
    chunks,         \* the store: per chunk set, the content and its writer
    unsynced,       \* history: a message was lost, died, or two worked at once
    human,          \* history: the summary a person wrote last (0: none)
    late            \* history: that summary came while a model was answering

libraryVars == <<doc, editor, job, chunks, unsynced, human, late>>
-----------------------------------------------------------------------------
\* The summary is blank, the model's or a person's; the text stands for all else
\* that the chunks carry, its title and its client, and is numbered.
Summary == {"blank", "ai", "human"}
BuildKnowledge == [present : BOOLEAN, text : 0..MaxText, summary : Summary, usable : BOOLEAN]
Kinds == {"none", "reindex", "remove", "enrich"}
Job == [kind : Kinds, pc : {"idle", "queued", "read", "embed", "done"}, row : BuildKnowledge]

NoDoc == [present |-> FALSE, text |-> 0, summary |-> "blank", usable |-> FALSE]
Unused == [kind |-> "none", pc |-> "idle", row |-> NoDoc]

LibraryInit ==
    /\ doc = NoDoc /\ editor = NoDoc
    /\ job = [j \in Jobs |-> Unused] /\ chunks = {}
    /\ unsynced = FALSE /\ human = 0 /\ late = FALSE
-----------------------------------------------------------------------------
JobAt(j, pc) == job[j].pc = pc
Working(j) == job[j].pc \in {"read", "embed"}
Indexing(j) == job[j].kind = "reindex" /\ Working(j)
Enriching(j) == job[j].kind = "enrich" /\ Working(j)
Outstanding == \E j \in Jobs : job[j].kind \in {"reindex", "remove"} /\ (JobAt(j, "queued") \/ Working(j))
Queued(f, j, kind) == [f EXCEPT ![j] = [Unused EXCEPT !.kind = kind, !.pc = "queued"]]
Ended(f, j) == [f EXCEPT ![j] = [Unused EXCEPT !.pc = "done"]]

\* Messages are alike: the next one is any that is unused.
FreshJob(f) == {j \in Jobs : f[j].pc = "idle" /\ j = CHOOSE k \in Jobs : f[k].pc = "idle"}

\* post_save queues a reindex; with the broker down there is none, and no error.
Signal(f, kind) ==
    \/ \E j \in FreshJob(f) : job' = Queued(f, j, kind) /\ UNCHANGED unsynced
    \/ job' = f /\ unsynced' = TRUE

\* What a person's save leaves as the summary, and whether a model is answering.
Writes(summary) ==
    /\ human' = IF summary = "human" THEN doc'.text ELSE 0
    /\ late' = \E j \in Jobs : Enriching(j)

\* A document, uploaded or promoted from a build, is also queued for its summary,
\* even if an upload comes with one.
Upload(summary, usable) ==
    /\ doc = NoDoc
    /\ doc' = [present |-> TRUE, text |-> 1, summary |-> summary, usable |-> usable]
    /\ Writes(summary)
    /\ \/ \E j \in FreshJob(job) : Signal(Queued(job, j, "enrich"), "reindex")
       \/ Signal(job, "reindex")
    /\ UNCHANGED <<editor, chunks>>

OpenEditor ==
    /\ doc.present /\ ~editor.present /\ editor' = doc
    /\ UNCHANGED <<doc, job, chunks, unsynced, human, late>>

\* An edit saves the whole row: a new title, a summary, or whether it is used.
SaveEdit ==
    /\ editor.present /\ doc.present
    /\ \/ editor.text < MaxText /\ doc' = [editor EXCEPT !.text = @ + 1]
       \/ \E summary \in {"blank", "human"} : doc' = [editor EXCEPT !.summary = summary]
       \/ doc' = [editor EXCEPT !.usable = ~@]
    /\ Writes(doc'.summary) /\ editor' = NoDoc
    /\ Signal(job, "reindex") /\ UNCHANGED chunks

\* A delivery refreshes the document of its build and blanks the summary.
PromoteBuild ==
    /\ doc.present /\ doc.text < MaxText
    /\ doc' = [doc EXCEPT !.text = @ + 1, !.summary = "blank", !.usable = TRUE]
    /\ human' = 0
    /\ \/ \E j \in FreshJob(job) : Signal(Queued(job, j, "enrich"), "reindex")
       \/ Signal(job, "reindex")
    /\ UNCHANGED <<editor, chunks, late>>

Delete ==
    /\ doc.present /\ doc' = [doc EXCEPT !.present = FALSE] /\ editor' = NoDoc
    /\ human' = 0
    /\ Signal(job, "remove") /\ UNCHANGED <<chunks, late>>
-----------------------------------------------------------------------------
\* The row as it is now; for one that is gone the chunks are dropped.
ReindexKnowledge(j) ==
    /\ job[j].kind = "reindex" /\ JobAt(j, "queued")
    /\ unsynced' = (unsynced \/ \E k \in Jobs : Indexing(k))
    /\ IF doc.present
       THEN job' = [job EXCEPT ![j].pc = "read", ![j].row = doc] /\ UNCHANGED chunks
       ELSE job' = Ended(job, j) /\ chunks' = {}
    /\ UNCHANGED <<doc, editor, human, late>>

Drop == chunks' = {}

DropChunks(j) ==
    /\ job[j].kind = "reindex" /\ JobAt(j, "read")
    /\ Drop
    /\ job' = IF job[j].row.usable THEN [job EXCEPT ![j].pc = "embed"] ELSE Ended(job, j)
    /\ UNCHANGED <<doc, editor, unsynced, human, late>>

Content(row) == [text |-> row.text, summary |-> row.summary]

IndexKnowledge(j) ==
    /\ job[j].kind = "reindex" /\ JobAt(j, "embed")
    /\ chunks' = chunks \cup {[content |-> Content(job[j].row), by |-> j]}
    /\ job' = Ended(job, j) /\ UNCHANGED <<doc, editor, unsynced, human, late>>

\* The embedding may fail: the message is tried again, from the row up to twice.
EmbeddingFails(j) ==
    /\ job[j].kind = "reindex" /\ JobAt(j, "embed")
    /\ \/ job' = Queued(job, j, "reindex") /\ UNCHANGED unsynced
       \/ job' = Ended(job, j) /\ unsynced' = TRUE
    /\ UNCHANGED <<doc, editor, chunks, human, late>>

RemoveChunks(j) ==
    /\ job[j].kind = "remove" /\ JobAt(j, "queued")
    /\ chunks' = {} /\ job' = Ended(job, j)
    /\ unsynced' = (unsynced \/ \E k \in Jobs : Indexing(k))
    /\ UNCHANGED <<doc, editor, human, late>>

EnrichKnowledge(j) ==
    /\ job[j].kind = "enrich" /\ JobAt(j, "queued")
    /\ job' = IF doc.present THEN [job EXCEPT ![j].pc = "read", ![j].row.summary = doc.summary]
              ELSE Ended(job, j)
    /\ UNCHANGED <<doc, editor, chunks, unsynced, human, late>>

\* MUTANT of Blank: the model's summary is saved over any other.
MutBlank(row) == TRUE

Blank(row) == row.summary = "blank"

\* What was blank when the row was read is filled; saving it queues a reindex.
FillBlanks(j) ==
    /\ Enriching(j)
    /\ IF ~doc.present THEN job' = Ended(job, j) /\ UNCHANGED <<doc, unsynced>>
       ELSE /\ doc' = IF Blank(job[j].row) THEN [doc EXCEPT !.summary = "ai"] ELSE doc
            /\ Signal(Ended(job, j), "reindex")
    /\ UNCHANGED <<editor, chunks, human, late>>

\* No summary, an error after the retry, or a worker that dies.
JobEnds(j) ==
    /\ Working(j) \/ JobAt(j, "queued")
    /\ job' = Ended(job, j)
    /\ unsynced' = (unsynced \/ job[j].kind # "enrich")
    /\ UNCHANGED <<doc, editor, chunks, human, late>>
-----------------------------------------------------------------------------
LibraryNext ==
    \/ \E summary \in {"blank", "human"}, usable \in BOOLEAN : Upload(summary, usable)
    \/ OpenEditor \/ SaveEdit \/ PromoteBuild \/ Delete
    \/ \E j \in Jobs :
        \/ ReindexKnowledge(j) \/ DropChunks(j) \/ IndexKnowledge(j) \/ EmbeddingFails(j)
        \/ RemoveChunks(j) \/ EnrichKnowledge(j) \/ FillBlanks(j) \/ JobEnds(j)

LibrarySpec == LibraryInit /\ [][LibraryNext]_libraryVars
-----------------------------------------------------------------------------
LibraryTypeOK ==
    /\ doc \in BuildKnowledge /\ editor \in BuildKnowledge /\ job \in [Jobs -> Job]
    /\ chunks \subseteq [content : [text : 0..MaxText, summary : Summary], by : Jobs]
    /\ unsynced \in BOOLEAN /\ human \in 0..MaxText /\ late \in BOOLEAN

\* With no job for it outstanding the store holds the document once, as it is
\* now, and nothing of one that is deleted or not to be used, unless a message
\* was lost or two jobs worked on the document at once.
IndexFollows ==
    \/ unsynced \/ Outstanding
    \/ IF doc.present /\ doc.usable
       THEN \E j \in Jobs : chunks = {[content |-> Content(doc), by |-> j]}
       ELSE chunks = {}

\* The model fills what was blank when it was asked: a person's summary written
\* before that or after the answer stays, whatever jobs are late or repeated.
SummaryKept == human # 0 /\ doc.present /\ ~late => doc.summary = "human"
=============================================================================
