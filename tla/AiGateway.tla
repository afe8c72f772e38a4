----------------------------- MODULE AiGateway -----------------------------
(***************************************************************************)
(* Every call of a model goes through _chat(): it is refused once today's  *)
(* tokens reach the cap, goes to the provider of the settings and, if that *)
(* fails, once more to OpenAI, except for jobs on a client's own data.     *)
(* The keys of a provider are rows of which the newest active one is used. *)
(***************************************************************************)
EXTENDS Naturals, FiniteSets

CONSTANTS
    AiCalls,        \* calls: each serves once
    PrivateCalls,   \* those for investigations, reply drafts and the GHL chat
    Keys,           \* rows of AiApiKey that may be created
    Unreadable,     \* those whose key the application's secrets do not decrypt
    EnvKeys,        \* providers with a key in the environment
    Cap, MaxTokens  \* the daily cap, and the most tokens one call, or a day's
                    \* embeddings, may use

Providers == {"OPENAI", "ANTHROPIC"}

ASSUME GatewayConstants == PrivateCalls \subseteq AiCalls /\ IsFiniteSet(AiCalls)
                           /\ Cap \in Nat \ {0} /\ MaxTokens \in Nat \ {0}

VARIABLES
    used,           \* tokens of today's log
    embedded,       \* those of them that embeddings used
    crowd,          \* history: most calls in progress at once today
    call,           \* per call: how far it is, and where it went
    aiConfig,       \* the provider of the settings
    key,            \* per key row: provider, whether it exists, whether active
    later,          \* pairs of rows of which the first was saved after the second
    saver,          \* per row: a request past the deactivation of the others
    edited,         \* rows that a request has read in order to edit them
    paired         \* history: providers that two requests, or an edit, may have
                    \* left with two keys since a key of theirs was last activated

callVars == <<used, embedded, crowd, call, aiConfig>>
keyVars == <<key, later, saver, edited, paired>>
gatewayVars == <<used, embedded, crowd, call, aiConfig, key, later, saver, edited, paired>>
-----------------------------------------------------------------------------
Call == [pc : {"new", "admitted", "first", "second", "done", "failed", "refused"},
         sent : SUBSET Providers, provider : Providers]
AiApiKey == [provider : Providers, exists : BOOLEAN, active : BOOLEAN]
Saver == {"none", "create", "activate"}

GatewayInit ==
    /\ used = 0 /\ embedded = 0 /\ crowd = 0 /\ aiConfig \in Providers
    /\ call = [c \in AiCalls |-> [pc |-> "new", sent |-> {}, provider |-> "OPENAI"]]
    /\ key \in [Keys -> [provider : Providers, exists : {FALSE}, active : {FALSE}]]
    /\ later = {} /\ saver = [k \in Keys |-> "none"] /\ edited = {} /\ paired = {}
-----------------------------------------------------------------------------
Under == {"admitted", "first", "second"}
InProgress == {c \in AiCalls : call[c].pc \in Under}
Proceeds(c, pc) == call' = [call EXCEPT ![c].pc = pc]

InUse(p) == {k \in Keys : key[k].provider = p /\ key[k].exists /\ key[k].active}
\* The newest active row is used, if it decrypts, and otherwise the environment.
HasKey(p) ==
    \/ \E k \in InUse(p) \ Unreadable : \A j \in InUse(p) \ {k} : <<k, j>> \in later
    \/ p \in EnvKeys

\* MUTANT of UnderCap: a call that may reach the cap is admitted beyond it.
MutUnderCap == used <= Cap

UnderCap == used < Cap

Admit(c) ==
    /\ call[c].pc = "new"
    /\ Proceeds(c, IF UnderCap THEN "admitted" ELSE "refused")
    /\ crowd' = IF UnderCap /\ Cardinality(InProgress) >= crowd THEN crowd + 1 ELSE crowd
    /\ UNCHANGED <<used, embedded, aiConfig, keyVars>>

\* The provider is read after the cap was checked, and the key after that.
Chat(c) ==
    /\ call[c].pc = "admitted"
    /\ call' = [call EXCEPT ![c] = [pc |-> "first", provider |-> aiConfig,
                                    sent |-> IF HasKey(aiConfig) THEN {aiConfig} ELSE {}]]
    /\ UNCHANGED <<used, embedded, crowd, aiConfig, keyVars>>

\* The log may miss the usage of an answer, or the whole row.
Answered(c) ==
    /\ call[c].pc \in {"first", "second"}
    /\ (IF call[c].pc = "first" THEN call[c].provider ELSE "OPENAI") \in call[c].sent
    /\ \E n \in 0..MaxTokens : used' = used + n
    /\ Proceeds(c, "done") /\ UNCHANGED <<embedded, crowd, aiConfig, keyVars>>

\* MUTANT of MayFallBack: every job falls back.
MutMayFallBack(c) == TRUE

MayFallBack(c) == c \notin PrivateCalls

\* A failure is logged without tokens. The fallback is skipped also if the model
\* that failed is the fallback itself.
CallFails(c) ==
    /\ call[c].pc \in {"first", "second"}
    /\ IF call[c].pc = "first" /\ MayFallBack(c)
       THEN \/ call' = [call EXCEPT ![c].pc = "second",
                                    ![c].sent = IF HasKey("OPENAI") THEN @ \cup {"OPENAI"} ELSE @]
            \/ call[c].provider = "OPENAI" /\ Proceeds(c, "failed")
       ELSE Proceeds(c, "failed")
    /\ UNCHANGED <<used, embedded, crowd, aiConfig, keyVars>>

\* A worker that dies leaves no row in the log.
CallerDies(c) ==
    /\ c \in InProgress /\ Proceeds(c, "failed")
    /\ UNCHANGED <<used, embedded, crowd, aiConfig, keyVars>>

\* Embeddings are logged with the rest, and no cap refuses them.
EmbedTexts ==
    /\ HasKey("OPENAI")
    /\ \E n \in 1..(MaxTokens - embedded) : used' = used + n /\ embedded' = embedded + n
    /\ UNCHANGED <<crowd, call, aiConfig, keyVars>>

\* Calls in progress over midnight are logged on the new day.
NewDay ==
    /\ used > 0
    /\ used' = 0 /\ embedded' = 0 /\ crowd' = Cardinality(InProgress)
    /\ UNCHANGED <<call, aiConfig, keyVars>>

SaveConfig(p) ==
    /\ p # aiConfig /\ aiConfig' = p
    /\ UNCHANGED <<used, embedded, crowd, call, keyVars>>
-----------------------------------------------------------------------------
Saved(k) == later' = (later \ (Keys \X {k})) \cup ({k} \X (Keys \ {k}))
\* k is, or is about to become, a key in use of p.
Taken(k, p) == key[k].provider = p /\ (k \in InUse(p) \/ saver[k] # "none")

\* MUTANT of Deactivates: the keys in use are left as they are.
MutDeactivates(j, p) == FALSE

Deactivates(j, p) == key[j].provider = p

\* Creating an active key, or activating one, first deactivates the others. This
\* also puts an end to two keys, unless another such request is under way.
DeactivateOthers(k) ==
    LET p == key[k].provider IN
    /\ saver[k] = "none" /\ (key[k].exists \/ k \notin edited)
    /\ key' = [j \in Keys |-> [key[j] EXCEPT !.active = @ /\ ~Deactivates(j, p)]]
    /\ saver' = [saver EXCEPT ![k] = IF key[k].exists THEN "activate" ELSE "create"]
    /\ paired' = IF \E j \in Keys : key[j].provider = p /\ saver[j] # "none"
                  THEN paired \cup {p} ELSE paired \ {p}
    /\ UNCHANGED <<later, edited, callVars>>

\* An activation saves its flag only, and fails if the row was deleted.
SaveKey(k) ==
    /\ saver[k] # "none" /\ saver' = [saver EXCEPT ![k] = "none"]
    /\ IF saver[k] = "create" \/ key[k].exists
       THEN key' = [key EXCEPT ![k].exists = TRUE, ![k].active = TRUE] /\ Saved(k)
       ELSE UNCHANGED <<key, later>>
    /\ UNCHANGED <<edited, paired, callVars>>

CreateInactive(k) ==
    /\ ~key[k].exists /\ saver[k] = "none" /\ k \notin edited
    /\ key' = [key EXCEPT ![k].exists = TRUE, ![k].active = FALSE] /\ Saved(k)
    /\ UNCHANGED <<saver, edited, paired, callVars>>

ReadKey(k) ==
    /\ key[k].exists /\ k \notin edited /\ edited' = edited \cup {k}
    /\ UNCHANGED <<key, later, saver, paired, callVars>>

\* An edit may set the provider and the flag and leaves the other keys alone. It
\* saves the whole row, also one that was deleted since it read it.
PatchKey(k) ==
    /\ k \in edited /\ edited' = edited \ {k} /\ UNCHANGED <<saver, callVars>>
    /\ \E p \in Providers, active \in BOOLEAN :
        /\ key' = [key EXCEPT ![k] = [provider |-> p, exists |-> TRUE, active |-> active]]
        /\ paired' = IF Taken(k, p)' /\ ~Taken(k, p) THEN paired \cup {p} ELSE paired
    /\ Saved(k)

DeleteKey(k) ==
    /\ key[k].exists
    /\ key' = [key EXCEPT ![k].exists = FALSE, ![k].active = FALSE]
    /\ UNCHANGED <<later, saver, edited, paired, callVars>>
-----------------------------------------------------------------------------
CallNext ==
    \/ \E c \in AiCalls : Admit(c) \/ Chat(c) \/ Answered(c) \/ CallFails(c) \/ CallerDies(c)
    \/ EmbedTexts \/ NewDay \/ \E p \in Providers : SaveConfig(p)

KeyNext == \E k \in Keys : \/ DeactivateOthers(k) \/ SaveKey(k) \/ CreateInactive(k)
                           \/ ReadKey(k) \/ PatchKey(k) \/ DeleteKey(k)

GatewayNext == CallNext \/ KeyNext

GatewaySpec == GatewayInit /\ [][GatewayNext]_gatewayVars
-----------------------------------------------------------------------------
GatewayTypeOK ==
    /\ used \in 0..(MaxTokens * (Cardinality(AiCalls) + 1)) /\ embedded \in 0..MaxTokens
    /\ crowd \in 0..Cardinality(AiCalls)
    /\ call \in [AiCalls -> Call] /\ aiConfig \in Providers /\ key \in [Keys -> AiApiKey]
    /\ later \subseteq Keys \X Keys /\ saver \in [Keys -> Saver]
    /\ edited \subseteq Keys /\ paired \subseteq Providers

\* The answers logged today pass the cap by less than the tokens of the calls that
\* were in progress at once, however many came one after the other, also when some
\* began the day before: each of them saw less than the cap.
SpendBounded == used - embedded < Cap + MaxTokens * crowd

\* What a client said is sent to one provider, the one the settings named when
\* the job asked, though a key, the settings or the provider fail meanwhile.
PrivateStays == \A c \in PrivateCalls : call[c].sent \subseteq {call[c].provider}

\* Creating and activating keys, in any order with deletions and edits, leaves a
\* provider one key in use. Two such requests at once, or an edit that turns a
\* key on, moves it here or saves it over its deletion, may leave two, until a key
\* of that provider is created or activated with no other request beside it.
OneKeyInUse == \A p \in Providers \ paired : Cardinality(InUse(p)) <= 1
=============================================================================
