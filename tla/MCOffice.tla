------------------------------ MODULE MCOffice ------------------------------
(***************************************************************************)
(* The team, its sessions, the builds, their library, the gateway to the   *)
(* models and the stored secrets beside each other: they share no state    *)
(* that their properties read, so a behaviour moves one "part" of them.    *)
(***************************************************************************)
EXTENDS Accounts, Sessions, Builds, Library, AiGateway, Vault, TLC

VARIABLE part

OneKey == CHOOSE k \in Keys : TRUE
\* Beside the calls one key is created, before any tokens are logged, and deleted;
\* all that is done to keys has a part of its own.
BesideCalls ==
    /\ edited' = {} /\ \A k \in Keys \ {OneKey} : key'[k] = key[k] /\ saver'[k] = "none"
    /\ key'[OneKey].exists = key'[OneKey].active
    /\ used' > 0 => saver'[OneKey] = "none"

\* A build that the model has drafted is treated like a draft, and one whose review
\* asks for changes like one that is ready for review.
Alike == {"AI_DRAFTED", "CHANGES_REQUESTED"}

\* The parts that stand still start from one state only. Which user is the active
\* superuser of the first state does not matter; one key at least is OpenAI's.
Init ==
    /\ part \in {"team", "sessions", "builds", "library", "gateway", "keys", "vault"}
    /\ AccountInit /\ SessionInit /\ BuildInit /\ LibraryInit /\ GatewayInit /\ VaultInit
    /\ account[CHOOSE u \in Users : TRUE] = Member("superuser", FALSE)
    /\ part # "team" => /\ account = [u \in Users |-> Member("superuser", FALSE)]
                        /\ \A l \in Links : link[l].user = NoUser
    /\ build.status = "DRAFT"
    /\ part # "gateway" => aiConfig = "OPENAI"
    /\ part \notin {"gateway", "keys"} => \A k \in Keys : key[k].provider = "OPENAI"
    /\ key[OneKey].provider = "OPENAI"

Next ==
    /\ UNCHANGED part
    /\ IF part = "team" THEN AccountNext ELSE UNCHANGED accountVars
    /\ IF part = "sessions" THEN SessionNext ELSE UNCHANGED sessionVars
    /\ IF part = "builds" THEN BuildNext /\ build'.status \notin Alike ELSE UNCHANGED buildVars
    /\ IF part = "library" THEN LibraryNext ELSE UNCHANGED libraryVars
    /\ IF part = "gateway" THEN GatewayNext /\ BesideCalls
       ELSE IF part = "keys" THEN KeyNext ELSE UNCHANGED gatewayVars
    /\ IF part = "vault" THEN VaultNext ELSE UNCHANGED vaultVars

\* Calls of the other jobs are alike.
CallSymmetry == Permutations(AiCalls \ PrivateCalls)

Spec == Init /\ [][Next]_<<part, accountVars, sessionVars, buildVars, libraryVars,
                           gatewayVars, vaultVars>>

\* The rows, requests, messages and calls of all six are what their models say.
OfficeTypesOK ==
    /\ part = "team" => AccountTypeOK
    /\ part = "sessions" => SessionTypeOK
    /\ part = "builds" => BuildTypeOK
    /\ part = "library" => LibraryTypeOK
    /\ part \in {"gateway", "keys"} => GatewayTypeOK
    /\ part = "vault" => VaultTypeOK

\* The team keeps a superuser, removals and passwords last, and a login, an
\* invitation and an address get one token, one account and their mails.
TeamKept == /\ part = "team" => SuperuserLeft /\ RemovedStays /\ PasswordsKept
            /\ part = "sessions" => SessionsKept

\* A build shows the status chosen for it, leaves one reference, closes its client
\* updates only when all are resolved, and keeps its blockers.
BuildKept == part = "builds" => StatusIsChosen /\ GoldOnce /\ UpdatesResolved

\* Both, of requests that save whole rows as they once read them.
RecordsKept == TeamKept /\ BuildKept

\* The store follows the library, and no model's summary replaces a person's.
LibraryKept == part = "library" => IndexFollows /\ SummaryKept

\* Logged answers pass the cap only by what was in progress at once, and a
\* client's words go to the one provider the settings named.
AiKept == part = "gateway" => SpendBounded /\ PrivateStays

\* A provider has one key in use, and a rotation of the secrets loses none.
KeysKept == /\ part \in {"gateway", "keys"} => OneKeyInUse
            /\ part = "vault" => SecretsKept
=============================================================================
