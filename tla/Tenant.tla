-------------------------------- MODULE Tenant --------------------------------
(***************************************************************************)
(* What serves a tenant beside its orders: the onboarding, the users, the  *)
(* notifications, the chatbot, its knowledge and what it learns from       *)
(* corrections.  They share no state here; a behaviour takes the steps of  *)
(* one of them, so that a run has the states of each and not their         *)
(* product.                                                                *)
(***************************************************************************)
EXTENDS Onboarding

CONSTANTS Signups, Guests, MaxUsers, MaxEdits, MaxTrouble,
          Tenants, Owner, Numbers, Purposes, DefaultTypes, Events, Type, MaxSends,
          Calls, Batch, Topics, Threshold, KeepRecent, Room,
          Urls, Pages, Kinds, Home, Edited, MaxDocs, MaxSyncs, MaxChanges,
          Runs, Texts, Limit, DistilFrom, MaxLessons, MaxSlips
VARIABLES part,
          tenants, users, perms, ids, tokens, at, call, edits, troubles, touched,
          settings, saves, templates, submits, keys, procs, rows, gone, excuses, counts,
          conv, table, last, calls, context, summaries, handoffs, forgotten, promised, failures,
          site, sources, docs, docIds, made, syncs, stage, sync, changes, messy,
          lessons, rules, work, word, missteps

A == INSTANCE Accounts WITH Tenants <- Signups, pc <- at, req <- call
W == INSTANCE WhatsApp WITH lost <- gone
C == INSTANCE Chatbot WITH troubles <- failures
K == INSTANCE Knowledge WITH MaxRequests <- MaxSyncs, ids <- docIds, begun <- syncs, pc <- stage, req <- sync
L == INSTANCE Corrections WITH Threshold <- DistilFrom, MaxTrouble <- MaxSlips, troubles <- missteps

ASSUME TenantAssumption ==
    /\ A!AccountsAssumption /\ W!WhatsAppAssumption /\ C!ChatbotAssumption /\ K!KnowledgeAssumption
    /\ L!CorrectionsAssumption

aVars == <<tenants, users, perms, ids, tokens, at, call, edits, troubles, touched>>
wVars == <<settings, saves, templates, submits, keys, procs, rows, gone, excuses, counts>>
cVars == <<conv, table, last, calls, context, summaries, handoffs, forgotten, promised, failures>>
kVars == <<site, sources, docs, docIds, made, syncs, stage, sync, changes, messy>>
lVars == <<lessons, rules, work, word, missteps>>

\* The site is what it is while others take their steps.
TenantInit ==
  /\ Init /\ A!Init /\ W!Init /\ C!Init /\ K!Init /\ L!Init
  /\ part \in {"onboarding", "accounts", "notices", "chat", "knowledge", "corrections"}
  /\ part # "knowledge" => \A u \in Urls : site[u] = <<>>

TenantNext ==
  \/ part = "onboarding" /\ Next /\ UNCHANGED <<part, aVars, wVars, cVars, kVars, lVars>>
  \/ part = "accounts" /\ A!Next /\ UNCHANGED <<part, vars, wVars, cVars, kVars, lVars>>
  \/ part = "notices" /\ W!Next /\ UNCHANGED <<part, vars, aVars, cVars, kVars, lVars>>
  \/ part = "chat" /\ C!Next /\ UNCHANGED <<part, vars, aVars, wVars, kVars, lVars>>
  \/ part = "knowledge" /\ K!Next /\ UNCHANGED <<part, vars, aVars, wVars, cVars, lVars>>
  \/ part = "corrections" /\ L!Next /\ UNCHANGED <<part, vars, aVars, wVars, cVars, kVars>>

TenantSpec == TenantInit /\ [][TenantNext]_<<part, vars, aVars, wVars, cVars, kVars, lVars>>

\* What each promises of overlapping requests, deliveries and calls.
OwnerGetsIn == A!OwnerGetsIn
NoticeBudget == W!NoticeBudget
RowsTellTheTruth == W!RowsTellTheTruth
OnlySummarisedGo == C!OnlySummarisedGo
PromiseIsFlagged == C!PromiseIsFlagged
SyncIsFaithful == K!SyncIsFaithful
LastWordIsTaught == L!LastWordIsTaught
=============================================================================
