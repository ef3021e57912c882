------------------------------ MODULE Inbound -------------------------------
(***************************************************************************)
(* What comes in from Shopify, and the catalog that it goes into: the      *)
(* webhooks of the products, which lead to a continuous scan               *)
(* (ContinuousScan), those of the shop, which lead to its deletion         *)
(* (Installation), the result files of a full scan, which become the rows  *)
(* that it publishes (ScanResults), and the tables that it and the         *)
(* continuous scans publish into (Catalog).  The webhooks are received by  *)
(* the same code and meet nowhere else; what a full scan publishes is any  *)
(* reading of the shop to a continuous scan, and any content to the        *)
(* catalog.  So one of the four is looked at at a time.                    *)
(***************************************************************************)
EXTENDS ContinuousScan, Sequences, FiniteSets

CONSTANTS Subjects,  \* those that are looked at
          MaxHooks, Routed, ColonsAccepted, MaxAuths,
          Types, Images, Products, Covers, Texts, Null, NoImage, Library,
          MaxAttempts, FlushSize, MaxEdits, Txs

ASSUME ResultsAssumption ==
  /\ Types \subseteq {"PRODUCT_MEDIA", "FILES", "COLLECTION_IMAGE", "ARTICLE_IMAGE"}
  /\ Cardinality(Types \ {"PRODUCT_MEDIA", "FILES"}) <= 1  \* Covers are of one type
  /\ Images \cap Covers = {} /\ Library \notin Products /\ IsFiniteSet(Products)
  /\ Null # NoImage /\ {Null, NoImage, "absent"} \cap Texts = {}
  /\ "absent" \notin {Null, NoImage}
  /\ {MaxAttempts, FlushSize} \subseteq Nat \ {0} /\ MaxEdits \in Nat

VARIABLES subject,
  installed, shop, ids, auth, auths, session, rows, calls, busy, hook, status, processing, queued,
  kept, deletion, missed,
  text, users, file, staged, attempt, task, derive, target, usage, chosen, edits, raced,
  shown, drafts, marks, skipped, tx, asked, outdated, overwritten

shopVars ==
  <<installed, shop, ids, auth, auths, session, rows, calls, busy, hook, status, processing, queued,
    kept, deletion, missed>>
productVars == <<live, receipt, debounce, product, catalog, scan, scans, seen>>
resultVars ==
  <<text, users, file, staged, attempt, task, derive, target, usage, chosen, edits, raced>>
catalogVars == <<shown, drafts, marks, skipped, tx, asked, outdated, overwritten>>
inboundVars == <<subject, vars, shopVars, resultVars, catalogVars>>

-----------------------------------------------------------------------------
Shop == INSTANCE Installation WITH event <- status

Results == INSTANCE ScanResults WITH published <- chosen

Publication == INSTANCE Catalog WITH published <- shown

\* What the results start from matters where they are looked at only.
InboundInit ==
  /\ subject \in Subjects
  /\ Init /\ Shop!Init /\ Results!Init /\ Publication!Init
  /\ subject # "results" => text = [x \in Images \cup Covers |-> Null] /\ users = {}

InboundNext ==
  \/ /\ subject = "products" /\ Next
     /\ UNCHANGED <<subject, shopVars, resultVars, catalogVars>>
  \/ /\ subject = "shop" /\ Shop!Next
     /\ UNCHANGED <<subject, productVars, resultVars, catalogVars>>
  \/ /\ subject = "results" /\ Results!Next
     /\ UNCHANGED <<subject, productVars, shopVars, catalogVars>>
  \/ /\ subject = "catalog" /\ Publication!Next
     /\ UNCHANGED <<subject, vars, shopVars, resultVars>>

\* The worker of the products, while they are looked at; of the others nothing is said
\* that must happen.
InboundFairness == WF_vars(subject = "products" /\ ProductJob)

InboundSpec == InboundInit /\ [][InboundNext]_inboundVars /\ InboundFairness

-----------------------------------------------------------------------------
\* Once the row of a shop is gone nothing of it is left in any table.
DeletedIsWhole == Shop!DeletedIsWhole

\* What is published is what the scan read: of every type whose last attempt was
\* derived, the rows of that attempt's file, whole.
PublishedIsRead == Results!PublishedIsRead

\* A text survives the merge of the product media with the files unless the two
\* derive jobs ran at the same time.
NonEmptyWinsAlone == Results!NonEmptyWinsAlone

\* An image is present exactly while a usage of it is, unless its last transaction
\* worked with usages that another had replaced.
PresentIffUsed == Publication!PresentIffUsed

\* Nothing that is gone or has a text is offered for generation or writeback.
WorkableIsThere == Publication!WorkableIsThere

\* The review list has an image under those who use it.
GroupsFollowUsages == Publication!GroupsFollowUsages
=============================================================================
