----------------------------- MODULE Subdomains -----------------------------
(* The storefront subdomains of the businesses: a claim is validated, looked *)
(* up and saved with the whole row of its business, which other requests     *)
(* save too; a partial unique index is the guard that counts.                *)
EXTENDS Naturals, SequencesExt

CONSTANTS
  Tenants,       \* businesses
  SlugCalls,     \* requests in progress at once
  RawNames,      \* what owners type: sequences of characters
  MaxRowSaves,   \* bound: saves of a row
  LabelLength    \* 63, the longest label

ASSUME SubdomainsAssumption == LabelLength \in Nat \ {0} /\ MaxRowSaves \in Nat

VARIABLES
  indexed,  \* the unique index exists
  row,      \* row[b]: what counts of the row of Business: slug and status
  told,     \* told[b]: the slug its latest successful claim was answered with
  undone,   \* history: businesses whose slug a save has since set back
  unindexed, \* history: a row was saved without the index
  scall,    \* scall[c]: what a request is going to save
  rowSaves
slugVars == <<indexed, row, told, undone, unindexed, scall, rowSaves>>

NoSlug == << >>
Letters == "a" :> "a" @@ "b" :> "b" @@ "w" :> "w" @@ "A" :> "a" @@ "1" :> "1"
\* slugify: letters made small, anything else between them one hyphen, cut.
Trimmed(s) == IF s # << >> /\ Last(s) = "-" THEN Front(s) ELSE s
Slugify(raw) ==
  LET Add(s, ch) == IF ch \in DOMAIN Letters THEN Append(s, Letters[ch])
                    ELSE IF s = << >> \/ Last(s) = "-" THEN s ELSE Append(s, "-")
      long == Trimmed(FoldLeft(Add, << >>, raw))
  IN  Trimmed(SubSeq(long, 1, IF Len(long) < LabelLength THEN Len(long) ELSE LabelLength))
Slug == [raw \in RawNames |-> Slugify(raw)]
Reserved == {<<"w", "w", "w">>}
\* validateFormat, of what slugify has made.
Valid(slug) == Len(slug) >= 3 /\ slug \notin Reserved
TakenFor(slug, b) == \E other \in Tenants \ {b} : row[other].slug = slug

NoSlugCall == [at |-> "idle", op |-> "none", on |-> CHOOSE b \in Tenants : TRUE, value |-> NoSlug,
               read |-> [slug |-> NoSlug, status |-> "ACTIVE"]]
SlugsInit ==
  /\ indexed \in BOOLEAN
  /\ row = [b \in Tenants |-> [slug |-> NoSlug, status |-> "ACTIVE"]]
  /\ told = [b \in Tenants |-> NoSlug]
  /\ undone = {}
  /\ unindexed = FALSE
  /\ scall = [c \in SlugCalls |-> NoSlugCall]
  /\ rowSaves = 0

\* onModuleInit, of an instance that starts: it may fail, which is logged, and
\* it does fail when two rows already share a slug.
EnsureIndex ==
  /\ ~indexed
  /\ \A b \in Tenants : ~(row[b].slug # NoSlug /\ TakenFor(row[b].slug, b))
  /\ indexed' = TRUE
  /\ UNCHANGED <<row, told, undone, unindexed, scall, rowSaves>>

\* claim: valid and not taken, as far as the rows tell.
Claim(c, b, raw) ==
  /\ scall[c].at = "idle" /\ Valid(Slug[raw]) /\ ~TakenFor(Slug[raw], b)
  /\ scall' = [scall EXCEPT ![c] =
       [at |-> "find", op |-> "claim", on |-> b, value |-> Slug[raw], read |-> row[b]]]
  /\ UNCHANGED <<indexed, row, told, undone, unindexed, rowSaves>>
\* updateStatus and delete, which archives, of the administration.
SetStatus(c, b, status) ==
  /\ scall[c].at = "idle"
  /\ scall' = [scall EXCEPT ![c] =
       [at |-> "find", op |-> "status", on |-> b, value |-> status, read |-> row[b]]]
  /\ UNCHANGED <<indexed, row, told, undone, unindexed, rowSaves>>
\* business.update: the row is found, and saved with all of it.
FindRowOf(c) ==
  /\ scall[c].at = "find"
  /\ scall' = [scall EXCEPT ![c].at = "save", ![c].read = row[scall[c].on]]
  /\ UNCHANGED <<indexed, row, told, undone, unindexed, rowSaves>>

\* Mutant: the index is gone, though it was made.
IndexIgnores(slug, b) == FALSE
IndexRefuses(slug, b) == indexed /\ slug # NoSlug /\ TakenFor(slug, b)
SaveRowOf(c) ==
  LET b == scall[c].on
      claim == scall[c].op = "claim"
      after == IF claim THEN [scall[c].read EXCEPT !.slug = scall[c].value]
               ELSE [scall[c].read EXCEPT !.status = scall[c].value]
  IN
  /\ scall[c].at = "save" /\ rowSaves < MaxRowSaves
  /\ rowSaves' = rowSaves + 1
  /\ scall' = [scall EXCEPT ![c] = NoSlugCall]
  /\ IF IndexRefuses(after.slug, b) THEN UNCHANGED <<row, told, undone, unindexed>>
     ELSE /\ row' = [row EXCEPT ![b] = after]
          /\ told' = IF claim THEN [told EXCEPT ![b] = after.slug] ELSE told
          /\ undone' = IF claim THEN undone \ {b}
                       ELSE IF after.slug # row[b].slug THEN undone \cup {b} ELSE undone
          /\ unindexed' = (unindexed \/ ~indexed)
  /\ UNCHANGED indexed

SlugsNext ==
  \/ EnsureIndex
  \/ \E c \in SlugCalls :
       \/ \E b \in Tenants, raw \in RawNames : Claim(c, b, raw)
       \/ \E b \in Tenants, status \in {"ACTIVE", "SUSPENDED"} : SetStatus(c, b, status)
       \/ FindRowOf(c) \/ SaveRowOf(c)
SlugsSpec == SlugsInit /\ [][SlugsNext]_slugVars

\* resolveBySlug: the tenants a storefront's host may lead to.
Resolved(raw) == {b \in Tenants : row[b].slug = Slug[raw] /\ Slug[raw] # NoSlug}
-----------------------------------------------------------------------------
SlugsTypeOK ==
  /\ \A b \in Tenants : \A slug \in {row[b].slug, told[b]} : slug = NoSlug \/ Valid(slug)
  /\ undone \subseteq Tenants /\ rowSaves <= MaxRowSaves

\* Every storefront's host leads to one tenant, and no two owners were told the
\* same one is theirs, whatever they typed and however their claims overlapped;
\* excepted are an index that could not be made, and a slug set back by the save
\* of an administrator who had read the row before.
NoSharedStorefront ==
  unindexed \/ /\ \A raw \in RawNames : Cardinality(Resolved(raw)) <= 1
               /\ \A a, b \in Tenants \ undone : a # b => told[a] = NoSlug \/ told[a] # told[b]
=============================================================================
