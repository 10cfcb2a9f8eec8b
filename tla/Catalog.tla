------------------------------ MODULE Catalog ------------------------------
(***************************************************************************)
(* The catalogue: the texts of a listing in its languages with the terms   *)
(* that a machine draft must use (services/locale.py,                      *)
(* services/locale_text.py), and the products with their variants          *)
(* (services/product.py, services/product_sheet.py).                       *)
(*                                                                         *)
(* A request reads a row, and writes the columns that it changed when its  *)
(* transaction is committed.  A text is a sequence of words.               *)
(***************************************************************************)
EXTENDS Naturals, SequencesExt, FiniteSetsExt, TLC

CONSTANTS Editor,      \* requests that write texts
          Phrase,      \* titles and bodies that a person writes
          Source,      \* language that drafts are made from
          Target,      \* language that drafts are made in
          Given,       \* the text of Source at first
          Term,        \* entries that the glossary may get
          Lower,       \* words that are another one in capitals
          MaxEdits,    \* bound on the requests for texts
          Clerk,       \* requests that write products
          Code,        \* codes of variants
          Cost,        \* costs that a clerk sends
          MaxVariants, \* MAX_SKUS_PER_SPU
          MaxSpu,      \* bound on the products
          MaxSku,      \* bound on the variants
          MaxWrites,   \* bound on the requests for products
          None

VARIABLES
    text,     \* per language, the row of listing_content that is not deleted
    terms,    \* the glossary from Source to Target, in the order of ids
    editor,   \* what a request for a text has read
    checked,  \* per language, what a person has written or confirmed
    mixed,    \* languages in which two requests crossed
    edits,
    spu,      \* the status of each product
    sku,      \* the variants
    clerk,    \* what a request for a product has read
    audit,    \* the changes of status in the audit log
    written,  \* per variant, the costs that were sent by who sees costs
    crossed,  \* products and variants that two requests wrote across each other
    writes

texts == <<text, terms, editor, checked, mixed, edits>>

products == <<spu, sku, clerk, audit, written, crossed, writes>>

vars == <<texts, products>>

Lang == {Source, Target}

Quality == {"UNTRANSLATED", "MT_DRAFT", "REVIEWED", "PUBLISHED"}

Idle == [does |-> "nothing"]

Spu == 1..MaxSpu

Sku == 1..MaxSku

Status == {"DRAFT", "ACTIVE"}

NoCost == [price |-> None, currency |-> None]

TypeOK ==
    /\ \A l \in Lang : text[l] # None => text[l].status \in Quality /\ text[l].id \in Nat
    /\ \A t \in Range(terms) : t \in Term
    /\ DOMAIN editor = Editor /\ DOMAIN checked = Lang /\ mixed \subseteq Lang /\ edits \in 0..MaxEdits
    /\ spu \in [Spu -> Status \cup {None}]
    /\ \A k \in Sku : sku[k] # None => sku[k].spu \in Spu /\ sku[k].code \in Code
    /\ DOMAIN clerk = Clerk /\ crossed \subseteq {"spu", "sku", "status"} \X (1..(MaxSpu + MaxSku))
    /\ writes \in 0..MaxWrites

Init ==
    /\ text = [l \in Lang |-> IF l = Source /\ Given # None
                              THEN [id |-> 0, status |-> "REVIEWED"] @@ Given ELSE None]
    /\ terms = <<>>
    /\ editor = [e \in Editor |-> Idle]
    /\ checked = [l \in Lang |-> IF l = Source THEN {Given} ELSE {}]
    /\ mixed = {}
    /\ edits = 0
    /\ spu = [s \in Spu |-> IF s = 1 THEN "DRAFT" ELSE None]
    /\ sku = [k \in Sku |-> None]
    /\ clerk = [c \in Clerk |-> Idle]
    /\ audit = <<>>
    /\ written = [k \in Sku |-> {}]
    /\ crossed = {}
    /\ writes = 0

-----------------------------------------------------------------------------
(* The terms of the glossary, and the words to avoid.                       *)

Folded(words) ==
    [i \in DOMAIN words |-> IF words[i] \in DOMAIN Lower THEN Lower[words[i]] ELSE words[i]]

Same(s, t) == Folded(s) = Folded(t)

\* apply_glossary: of entries for the same term the first counts.
Unique(entries) ==
    {entries[i] : i \in {i \in DOMAIN entries :
                             \A j \in 1..(i - 1) : ~Same(entries[j].source, entries[i].source)}}

MatchesAt(words, i, entries) ==
    {t \in entries : /\ i + Len(t.source) - 1 <= Len(words)
                     /\ Same(SubSeq(words, i, i + Len(t.source) - 1), t.source)}

\* The text from left to right, the longest term at each place: words and entries.
Pieces(words, entries) ==
    LET from[i \in 1..(Len(words) + 1)] ==
          IF i > Len(words) THEN <<>>
          ELSE LET found == MatchesAt(words, i, entries)
                   term == CHOOSE t \in found : \A u \in found : Len(u.source) <= Len(t.source)
               IN  IF found = {} THEN <<[hit |-> FALSE, words |-> <<words[i]>>]>> \o from[i + 1]
                   ELSE <<[hit |-> TRUE, term |-> term, words |-> term.target]>>
                        \o from[i + Len(term.source)]
    IN  from[1]

Rewritten(words, entries) ==
    FlattenSeq([i \in DOMAIN Pieces(words, Unique(entries)) |->
                    Pieces(words, Unique(entries))[i].words])

Hits(words, entries) == {p.term : p \in {p \in Range(Pieces(words, Unique(entries))) : p.hit}}

\* scan_sensitive: the keywords that the text contains.
Scanned(words, keywords) ==
    {k \in keywords : \E i, j \in DOMAIN words : Folded(SubSeq(words, i, j)) = Folded(k)}

-----------------------------------------------------------------------------
(* The texts.                                                               *)

Begin(e, job) ==
    /\ editor[e] = Idle /\ edits < MaxEdits
    /\ edits' = edits + 1
    /\ editor' = [editor EXCEPT ![e] = job]
    /\ UNCHANGED <<text, terms, checked, mixed, products>>

\* human_status
HumanStatus(row, new, confirm) ==
    IF new.title = <<>> /\ new.body = <<>> THEN "UNTRANSLATED"
    ELSE IF row # None /\ row.status = "MT_DRAFT" /\ ~confirm THEN "MT_DRAFT"
    ELSE "REVIEWED"

\* save_human
Save(e, l, new, confirm) ==
    Begin(e, [does |-> "save", lang |-> l, read |-> text[l],
              own |-> confirm \/ text[l] = None \/ text[l].status # "MT_DRAFT",
              new |-> [status |-> HumanStatus(text[l], new, confirm)] @@ new])

\* machine_draft reads the text of Source and the terms; without a text it is refused.
ReadSource(e) ==
    /\ text[Source] # None /\ (text[Source].title # <<>> \/ text[Source].body # <<>>)
    /\ Begin(e, [does |-> "source", lang |-> Target,
                 new |-> [title  |-> Rewritten(text[Source].title, terms),
                          body   |-> Rewritten(text[Source].body, terms),
                          status |-> "MT_DRAFT"]])

\* And then the row of Target.
ReadTarget(e) ==
    /\ editor[e].does = "source"
    /\ editor' = [editor EXCEPT ![e] = [does |-> "save", read |-> text[Target], own |-> FALSE]
                                       @@ [f \in {"lang", "new"} |-> editor[e][f]]]
    /\ UNCHANGED <<text, terms, checked, mixed, edits, products>>

\* assert_publishable
Publishable(row) == row.status = "REVIEWED" /\ row.title # <<>>

Publish(e, l) ==
    /\ text[l] # None /\ Publishable(text[l])
    /\ Begin(e, [does |-> "save", lang |-> l, read |-> text[l], own |-> FALSE,
                 new |-> [text[l] EXCEPT !.status = "PUBLISHED"]])

RemoveText(e, l) ==
    /\ text[l] # None
    /\ Begin(e, [does |-> "remove", lang |-> l, read |-> text[l], own |-> FALSE])

\* The columns of new that differ from what was read are written over row.
Merged(row, read, new) ==
    [f \in DOMAIN row |-> IF f \in DOMAIN new /\ new[f] # read[f] THEN new[f] ELSE row[f]]

\* An insert is refused when the language has a row (uq_listing_content_lang_active); an update
\* or a removal of a row that is deleted by now changes nothing that is shown.
CommitText(e) ==
    LET job == editor[e]
        l == job.lang
        row == text[l]
    IN  /\ job.does \in {"save", "remove"}
        /\ text' =
              IF job.does = "remove"
              THEN [text EXCEPT ![l] = IF row # None /\ row.id = job.read.id THEN None ELSE row]
              ELSE IF job.read = None
              THEN [text EXCEPT ![l] = IF row = None THEN [id |-> edits] @@ job.new ELSE row]
              ELSE [text EXCEPT ![l] = IF row # None /\ row.id = job.read.id
                                       THEN Merged(row, job.read, job.new) ELSE row]
        /\ checked' =
              IF job.own
              THEN [checked EXCEPT ![l] = @ \cup {[title |-> job.new.title, body |-> job.new.body]}]
              ELSE checked
        /\ mixed' = IF row # job.read THEN mixed \cup {l} ELSE mixed
        /\ editor' = [editor EXCEPT ![e] = Idle]
        /\ UNCHANGED <<terms, edits, products>>

\* create_glossary and update_glossary; a term has one row (uq_glossary_term_active).
SaveTerm(i, t) ==
    /\ edits < MaxEdits
    /\ i \in 1..(Len(terms) + 1)
    /\ \A j \in DOMAIN terms : j # i => ~Same(terms[j].source, t.source)
    /\ terms' = IF i > Len(terms) THEN Append(terms, t) ELSE [terms EXCEPT ![i] = t]
    /\ edits' = edits + 1
    /\ UNCHANGED <<text, editor, checked, mixed, products>>

\* remove_glossary
RemoveTerm(i) ==
    /\ edits < MaxEdits /\ i \in DOMAIN terms
    /\ terms' = RemoveAt(terms, i)
    /\ edits' = edits + 1
    /\ UNCHANGED <<text, editor, checked, mixed, products>>

-----------------------------------------------------------------------------
(* The products.                                                            *)

Ask(c, job) ==
    /\ clerk[c] = Idle /\ writes < MaxWrites
    /\ writes' = writes + 1
    /\ clerk' = [clerk EXCEPT ![c] = job]
    /\ UNCHANGED <<spu, sku, audit, written, crossed, texts>>

Live == {k \in Sku : sku[k] # None}

Variants(s) == {k \in Live : sku[k].spu = s}

Taken(code, but) == \E k \in Live \ but : sku[k].code = code

\* create_spu
Create(c, codes) ==
    /\ Len(codes) <= MaxVariants /\ IsInjective(codes)
    /\ \A i \in DOMAIN codes : ~Taken(codes[i], {})
    /\ Ask(c, [does |-> "create", products |-> <<codes>>])

\* import_file: what is wrong with the rows of a sheet; known codes are looked for last.
SheetErrors(rows, known, limit) ==
    IF rows = <<>> \/ Len(rows) > limit THEN {<<IF rows = <<>> THEN 0 ELSE limit + 1, "">>}
    ELSE LET Bad(column, Test(_)) == {<<i, column>> : i \in {i \in DOMAIN rows : Test(i)}}
             own == Bad("sku_code", LAMBDA i : rows[i].code = None
                                               \/ \E j \in 1..(i - 1) : rows[j].code = rows[i].code)
                    \cup Bad("title", LAMBDA i : ~rows[i].titled)
                    \cup Bad("weight_g", LAMBDA i : rows[i].weight <= 0)
         IN  IF own # {} THEN own ELSE Bad("sku_code", LAMBDA i : rows[i].code \in known)

\* A product of its own for every row.
Import(c, codes) ==
    /\ SheetErrors([i \in DOMAIN codes |-> [code |-> codes[i], titled |-> TRUE, weight |-> 1]],
                   {sku[k].code : k \in Live}, MaxSku) = {}
    /\ Ask(c, [does |-> "create", products |-> [i \in DOMAIN codes |-> <<codes[i]>>]])

\* resolve_cost_write: who does not see costs may not send one.
ResolveCost(row, sent, sees) ==
    LET cost == [f \in {"price", "currency"} |-> IF f \in DOMAIN sent THEN sent[f] ELSE row[f]]
    IN  IF DOMAIN sent = {} THEN [f \in {"price", "currency"} |-> row[f]]
        ELSE IF ~sees \/ (cost.price = None) # (cost.currency = None) THEN None
        ELSE cost

\* add_sku
Add(c, s, code, sent, sees) ==
    /\ spu[s] # None /\ Cardinality(Variants(s)) + 1 <= MaxVariants /\ ~Taken(code, {})
    /\ ResolveCost(NoCost, sent, sees) # None
    /\ Ask(c, [does |-> "add", spu |-> s, read |-> Variants(s), sees |-> sees,
               row |-> [spu |-> s, code |-> code] @@ ResolveCost(NoCost, sent, sees)])

\* update_sku
Patch(c, k, code, sent, sees) ==
    /\ sku[k] # None /\ ~Taken(code, {k})
    /\ ResolveCost(sku[k], sent, sees) # None
    /\ Ask(c, [does |-> "patch", sku |-> k, read |-> sku[k], sees |-> sees,
               new |-> [code |-> code] @@ ResolveCost(sku[k], sent, sees)])

\* update_spu
SetStatus(c, s, to) ==
    /\ spu[s] # None /\ spu[s] # to
    /\ Ask(c, [does |-> "status", spu |-> s, read |-> spu[s], to |-> to])

Refuse(c) ==
    /\ clerk' = [clerk EXCEPT ![c] = Idle]
    /\ UNCHANGED <<spu, sku, audit, written, crossed, writes, texts>>

\* Rows with consecutive ids, the unique index on the codes permitting.
CommitCreate(c) ==
    LET groups == clerk[c].products
        codes == FlattenSeq(groups)
        free == Max({0} \cup Live)
        first == Max({s \in Spu : spu[s] # None})
        Before(g) == Len(FlattenSeq(SubSeq(groups, 1, g)))
        GroupOf(i) == CHOOSE g \in DOMAIN groups : Before(g - 1) < i /\ i <= Before(g)
    IN  /\ clerk[c].does = "create"
        /\ free + Len(codes) <= MaxSku /\ first + Len(groups) <= MaxSpu
        /\ \A i \in DOMAIN codes : ~Taken(codes[i], {})
        /\ spu' = [s \in Spu |-> IF s > first /\ s <= first + Len(groups) THEN "DRAFT" ELSE spu[s]]
        /\ sku' = [k \in Sku |-> IF k > free /\ k <= free + Len(codes)
                                 THEN [spu |-> first + GroupOf(k - free), code |-> codes[k - free]]
                                      @@ NoCost
                                 ELSE sku[k]]
        /\ clerk' = [clerk EXCEPT ![c] = Idle]
        /\ UNCHANGED <<audit, written, crossed, writes, texts>>

CostOf(row) == [price |-> row.price, currency |-> row.currency]

CommitAdd(c) ==
    LET job == clerk[c]
        k == Max({0} \cup Live) + 1
    IN  /\ job.does = "add" /\ k \in Sku /\ ~Taken(job.row.code, {})
        /\ sku' = [sku EXCEPT ![k] = job.row]
        /\ written' = IF job.sees THEN [written EXCEPT ![k] = {CostOf(job.row)}] ELSE written
        /\ crossed' = IF Variants(job.spu) # job.read THEN crossed \cup {<<"spu", job.spu>>} ELSE crossed
        /\ clerk' = [clerk EXCEPT ![c] = Idle]
        /\ UNCHANGED <<spu, audit, writes, texts>>

\* What two requests leave is refused if it has a price without a currency (purchase_currency).
CommitPatch(c) ==
    LET job == clerk[c]
        k == job.sku
        row == Merged(sku[k], job.read, job.new)
    IN  /\ job.does = "patch"
        /\ (row.price = None) = (row.currency = None) /\ ~Taken(row.code, {k})
        /\ sku' = [sku EXCEPT ![k] = row]
        /\ written' = IF job.sees THEN [written EXCEPT ![k] = @ \cup {CostOf(job.new)}] ELSE written
        /\ crossed' = IF CostOf(sku[k]) # CostOf(job.read) THEN crossed \cup {<<"sku", k>>} ELSE crossed
        /\ clerk' = [clerk EXCEPT ![c] = Idle]
        /\ UNCHANGED <<spu, audit, writes, texts>>

\* The status and its entry of the audit log are committed together.
CommitStatus(c) ==
    LET job == clerk[c]
    IN  /\ job.does = "status"
        /\ spu' = [spu EXCEPT ![job.spu] = job.to]
        /\ audit' = Append(audit, [spu |-> job.spu, before |-> job.read, after |-> job.to])
        /\ crossed' = IF spu[job.spu] # job.read THEN crossed \cup {<<"status", job.spu>>} ELSE crossed
        /\ clerk' = [clerk EXCEPT ![c] = Idle]
        /\ UNCHANGED <<sku, written, writes, texts>>

-----------------------------------------------------------------------------
WritesText(e) ==
    \/ \E l \in Lang :
          \/ \E new \in [title : Phrase, body : Phrase], confirm \in BOOLEAN : Save(e, l, new, confirm)
          \/ Publish(e, l) \/ RemoveText(e, l)
    \/ ReadSource(e) \/ ReadTarget(e) \/ CommitText(e)

WritesProduct(c) ==
    \/ \E codes \in {<<>>} \cup UNION {[1..n -> Code] : n \in 1..2} : Create(c, codes) \/ Import(c, codes)
    \/ \E code \in Code, sent \in Cost, sees \in BOOLEAN :
          \/ \E s \in Spu : Add(c, s, code, sent, sees)
          \/ \E k \in Sku : Patch(c, k, code, sent, sees)
    \/ \E s \in Spu, to \in Status : SetStatus(c, s, to)
    \/ CommitCreate(c) \/ CommitAdd(c) \/ CommitPatch(c) \/ CommitStatus(c)
    \/ clerk[c] # Idle /\ Refuse(c)

Next ==
    \/ \E e \in Editor : WritesText(e)
    \/ \E i \in 1..2, t \in Term : SaveTerm(i, t)
    \/ \E i \in 1..2 : RemoveTerm(i)
    \/ \E c \in Clerk : WritesProduct(c)

Spec == Init /\ [][Next]_vars

-----------------------------------------------------------------------------
(***************************************************************************)
(* Where no two requests crossed, a text that is reviewed or published is  *)
(* word for word one that a person wrote or confirmed, and a published one *)
(* has a title (human_status, assert_publishable: a machine draft must be  *)
(* reviewed by a person before it is published).                           *)
(***************************************************************************)
TextsReviewed ==
    \A l \in Lang \ mixed : text[l] # None /\ text[l].status \in {"REVIEWED", "PUBLISHED"} =>
        /\ [title |-> text[l].title, body |-> text[l].body] \in checked[l]
        /\ text[l].status = "PUBLISHED" => text[l].title # <<>>

(***************************************************************************)
(* A draft uses every term (apply_glossary): where no translation holds a  *)
(* word of a term, the draft of a text contains no term any more; terms    *)
(* are replaced just when the text contains one (scan_sensitive), none     *)
(* that it does not contain, and of two entries for a term the first one.  *)
(***************************************************************************)
TermsForced(words, entries) ==
    LET sources == {t.source : t \in Range(entries)}
        hits == {t.source : t \in Hits(words, entries)}
        foreign == \A t, u \in Range(entries) :
                        Range(Folded(t.target)) \cap Range(Folded(u.source)) = {}
    IN  /\ foreign => Scanned(Rewritten(words, entries), sources) = {}
        /\ hits \subseteq Scanned(words, sources)
        /\ (hits = {}) = (Scanned(words, sources) = {})
        /\ \A t \in Hits(words, entries) :
              t = entries[CHOOSE i \in DOMAIN entries :
                              /\ Folded(entries[i].source) = Folded(t.source)
                              /\ \A j \in 1..(i - 1) : Folded(entries[j].source) # Folded(t.source)]

(***************************************************************************)
(* The rows of a sheet are found in order just when creating them one      *)
(* after the other would succeed (import_file checks all of them before it *)
(* creates any), and an error names a row of the sheet.                    *)
(***************************************************************************)
SheetTells(rows, known, limit) ==
    LET created[n \in 0..Len(rows)] ==
          IF n = 0 THEN known
          ELSE IF created[n - 1] # None /\ rows[n].code \notin created[n - 1] \cup {None}
                  /\ rows[n].titled /\ rows[n].weight > 0
          THEN created[n - 1] \cup {rows[n].code} ELSE None
        errors == SheetErrors(rows, known, limit)
    IN  /\ (errors = {}) = (Len(rows) \in 1..limit /\ created[Len(rows)] # None)
        /\ \A e \in errors : e[1] \in DOMAIN rows \/ rows = <<>>

(***************************************************************************)
(* Every code has one variant (uq_sku_tenant_id_sku_code_active).  Where   *)
(* no two requests crossed, a product has no more variants than allowed    *)
(* (assert_variant_room), a cost is one that somebody who sees costs sent  *)
(* in one piece (resolve_cost_write), and the audit log leads from the     *)
(* first status to the one of now, change by change (update_spu).          *)
(***************************************************************************)
CatalogTells ==
    /\ \A j, k \in Live : sku[j].code = sku[k].code => j = k
    /\ \A s \in Spu :
          /\ <<"spu", s>> \in crossed \/ Cardinality(Variants(s)) <= MaxVariants
          /\ LET changes == SelectSeq(audit, LAMBDA a : a.spu = s)
             IN  spu[s] = None \/ <<"status", s>> \in crossed
                 \/ \A i \in 1..(Len(changes) + 1) :
                       (IF i = 1 THEN "DRAFT" ELSE changes[i - 1].after)
                         = (IF i > Len(changes) THEN spu[s] ELSE changes[i].before)
    /\ \A k \in Live :
          /\ (sku[k].price = None) = (sku[k].currency = None)
          /\ <<"sku", k>> \in crossed \/ CostOf(sku[k]) \in written[k] \cup {NoCost}
=============================================================================
