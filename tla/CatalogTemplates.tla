-------------------------- MODULE CatalogTemplates --------------------------
(***************************************************************************)
(* What a product must say: the category tree, the attributes and their    *)
(* options, the rules by which a category asks for them, and a product     *)
(* that is checked against the rules when it is written, submitted and     *)
(* approved while an admin changes them.                                   *)
(*                                                                         *)
(* A product's transaction holds an advisory lock shared, a change of a    *)
(* rule takes it alone; `tx' is a submission or decision between its check *)
(* and its commit.  Values are kept by what the checks tell apart.         *)
(***************************************************************************)
EXTENDS Naturals, Sequences, FiniteSets, SequencesExt

CONSTANTS
  Categories, Root,      \* Root stands for "no parent"
  MaxCategoryLevel,
  Texts, Numbers, Booleans, Selects, MultiSelects,   \* attributes by data type
  Packaging,             \* the reserved codes pkg_weight, ..., among Numbers
  Axes,                  \* variant-defining attributes, among Selects
  OptionValues,
  MaxRules               \* bound on changes of rules

Attributes == Texts \cup Numbers \cup Booleans \cup Selects \cup MultiSelects
IsChoice(a) == a \in Selects \cup MultiSelects
Options == {<<a, v>> : a \in Attributes, v \in OptionValues}

VARIABLES
  category,    \* categories: level and parent, level 0 when there is none yet
  attribute,   \* attributes created so far
  option,      \* attribute_options
  rule,        \* the current rule of each category and attribute
  rules,       \* rules written so far
  product,     \* the product with its values, packaging and variants
  tx           \* a submission or a decision that passed its checks

vars == <<category, attribute, option, rule, rules, product, tx>>

Unused == "none"
Idle == "none"
Nothing == [value |-> "absent", options |-> {}]

-----------------------------------------------------------------------------
(* The admin's part.                                                       *)

Exists(c) == category[c].level > 0

\* At most three levels.
CreateCategory(c, parent) ==
  /\ ~Exists(c)
  /\ parent # Root => Exists(parent) /\ category[parent].level < MaxCategoryLevel
  /\ category' = [category EXCEPT ![c] =
       [parent |-> parent, level |-> IF parent = Root THEN 1 ELSE category[parent].level + 1]]
  /\ UNCHANGED <<attribute, option, rule, rules, product, tx>>

\* A code names one attribute.
CreateAttribute(a) ==
  /\ a \notin attribute
  /\ attribute' = attribute \cup {a}
  /\ UNCHANGED <<category, option, rule, rules, product, tx>>

AddOption(a, v) ==
  /\ a \in attribute /\ IsChoice(a) /\ <<a, v>> \notin option
  /\ option' = option \cup {<<a, v>>}
  /\ UNCHANGED <<category, attribute, rule, rules, product, tx>>

WriteUnlocked == TRUE

\* The rule's insert waits for every product transaction to end.
InsertAllowed == tx = Idle

\* A new version of the pair's rule; the earlier ones stay as they are.
SetCategoryRule(c, a, kind) ==
  /\ Exists(c) /\ a \in attribute /\ rules < MaxRules
  /\ InsertAllowed
  /\ rule' = [rule EXCEPT ![c][a] = kind] /\ rules' = rules + 1
  /\ UNCHANGED <<category, attribute, option, product, tx>>

-----------------------------------------------------------------------------
(* The template of a category.                                             *)

\* The category's ancestors from the top, itself last.
ancestorChainRootFirst(c) ==
  LET p == category[c].parent
      g == IF p = Root THEN Root ELSE category[p].parent
  IN  IF p = Root THEN <<c>> ELSE IF g = Root THEN <<p, c>> ELSE <<g, p, c>>

Chain(c) == Reverse(ancestorChainRootFirst(c))

LeafFirst(c) ==
  FoldLeft(LAMBDA effective, k : [a \in Attributes |-> IF rule[k][a] # Unused THEN rule[k][a] ELSE effective[a]],
           [a \in Attributes |-> Unused], Chain(c))

\* A deeper rule for the same attribute overwrites an ancestor's.
Effective(c) ==
  FoldLeft(LAMBDA effective, k : [a \in Attributes |-> IF rule[k][a] # Unused THEN rule[k][a] ELSE effective[a]],
           [a \in Attributes |-> Unused], ancestorChainRootFirst(c))

ResolveTemplate(c) ==
  LET effective == Effective(c)
  IN  [a \in {b \in attribute : effective[b] \in {"required", "optional"}} |-> effective[a]]

-----------------------------------------------------------------------------
(* A product's content against a template.                                 *)

isEmpty(in) == in.value = "absent" /\ in.options = {}

optionBelongsTo(a, options) == \A o \in options : o \in option /\ o[1] = a

Fits(a, in) ==
  CASE a \in Packaging    -> in.value = "number"        \* a positive whole number
    [] a \in Texts        -> in.value # "absent"
    [] a \in Numbers      -> in.value \in {"number", "zero"}
    [] a \in Booleans     -> in.value \in {"true", "zero"}   \* 0 is a boolean too
    [] a \in Selects      -> Cardinality(in.options) = 1 /\ optionBelongsTo(a, in.options)
    [] a \in MultiSelects -> in.options # {} /\ optionBelongsTo(a, in.options)

\* Whether the submitted values are taken; axes never carry a value.
accepts(template, in) ==
  LET asked == DOMAIN template \ Axes
  IN  /\ DOMAIN in \subseteq asked
      /\ \A a \in asked :
           IF a \notin DOMAIN in \/ isEmpty(in[a]) THEN template[a] # "required" ELSE Fits(a, in[a])

\* What is stored of them: the options of a choice, the value of the rest.
buildAttributeValues(in) ==
  [a \in {b \in DOMAIN in : ~isEmpty(in[b])} |->
     IF IsChoice(a) THEN [Nothing EXCEPT !.options = in[a].options] ELSE [Nothing EXCEPT !.value = in[a].value]]

\* One option for each axis.
matchVariantOptions(template, options) ==
  LET axes == DOMAIN template \cap Axes
  IN  /\ axes # {}
      /\ \A o \in options : o \in option /\ o[1] \in axes
      /\ \A a \in axes : Cardinality({o \in options : o[1] = a}) = 1

\* The stored content is turned into a submission again: a value the template
\* no longer asks for is left out.
validateCurrentRules(p) ==
  LET template == ResolveTemplate(p.category)
      asked == DOMAIN p.values \cap DOMAIN template
  IN  /\ accepts(template, [a \in asked |-> p.values[a]])
      /\ (DOMAIN template \cap Axes # {}) => p.variants # {}
      /\ \A options \in p.variants : matchVariantOptions(template, options)

-----------------------------------------------------------------------------
(* The product's transactions.                                             *)

Inputs(a) ==
  IF IsChoice(a) THEN {[Nothing EXCEPT !.options = s] : s \in SUBSET {<<a, v>> : v \in OptionValues}}
  ELSE {[Nothing EXCEPT !.value = v] : v \in {"absent", "text", "number", "zero", "true"}}

\* Submissions that name one attribute, or two.
Submissions ==
  {<<>>} \cup UNION {[{a} -> Inputs(a)] : a \in Attributes}
         \cup UNION {{(a :> x) @@ (b :> y) : x \in Inputs(a), y \in Inputs(b)} : a, b \in Attributes}

Create(c, in) ==
  /\ product.status = "none" /\ Exists(c) /\ tx = Idle
  /\ accepts(ResolveTemplate(c), in)
  /\ product' = [status |-> "draft", category |-> c, values |-> buildAttributeValues(in), variants |-> {}]
  /\ UNCHANGED <<category, attribute, option, rule, rules, tx>>

\* Any change of the content sends the product back to draft.
UpdateContent(in) ==
  /\ product.status # "none" /\ tx = Idle
  /\ accepts(ResolveTemplate(product.category), in)
  /\ product' = [product EXCEPT !.status = "draft", !.values = buildAttributeValues(in)]
  /\ UNCHANGED <<category, attribute, option, rule, rules, tx>>

createVariant(options) ==
  /\ product.status # "none" /\ tx = Idle
  /\ matchVariantOptions(ResolveTemplate(product.category), options)
  /\ product' = [product EXCEPT !.status = "draft", !.variants = @ \cup {options}]
  /\ UNCHANGED <<category, attribute, option, rule, rules, tx>>

\* Submission and approval check the content against the rules of the moment...
Begin(op) ==
  /\ tx = Idle /\ product.status = (IF op = "submit" THEN "draft" ELSE "pending")
  /\ validateCurrentRules(product)
  /\ tx' = op
  /\ UNCHANGED <<category, attribute, option, rule, rules, product>>

\* ... and commit later.
Commit ==
  /\ tx # Idle /\ tx' = Idle
  /\ product' = [product EXCEPT !.status = IF tx = "submit" THEN "pending" ELSE "approved"]
  /\ UNCHANGED <<category, attribute, option, rule, rules>>

-----------------------------------------------------------------------------
Init ==
  /\ category = [c \in Categories |-> [level |-> 0, parent |-> Root]]
  /\ attribute = {} /\ option = {} /\ rules = 0
  /\ rule = [c \in Categories |-> [a \in Attributes |-> Unused]]
  /\ product = [status |-> "none", category |-> Root, values |-> <<>>, variants |-> {}]
  /\ tx = Idle

Next ==
  \/ \E c \in Categories :
       \/ \E parent \in Categories \cup {Root} : CreateCategory(c, parent)
       \/ \E a \in Attributes, kind \in {"required", "optional", "excluded"} : SetCategoryRule(c, a, kind)
       \/ \E in \in Submissions : Create(c, in)
  \/ \E a \in Attributes : CreateAttribute(a) \/ \E v \in OptionValues : AddOption(a, v)
  \/ \E in \in Submissions : UpdateContent(in)
  \/ \E options \in SUBSET {<<a, v>> : a \in Axes, v \in OptionValues} : createVariant(options)
  \/ \E op \in {"submit", "approve"} : Begin(op)
  \/ Commit

Spec == Init /\ [][Next]_vars

-----------------------------------------------------------------------------
\* A category asks for an attribute exactly when the nearest rule on its way up
\* does: an exclusion stops what an ancestor asked for, and a rule below an
\* exclusion brings it back.
NearestRuleDecides ==
  \A c \in Categories, a \in Attributes : Exists(c) =>
    LET up == {k \in {c, category[c].parent} \cup
                     (IF category[c].parent = Root THEN {} ELSE {category[category[c].parent].parent}) :
                 k # Root /\ rule[k][a] # Unused}
    IN  IF up = {} THEN a \notin DOMAIN ResolveTemplate(c)
        ELSE \E k \in up :
               /\ \A j \in up : category[j].level <= category[k].level
               /\ a \in DOMAIN ResolveTemplate(c) <=> rule[k][a] # "excluded"
               /\ a \in DOMAIN ResolveTemplate(c) => ResolveTemplate(c)[a] = rule[k][a]

\* A product becomes approved only while its content satisfies the rules that
\* hold at that moment, those changed since it was written, submitted or checked
\* included: every attribute asked for is there, and so is a full variant.
ApprovedUnderCurrentRules ==
  (product.status # "approved" /\ product'.status = "approved") =>
       LET template == ResolveTemplate(product.category)'
       IN  /\ \A a \in DOMAIN template \ Axes :
                /\ template[a] = "required" => a \in DOMAIN product'.values
                /\ a \in DOMAIN product'.values => Fits(a, product'.values[a])
           /\ \A options \in product'.variants :
                {o[1] : o \in options} = DOMAIN template \cap Axes
=============================================================================
