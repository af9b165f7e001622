------------------------------ MODULE Snapshot ------------------------------
(***************************************************************************)
(* The inventory snapshot of src/src/model.rs: how the rows the collectors *)
(* list, in whatever order they list them, become the snapshot that is     *)
(* sent; how rows that stand for one installation (schema 2) or for one    *)
(* product (schema 1) are collapsed; how two versions are ordered; and     *)
(* what the difference of two snapshots is.                                *)
(*                                                                         *)
(* A behaviour lists rows one at a time, decides which sources were read   *)
(* completely, and takes a snapshot, which becomes the one the next        *)
(* snapshot is compared with.  Strings are members of small sets.  A hash  *)
(* is the tuple of what is hashed: two hashes are equal exactly when the   *)
(* hashed parts are.  A version is a sequence of runs of one character     *)
(* class, [digits, value, text]: the value of a digit run, and the         *)
(* alphabetic rank of the run as it is written.                            *)
(***************************************************************************)
EXTENDS Integers, Sequences, FiniteSets

CONSTANTS
    None,       \* an absent optional field
    Rows,       \* the rows a collector may list
    Lower,      \* the lower-case form of the words that are not in lower case
    WideRun,    \* the first number a digit run cannot hold (u128)
    MaxListed,  \* bound: rows listed for the first snapshot
    MaxCompared \* bound: rows of each of two snapshots that are compared

ASSUME SnapshotAssumption == {WideRun, MaxListed, MaxCompared} \subseteq Nat

Runs == [digits : BOOLEAN, value : Nat, text : Int]

(* What is in lower case stays as it is.                                   *)
ASSUME LowerAssumption ==
    /\ \A word \in DOMAIN Lower : Lower[word] \notin DOMAIN Lower
    /\ DOMAIN Lower \cap {None, "", "x86_64", "aarch64"} = {}

(* What a SoftwareEntry of a collector is: it has no identity yet.         *)
ASSUME RowsAssumption ==
    \A r \in Rows :
        /\ r = [name |-> r.name, publisher |-> r.publisher, source |-> r.source,
                version |-> r.version, arch |-> r.arch, package |-> r.package,
                scope |-> r.scope, instance |-> r.instance, location |-> r.location,
                identity |-> None, product |-> None]
        /\ r.version = None \/ r.version \in Seq(Runs)

VARIABLES
    schema,     \* schema_version the server negotiated
    listed,     \* rows listed so far, in the order of enumeration
    complete,   \* sources whose status in this snapshot is Complete
    previous    \* the snapshot taken before: its rows

vars == <<schema, listed, complete, previous>>

Sources == {r.source : r \in Rows}

-----------------------------------------------------------------------------
(* Versions *)

(* A digit run that u128 cannot hold is kept as text.                      *)
Chunk(run) ==
    IF run.digits /\ run.value < WideRun THEN [number |-> TRUE, rank |-> run.value]
    ELSE [number |-> FALSE, rank |-> run.text]

version_chunks(v) == [i \in DOMAIN v |-> Chunk(v[i])]

ChunkLess(a, b) ==
    \/ ~a.number /\ b.number
    \/ a.number = b.number /\ a.rank < b.rank

(* TRUE when the left version sorts strictly below the right one: the      *)
(* first chunk that differs decides, then the length; no version is lowest. *)
VersionLess(left, right) ==
    IF right = None THEN FALSE
    ELSE IF left = None THEN TRUE
    ELSE LET l == version_chunks(left)
             r == version_chunks(right)
             differ == {i \in DOMAIN l \cap DOMAIN r : l[i] # r[i]}
         IN IF differ = {} THEN Len(l) < Len(r)
            ELSE LET i == CHOOSE i \in differ : \A j \in differ : i <= j
                 IN ChunkLess(l[i], r[i])

-----------------------------------------------------------------------------
(* One row *)

Lowered(word) == IF word \in DOMAIN Lower THEN Lower[word] ELSE word

normalize_architecture(a) ==
    CASE Lowered(a) \in {"amd64", "x64"} -> "x86_64"
      [] Lowered(a) = "arm64"            -> "aarch64"
      [] OTHER                           -> Lowered(a)

NormalizedRow(r) == [r EXCEPT !.arch = normalize_architecture(@)]

comparison_key(r) ==
    <<Lowered(r.name), Lowered(r.publisher), Lowered(r.arch), r.source>>

DefaultScope(r) ==
    IF r.source \in {"pip", "npm", "java"} THEN "runtime" ELSE "system"

(* Without a native key or path the version keeps parallel installations   *)
(* apart.                                                                  *)
DefaultInstance(r) ==
    IF r.location # None THEN <<"text", r.location>>
    ELSE IF r.package # None THEN <<"text", r.package>>
    ELSE <<"version", r.version>>

ensure_installation_identity_NoScope(row) ==
    LET r == NormalizedRow(row)
        scope == IF r.scope = None THEN DefaultScope(r) ELSE r.scope
        instance == IF r.instance = None THEN DefaultInstance(r) ELSE r.instance
    IN [r EXCEPT !.scope = scope,
                 !.instance = instance,
                 !.identity = <<comparison_key(r), r.package, instance>>,
                 !.product = comparison_key(r),
                 !.location = None]

ensure_installation_identity(row) ==
    LET r == NormalizedRow(row)
        scope == IF r.scope = None THEN DefaultScope(r) ELSE r.scope
        instance == IF r.instance = None THEN DefaultInstance(r) ELSE r.instance
    IN [r EXCEPT !.scope = scope,
                 !.instance = instance,
                 !.identity = <<comparison_key(r), r.package, scope, instance>>,
                 !.product = comparison_key(r),
                 !.location = None]

WithIdentity_EveryTime(row) ==
    ensure_installation_identity(
        [ensure_installation_identity(row) EXCEPT !.instance = <<"endpoint", @>>])

(* A row that has no identity yet gets its instance scoped to the agent.   *)
WithIdentity(row) ==
    IF row.identity # None THEN ensure_installation_identity(row)
    ELSE ensure_installation_identity(
            [ensure_installation_identity(row) EXCEPT
                !.instance = <<"endpoint", @>>])

identity_key(s, r) ==
    IF s = 2 /\ r.identity # None THEN r.identity ELSE comparison_key(r)

(* An absent field is not mistaken for one that is there, and a row that   *)
(* says where an installation is does not name the place another row of    *)
(* its source only implies: a collector says it for all its rows.          *)
ASSUME IdentityAssumption ==
    \A r \in Rows :
        LET own == ensure_installation_identity(r)
            sent == WithIdentity(r)
        IN /\ None \notin {"system", "runtime", own.instance, sent.instance,
                           <<"endpoint", own.instance>>, own.identity, sent.identity}
           /\ \A q \in Rows :
                r.source = q.source /\ r.instance # None /\ q.instance = None
                  => r.instance # DefaultInstance(NormalizedRow(q))

-----------------------------------------------------------------------------
(* A whole snapshot *)

deduplicate_software_Ascending(s, rows) ==
    {rows[i] : i \in {i \in DOMAIN rows :
        \A j \in DOMAIN rows \ {i} :
            identity_key(s, rows[j]) = identity_key(s, rows[i]) =>
                \/ VersionLess(rows[i].version, rows[j].version)
                \/ /\ ~VersionLess(rows[j].version, rows[i].version)
                   /\ i < j}}

deduplicate_software_FirstListed(s, rows) ==
    {rows[i] : i \in {i \in DOMAIN rows :
        \A j \in DOMAIN rows :
            j < i => identity_key(s, rows[j]) # identity_key(s, rows[i])}}

(* The sort is stable and descending by version within a key, and of each  *)
(* key only the first row stays: the earliest listed of the newest.        *)
deduplicate_software(s, rows) ==
    {rows[i] : i \in {i \in DOMAIN rows :
        \A j \in DOMAIN rows \ {i} :
            identity_key(s, rows[j]) = identity_key(s, rows[i]) =>
                \/ VersionLess(rows[j].version, rows[i].version)
                \/ /\ ~VersionLess(rows[i].version, rows[j].version)
                   /\ i < j}}

Named(r) == r.name # ""

(* Rows without a name are dropped, the others stay at their places.       *)
Retained(rows) == [i \in {k \in DOMAIN rows : Named(rows[k])} |-> rows[i]]

normalize(s, rows) ==
    deduplicate_software(s,
        Retained([i \in DOMAIN rows |-> IF s = 2 THEN WithIdentity(rows[i])
                                        ELSE NormalizedRow(rows[i])]))

(* The rows of a set in an order that the set determines, as the hashes by *)
(* which a snapshot is sorted do.                                          *)
InSomeOrder(S) == CHOOSE f \in [1..Cardinality(S) -> S] :
                      \A i, j \in 1..Cardinality(S) : i # j => f[i] # f[j]

(* Schema 1 knows fewer sources and none of the identity fields.           *)
LegacyRow(r) ==
    [r EXCEPT !.source = IF @ \in {"pacman", "mac_bundle"} THEN "other" ELSE @,
              !.product = None, !.identity = None, !.package = None,
              !.scope = None, !.instance = None]

into_v1(rows) ==
    LET sent == InSomeOrder(rows)
    IN normalize(1, [i \in DOMAIN sent |-> LegacyRow(sent[i])])

(* The rows a snapshot carries: it is built as schema 2 and converted when *)
(* the server negotiated schema 1.                                         *)
Taken(s, rows) ==
    IF s = 2 THEN normalize(2, rows) ELSE into_v1(normalize(2, rows))

(* validate(): what makes a schema 2 snapshot unfit to be sent.            *)
RowsValid(rows, statuses) ==
    \A r \in rows : /\ r.name # ""
                    /\ r.source \in statuses
                    /\ r.identity # None /\ r.instance # None
                    /\ r.product = comparison_key(r)
                    /\ r.scope # None /\ r.location = None

-----------------------------------------------------------------------------
(* The difference of two snapshots *)

Rowed(s, rows, key) == CHOOSE r \in rows : identity_key(s, r) = key
KeysOf(s, rows) == {identity_key(s, r) : r \in rows}

Counts_Always(s, r, done) == TRUE

(* In schema 2 only a source read completely contributes changes.          *)
Counts(s, r, done) == s = 1 \/ r.source \in done

diff(s, current, before, done) ==
    LET now == KeysOf(s, current)
        old == KeysOf(s, before)
    IN  {[action |-> "added", row |-> Rowed(s, current, k)] :
            k \in {k \in now \ old : Counts(s, Rowed(s, current, k), done)}}
        \cup
        {[action |-> "modified", row |-> Rowed(s, current, k)] :
            k \in {k \in now \cap old :
                    /\ Counts(s, Rowed(s, current, k), done)
                    /\ Rowed(s, current, k).version # Rowed(s, before, k).version}}
        \cup
        {[action |-> "removed", row |-> Rowed(s, before, k)] :
            k \in {k \in old \ now : Counts(s, Rowed(s, before, k), done)}}

-----------------------------------------------------------------------------
Init ==
    /\ schema \in {1, 2}
    /\ listed = << >>
    /\ complete = {}
    /\ previous = {}

(* A collector lists one more row.                                         *)
ListRow ==
    /\ Len(listed) < IF previous = {} THEN MaxListed ELSE MaxCompared
    /\ \E r \in Rows : listed' = Append(listed, r)
    /\ UNCHANGED <<schema, complete, previous>>

(* The snapshot is taken; the next collection starts with an empty list.   *)
TakeSnapshot ==
    /\ Len(listed) \in 1..MaxCompared
    /\ previous = {}
    /\ previous' = Taken(schema, listed)
    /\ listed' = << >>
    /\ complete' \in SUBSET Sources
    /\ UNCHANGED schema

Next == ListRow \/ TakeSnapshot

Spec == Init /\ [][Next]_vars

-----------------------------------------------------------------------------
(* Every variable holds a value of its kind; the rows of a snapshot that   *)
(* was taken are named and carry an identity in schema 2 only.             *)
TypeOK ==
    /\ schema \in {1, 2}
    /\ listed \in Seq(Rows) /\ Len(listed) <= MaxListed + MaxCompared
    /\ complete \subseteq Sources
    /\ \A r \in previous : /\ r.name # ""
                           /\ r.identity = None <=> schema = 1

NamedListed == Retained(listed)

(* The number a reader sees: numeric versions as tuples of numbers, padded *)
(* by nothing, compared position by position.                              *)
Numeric(v) == v # None /\ \A i \in DOMAIN v : v[i].digits /\ v[i].value < WideRun
ReadsNewer(v, w) ==
    \E n \in 0..Len(v) :
        /\ n <= Len(w)
        /\ \A i \in 1..n : v[i].value = w[i].value
        /\ \/ n = Len(w) /\ n < Len(v)
           \/ n < Len(w) /\ n < Len(v) /\ v[n + 1].value > w[n + 1].value

(* Schema 1 has room for one row of a product: every product that was      *)
(* listed is sent exactly once, and no listed row of it that a reader      *)
(* would call newer is dropped for an older one.                           *)
NewestSurvives ==
    schema = 1 =>
        LET sent == Taken(1, listed)
        IN \A i \in DOMAIN NamedListed :
            LET row == LegacyRow(NormalizedRow(NamedListed[i]))
                same == {r \in sent : comparison_key(r) = comparison_key(row)}
            IN /\ Cardinality(same) = 1
               /\ \A r \in same :
                    /\ r.version = None => row.version = None
                    /\ Numeric(r.version) /\ Numeric(row.version)
                        => ~ReadsNewer(row.version, r.version)

(* Schema 2 keeps side-by-side installations: two listed rows share a sent *)
(* row only if they name one product, package, scope and place.            *)
NoInstallationHidden ==
    schema = 2 =>
        LET sent == Taken(2, listed)
        IN \A i, j \in DOMAIN NamedListed :
            LET r == WithIdentity(NamedListed[i])
                q == WithIdentity(NamedListed[j])
            IN /\ Cardinality({x \in sent : x.identity = r.identity}) = 1
               /\ r.identity = q.identity =>
                    /\ comparison_key(r) = comparison_key(q)
                    /\ NamedListed[i].package = NamedListed[j].package
                    /\ r.scope = q.scope
                    /\ NamedListed[i].instance = NamedListed[j].instance
                    /\ NamedListed[i].instance = None =>
                         DefaultInstance(NamedListed[i]) = DefaultInstance(NamedListed[j])

(* Normalising what was sent changes nothing, so a snapshot that is read   *)
(* back and sent again carries the same identifiers, and a snapshot that   *)
(* normalisation built is accepted by the validation before it is queued.  *)
ResendKeepsIdentity ==
    LET sent == Taken(schema, listed)
    IN /\ normalize(schema, InSomeOrder(sent)) = sent
       /\ schema = 2 => RowsValid(sent, Sources)

(* Two different rows of one installation that compare equal: their        *)
(* versions are spelled differently, or their names or publishers differ   *)
(* in case only.  The code keeps the one that was listed first.            *)
Ambiguous ==
    \E i, j \in DOMAIN NamedListed :
        LET r == WithIdentity(NamedListed[i])
            q == WithIdentity(NamedListed[j])
        IN /\ r.identity = q.identity /\ r # q
           /\ ~VersionLess(r.version, q.version)
           /\ ~VersionLess(q.version, r.version)

(* The orders in which the places of a list can be visited.                *)
Orders(D) == {p \in [D -> D] : \A i \in D : \E j \in D : p[j] = i}

(* What is sent does not depend on the order in which the host enumerates  *)
(* its software, so an unchanged host has an unchanged content digest.     *)
OrderIrrelevant ==
    ~Ambiguous =>
        \A p \in Orders(DOMAIN listed) :
            Taken(schema, [i \in DOMAIN listed |-> listed[p[i]]])
                = Taken(schema, listed)

(* The difference, applied to the earlier snapshot, rebuilds the later one *)
(* on the completely read sources and leaves the others as they were: a    *)
(* partial source never manufactures a change.                             *)
DiffRebuilds ==
    LET current == Taken(schema, listed)
        delta == diff(schema, current, previous, complete)
        gone == {d.row : d \in {d \in delta : d.action = "removed"}}
        new == {d.row : d \in {d \in delta : d.action # "removed"}}
        kept == {r \in previous \ gone :
                    identity_key(schema, r) \notin KeysOf(schema, new)}
        Shape(rows) == {<<identity_key(schema, r), r.version>> : r \in rows}
        done == IF schema = 1 THEN {r.source : r \in current \cup previous}
                ELSE complete
        In(rows, S) == {r \in rows : r.source \in S}
    IN /\ Shape(In(kept \cup new, done)) = Shape(In(current, done))
       /\ \A s \in {r.source : r \in current \cup previous} \ done :
            In(kept \cup new, {s}) = In(previous, {s})

=============================================================================
