--------------------------- MODULE GraphQLSchema ----------------------------
(***************************************************************************)
(* The code-first schema: decorators write to the TypeMetadataStorage of   *)
(* the process while classes are declared, one after the other, and every  *)
(* application that starts has a SchemaBuilder read it.  Descriptions,     *)
(* nullability, lists and default values are left out.  "Class" is also    *)
(* the object an enum is at run time, and the class createUnionType()      *)
(* returns.                                                                *)
(***************************************************************************)
EXTENDS Naturals, FiniteSets, SequencesExt

CONSTANTS
    Classes,        \* 1 .. n, in the order in which they are declared
    Programs,       \* those considered, records of what each class is (below)
    NameOf,         \* class -> its name; two classes may bear the same
    Props,          \* names of fields and of operations
    Kinds,          \* of operations: "query", "mutation", "subscription"
    MaxDecorators   \* bound: member decorators applied

VARIABLES
    program,
    declaring,      \* the class whose declaration is evaluated; past the last, the resolvers
    fields,         \* fieldsByConstructor
    operations,     \* queries, mutations and subscriptions, in order of registration
    resolvers,      \* fieldResolvers, with the type their class resolves
    schema,         \* what buildSchema() made: "none" yet, "broken", or its types and operations
    wrote           \* history: the decorators applied to members of types

schemaVars == <<program, declaring, fields, operations, resolvers, schema, wrote>>

base == program.base        \* per class, its base class or 0
kinds == program.kinds      \* objectTypes, inputTypes, enums and scalars once all classes are
                            \* declared: "object", "input", "enum", "scalar", or "union"
maps == program.maps        \* the class a scalar also stands for (@Scalar(name, () => Date)), or 0
members == program.members  \* those of a union; its types are object types or the schema fails
entries == program.entries  \* Object.entries() of an enum

GraphQLSchemaAssumption ==
    /\ Cardinality(Classes) \in Nat /\ Classes = 1 .. Cardinality(Classes)
    /\ \A p \in Programs :
        /\ DOMAIN p.base = Classes /\ \A c \in Classes : p.base[c] \in 0 .. c - 1
        /\ \A c \in Classes : p.kinds[c] \subseteq {"object", "input", "enum", "scalar", "union"}
        /\ \A c \in Classes : p.members[c] \subseteq Classes
        \* An object has a key once.
        /\ \A c \in Classes : \A j, k \in DOMAIN p.entries[c] :
              p.entries[c][j][1] = p.entries[c][k][1] => j = k
        \* The name of a union is its own: what else bears it depends on the order of lookups.
        /\ \A c, d \in Classes : "union" \in p.kinds[c] /\ NameOf[c] = NameOf[d] => c = d

Scalar == 0         \* a scalar or an enum; classes are their numbers
Untyped == Cardinality(Classes) + 1     \* no type given, and none inferred

Schema(is, types, ops) == [is |-> is, types |-> types, operations |-> ops]

Init ==
    /\ program \in Programs
    /\ declaring = 1
    /\ fields = [c \in Classes |-> <<>>]
    /\ operations = <<>> /\ resolvers = <<>>
    /\ schema = Schema("none", {}, {})
    /\ wrote = <<>>

Applied(class, what, name) == [class |-> class, what |-> what, name |-> name]

Decorators == Len(wrote) + Len(operations) + Len(resolvers)
              + Cardinality({k \in DOMAIN operations : operations[k].takes # <<>>})

Writes(what, name, ref) ==
    /\ declaring \in Classes /\ Decorators < MaxDecorators
    /\ wrote' = Append(wrote, [class |-> declaring, what |-> what, name |-> name, ref |-> ref])
    /\ UNCHANGED <<program, declaring, operations, resolvers, schema>>

Once(what, name) ==     \* a member carries a decorator once
    ~\E k \in DOMAIN wrote :
        Applied(wrote[k].class, wrote[k].what, wrote[k].name) = Applied(declaring, what, name)

\* @Field(() => ref); without a type where none can be inferred it throws, and the
\* program does not start.
Field(name, ref) ==
    /\ Once("field", name)
    /\ Writes("field", name, ref)
    /\ fields' = [fields EXCEPT ![declaring] = Append(@, [name |-> name, ref |-> ref])]

\* removeField() takes the first entry of that name.
HideField(name) ==
    /\ Once("hide", name)
    /\ Writes("hide", name, Scalar)
    /\ fields' = [fields EXCEPT ![declaring] =
          LET found == {k \in DOMAIN @ : @[k].name = name} IN
          IF found = {} THEN @ ELSE RemoveAt(@, CHOOSE k \in found : \A j \in found : k <= j)]

\* The class decorators, which come after those of its members.
Declared ==
    /\ declaring \in Classes
    /\ declaring' = declaring + 1
    /\ UNCHANGED <<program, fields, operations, resolvers, schema, wrote>>

\* Resolver classes; that they may be declared between types makes no difference to
\* what the storage holds, nor does the order of operations and field resolvers.
Resolving ==
    /\ declaring \notin Classes /\ schema.is = "none" /\ Decorators < MaxDecorators
    /\ UNCHANGED <<program, declaring, fields, schema, wrote>>

\* @Query, @Mutation or @Subscription.
Operation(kind, name, ref) ==
    /\ Resolving /\ resolvers = <<>>
    /\ operations' = Append(operations, [kind |-> kind, name |-> name, ref |-> ref, takes |-> <<>>])
    /\ UNCHANGED resolvers

\* @Args("name") or @Args() on the parameter of an operation, of a class.  (Decorators of
\* parameters come before those of the method; the order leaves the same in the storage.)
Args(by, ref) ==
    /\ Resolving /\ operations # <<>> /\ resolvers = <<>>
    /\ Last(operations).takes = <<>>
    /\ operations' = [operations EXCEPT ![Len(operations)].takes = <<by, ref>>]
    /\ UNCHANGED resolvers

\* @FieldResolver of a class decorated @Resolver(() => on).  (Without operations there
\* is no schema; those of a class that is no object type are never looked up.)
FieldResolver(on, name, ref) ==
    /\ Resolving /\ operations # <<>> /\ "object" \in kinds[on]
    /\ resolvers' = Append(resolvers, [on |-> on, name |-> name, ref |-> ref])
    /\ UNCHANGED operations

-----------------------------------------------------------------------------
\* collectFields(): those of the base class, and over them the class's own; a
\* function from names to types.
OwnFields(c) ==
    LET own == fields[c]
        last(n) == CHOOSE k \in DOMAIN own :
                      own[k].name = n /\ \A j \in DOMAIN own : own[j].name = n => j <= k
    IN [n \in {own[k].name : k \in DOMAIN own} |-> own[last(n)].ref]

Collected[c \in Classes] ==
    LET own == OwnFields(c)
        above == IF base[c] = 0 THEN <<>> ELSE Collected[base[c]]
    IN [n \in DOMAIN own \union DOMAIN above |-> IF n \in DOMAIN own THEN own[n] ELSE above[n]]

\* getOperationArgsDefinitions(): the argument, or for a whole class its own fields.
ArgsOf(o) ==
    IF o.takes = <<>> THEN <<>>
    ELSE IF o.takes[1] = "name" THEN [n \in {"argument"} |-> o.takes[2]]
    ELSE OwnFields(o.takes[2])

\* buildEnums(), buildScalars(), buildObjectTypes(), buildInputTypes(), in that order.
Order == <<"enum", "scalar", "object", "input">>
Types(kind) == {<<c, kind>> : c \in {c \in Classes : kind \in kinds[c]}}
AllTypes == UNION {Types(Order[k]) : k \in DOMAIN Order}
Rank(t) == CHOOSE k \in DOMAIN Order : Order[k] = t[2]
Later(t, u) == Rank(t) > Rank(u) \/ (Rank(t) = Rank(u) /\ t[1] >= u[1])
MadeLast(T) == CHOOSE t \in T : \A u \in T : Later(t, u)

\* typesByConstructor: the type of a class made last; a scalar is also that of the class
\* it maps.
TypeOf(c) ==
    LET of == {t \in AllTypes : t[1] = c \/ (t[2] = "scalar" /\ maps[t[1]] = c)}
    IN IF of = {} THEN <<>> ELSE MadeLast(of)

\* The map `types`: of several types of one name, the one made last.
Named(name) == {t \in AllTypes : NameOf[t[1]] = name}
ByName == {MadeLast(Named(NameOf[t[1]])) : t \in AllTypes}

\* The values of an enum: each key that is a name; a key that is not (the number of a
\* member) stands for its value where that is a name.
ValidName(text) == text \in {"A", "B", "C"}
ValuesOf(c) ==
    LET of == entries[c]
        names == {of[k][1] : k \in DOMAIN of} \cup {of[k][2] : k \in DOMAIN of}
        keyed(n) == {k \in DOMAIN of : of[k][1] = n}
        named(n) == {k \in DOMAIN of : ~ValidName(of[k][1]) /\ of[k][2] = n}
    IN [n \in {n \in names : ValidName(n) /\ keyed(n) \cup named(n) # {}} |->
          IF keyed(n) # {} THEN of[CHOOSE k \in keyed(n) : TRUE][2]
          ELSE of[CHOOSE k \in named(n) : \A j \in named(n) : k <= j][1]]

\* Faulty variant: classes are looked up by their names.
Resolved_Faulty(ref) ==
    LET namesakes == {t \in ByName : ref \in Classes /\ NameOf[t[1]] = NameOf[ref]} IN
    IF ref = Scalar THEN <<Scalar, "scalar">>
    ELSE IF namesakes = {} THEN <<>> ELSE CHOOSE t \in namesakes : TRUE

\* resolveScalarOrRef(): a type, or <<>> where it throws.
Resolved(ref) ==
    CASE ref = Scalar -> <<Scalar, "scalar">>
      [] ref = Untyped -> <<>>
      [] ref \in Classes ->
           IF TypeOf(ref) # <<>> THEN TypeOf(ref)
           ELSE IF "union" \in kinds[ref] THEN <<ref, "union">>
           ELSE LET namesakes == {t \in ByName : NameOf[t[1]] = NameOf[ref]} IN
                IF namesakes = {} THEN <<>> ELSE CHOOSE t \in namesakes : TRUE

\* buildObjectTypeFields(), buildInputFields(): the types of the fields, <<>> where the
\* lookup of one throws.  Those of the class are looked up first; a field resolver with a
\* type stands before them and before earlier ones, one without takes the type it finds.
FieldsOf(t) ==
    LET own == Collected[t[1]]
        of(n) == IF t[2] = "input" THEN {}
                 ELSE {k \in DOMAIN resolvers : resolvers[k].on = t[1] /\ resolvers[k].name = n}
        typed(n) == {k \in of(n) : resolvers[k].ref # Untyped}
        latest(n) == CHOOSE k \in typed(n) : \A j \in typed(n) : j <= k
        throws(n) == \/ n \in DOMAIN own /\ Resolved(own[n]) = <<>>
                     \/ \E k \in typed(n) : Resolved(resolvers[k].ref) = <<>>
                     \/ n \notin DOMAIN own /\ \E k \in of(n) : \A j \in typed(n) : k < j
    IN [n \in DOMAIN own \union {n \in Props : of(n) # {}} |->
          IF throws(n) THEN <<>>
          ELSE Resolved(IF typed(n) = {} THEN own[n] ELSE resolvers[latest(n)].ref)]

\* Operations of one kind and name: the last one registered.
Offered == {operations[k] : k \in {k \in DOMAIN operations :
              \A j \in DOMAIN operations : j > k =>
                  <<operations[j].kind, operations[j].name>>
                     # <<operations[k].kind, operations[k].name>>}}

\* buildArgDefinitions()
ResolvedArgs(o) == [n \in DOMAIN ArgsOf(o) |-> Resolved(ArgsOf(o)[n])]

\* The members of a union, which are looked up when the schema is built.
Unions == {<<c, "union">> : c \in {c \in Classes : "union" \in kinds[c]}}
Composed == AllTypes \union Unions
MembersOf(t) == IF t[2] = "union" THEN {Resolved(c) : c \in members[t[1]]} ELSE {}

\* What new GraphQLSchema() finds, from the roots and from the map; of: the fields of
\* every type.
Found(of) ==
    LET ReachedIn[k \in 0 .. Cardinality(Classes)] ==
          IF k = 0 THEN ByName \union UNION {{Resolved(o.ref)} \union Range(ResolvedArgs(o)) : o \in Offered}
          ELSE ReachedIn[k - 1] \union
               UNION {Range(of[t]) \union MembersOf(t) : t \in ReachedIn[k - 1] \intersect Composed}
    IN ReachedIn[Cardinality(Classes)] \intersect Composed

\* graphql-js: a query, nothing unresolved, one type to a name, no type without fields, members
\* or values, input types in input positions only and output types in output positions.
Output == {"object", "union", "enum", "scalar"}
Input == {"input", "enum", "scalar"}
Fits(ref, position) == ref # <<>> /\ ref[2] \in position
Position(t) == IF t[2] = "object" THEN Output ELSE Input
Accepted(found, of) ==
    /\ \E o \in Offered : o.kind = "query"
    /\ \A o \in Offered : /\ Fits(Resolved(o.ref), Output)
                          /\ \A ref \in Range(ResolvedArgs(o)) : Fits(ref, Input)
    /\ \A t, u \in found : NameOf[t[1]] = NameOf[u[1]] => t = u
    /\ \A t \in found :
          CASE t[2] = "scalar" -> TRUE
            [] t[2] = "enum" -> ValuesOf(t[1]) # <<>>
            [] t[2] = "union" -> MembersOf(t) # {} /\ \A ref \in MembersOf(t) : Fits(ref, {"object"})
            [] OTHER -> of[t] # <<>> /\ \A ref \in Range(of[t]) : Fits(ref, Position(t))

\* buildSchema(), and the validation by Apollo Server.
Built ==
    LET of == [t \in Composed |-> IF t[2] \in {"object", "input"} THEN FieldsOf(t) ELSE <<>>]
        found == Found(of)
    IN IF Accepted(found, of)
       THEN Schema("built",
                   {[type |-> t, fields |-> of[t], members |-> MembersOf(t)] : t \in found},
                   {[op |-> o, returns |-> Resolved(o.ref), args |-> ResolvedArgs(o)] :
                       o \in Offered})
       ELSE Schema("broken", {}, {})

\* ApolloService.start(), as an application starts.
Build ==
    /\ declaring \notin Classes /\ schema.is = "none"
    /\ schema' = Built
    /\ UNCHANGED <<program, declaring, fields, operations, resolvers, wrote>>

Next ==
    \/ \E n \in Props :
          \/ HideField(n)
          \/ \E ref \in Classes \union {Scalar} :
                Field(n, ref) \/ \E kind \in Kinds : Operation(kind, n, ref)
          \/ \E on \in Classes, ref \in Classes \union {Untyped} : FieldResolver(on, n, ref)
    \/ \E by \in {"name", "all"}, ref \in Classes : Args(by, ref)
    \/ Declared \/ Build

Spec == Init /\ [][Next]_schemaVars

-----------------------------------------------------------------------------
Wrote(what, c, n) == {k \in DOMAIN wrote :
    Applied(wrote[k].class, wrote[k].what, wrote[k].name) = Applied(c, what, n)}

\* The declarations a class has of its own: those that no @HideField() evaluated
\* later took back.
Own(c, n) == {k \in Wrote("field", c, n) : ~\E j \in Wrote("hide", c, n) : j > k}

Ancestry[c \in Classes] == <<c>> \o (IF base[c] = 0 THEN <<>> ELSE Ancestry[base[c]])

\* What the program says of a field: the nearest declaration on the way to the root.
Declares(c, n) == \E k \in DOMAIN Ancestry[c] : Own(Ancestry[c][k], n) # {}
Says(c, n) ==
    LET nearest == CHOOSE k \in DOMAIN Ancestry[c] :
                      /\ Own(Ancestry[c][k], n) # {}
                      /\ \A j \in 1 .. k - 1 : Own(Ancestry[c][j], n) = {}
    IN wrote[CHOOSE k \in Own(Ancestry[c][nearest], n) : TRUE].ref

Resolvers(c, n) == {k \in DOMAIN resolvers : resolvers[k].on = c /\ resolvers[k].name = n}

\* A class with a type of its own means that type, unless a scalar stands for it.
Means(ref, type) ==
    ref \in Classes /\ kinds[ref] # {} => type[1] = ref \/ (type[2] = "scalar" /\ maps[type[1]] = ref)

\* A schema that is built says what the program says: a type has the fields its class
\* and the classes above declare, the nearest declaration first, and those of its
\* resolvers; each, and each operation and argument, is of the type made of the class it
\* names, whatever other classes have that name; a union has its members, and an enum
\* gives each member its own value.
SaysWhatIsDeclared ==
    /\ \A t \in schema.types : LET c == t.type[1] IN t.type[2] \in {"object", "input"} =>
          /\ DOMAIN t.fields = {n \in Props : \/ Declares(c, n)
                                              \/ t.type[2] = "object" /\ Resolvers(c, n) # {}}
          /\ \A n \in DOMAIN t.fields :
                t.type[2] = "input" \/ Resolvers(c, n) = {} => Means(Says(c, n), t.fields[n])
    /\ \A t \in schema.types : LET c == t.type[1] IN
          /\ t.type[2] = "union" => \A d \in members[c] : \E m \in t.members : Means(d, m)
          /\ t.type[2] = "enum" =>
                \A k \in DOMAIN entries[c] : ValidName(entries[c][k][1]) =>
                    ValuesOf(c)[entries[c][k][1]] = entries[c][k][2]
    /\ \A o \in schema.operations :
          /\ Means(o.op.ref, o.returns)
          /\ o.op.takes # <<>> /\ o.op.takes[1] = "name" => Means(o.op.takes[2], o.args["argument"])
          /\ o.op.takes # <<>> /\ o.op.takes[1] = "all" =>
                \A n \in Props : Own(o.op.takes[2], n) # {} => n \in DOMAIN o.args

\* Nothing is wrong with the program: what it uses is declared, on the right side,
\* under a name of its own.
Is(ref, allowed) ==
    \/ ref = Scalar
    \/ \E kind \in allowed : kinds[ref] = {kind}
    \/ kinds[ref] = {} /\ \E c \in Classes : "scalar" \in kinds[c] /\ maps[c] = ref
Sound ==
    /\ \E k \in DOMAIN operations : operations[k].kind = "query"
    /\ \A k \in DOMAIN operations : LET takes == operations[k].takes IN
          /\ Is(operations[k].ref, Output)
          /\ takes # <<>> => \/ takes[1] = "name" /\ Is(takes[2], Input)
                             \/ takes[1] = "all" /\ kinds[takes[2]] \in {{}, {"input"}}
                                /\ \A n \in Props : Declares(takes[2], n) => Is(Says(takes[2], n), Input)
    /\ \A c \in Classes : kinds[c] # {} =>
          /\ Cardinality(kinds[c]) = 1
          /\ \A d \in Classes \ {c} : kinds[d] # {} => NameOf[d] # NameOf[c]
          /\ kinds[c] = {"enum"} => \E k \in DOMAIN entries[c] : ValidName(entries[c][k][1])
          /\ kinds[c] = {"union"} => /\ members[c] # {}
                                     /\ \A d \in members[c] : kinds[d] = {"object"}
          /\ kinds[c] \in {{"object"}, {"input"}} =>
                /\ \E n \in Props : Declares(c, n)
                /\ \A n \in Props : Declares(c, n) =>
                      Is(Says(c, n), IF kinds[c] = {"object"} THEN Output ELSE Input)
                /\ \A n \in Props : \A k \in Resolvers(c, n) :
                      IF resolvers[k].ref = Untyped THEN Declares(c, n)
                      ELSE Is(resolvers[k].ref, Output)

\* buildSchema() makes a schema of every sound program, types that refer to one
\* another or to classes declared later included, and the schema says what is declared.
SchemaFaithful ==
    /\ schema.is = "built" => SaysWhatIsDeclared
    /\ Sound => schema.is # "broken"

\* "Hides a field from the GraphQL schema" (type.decorator.ts 366): a property
\* decorated with @HideField() is no field of its class.
HideFieldHides ==
    \A t \in schema.types : t.type[2] \in {"object", "input"} =>
        \A n \in DOMAIN t.fields : Wrote("hide", t.type[1], n) = {}
=============================================================================
