------------------------------ MODULE GraphQL -------------------------------
(***************************************************************************)
(* The GraphQL packages, one part at a time: the schema an application     *)
(* builds as it starts, the endpoint that answers requests, and the        *)
(* iterator a subscription reads its events from.  Connections, on which   *)
(* subscriptions run, are GraphQLWs.                                       *)
(***************************************************************************)
EXTENDS Naturals

CONSTANTS
    Aspects,
    Classes, Programs, NameOf, Props, Kinds, MaxDecorators,
    Posts, Uploads, MaxFiles, Oversized, Unsafe, MaxDepth, MaxChunks, Null, Text,
    Trigs, MaxQueue, MaxMessages, MaxNext, MaxReturn, IdleTimeout

VARIABLES
    aspect,
    program, declaring, fields, operations, resolvers, schema, wrote,
    server, disposed, post, upload, body, chunks,
    sub, handed, listening, subscriptionIds, pullQueue, pushQueue, subscribePromise,
    idleTimer, micro, nexts, value, arrived, returns, finished

Types == INSTANCE GraphQLSchema
Http == INSTANCE GraphQLHttp
Reader == INSTANCE PubSubAsyncIterator

ASSUME GraphQLAssumption ==
    Reader!IteratorAssumption /\ Types!GraphQLSchemaAssumption /\ Http!UploadsAssumption

types == <<program, declaring, fields, operations, resolvers, schema, wrote>>
http == <<server, disposed, post, upload, body, chunks>>
reader == <<sub, handed, listening, subscriptionIds, pullQueue, pushQueue, subscribePromise,
            idleTimer, micro, nexts, value, arrived, returns, finished>>
vars == <<aspect, types, http, reader>>

Init ==
    /\ aspect \in Aspects
    /\ Types!Init /\ Http!Init /\ Reader!Init
    /\ aspect # "schema" => program = CHOOSE p \in Programs : TRUE

Declares == aspect = "schema" /\ Types!Next /\ UNCHANGED <<aspect, http, reader>>
Answers == aspect = "http" /\ Http!Next /\ UNCHANGED <<aspect, types, reader>>
Iterates == aspect = "iterator" /\ Reader!Next /\ UNCHANGED <<aspect, types, http>>

Next == Declares \/ Answers \/ Iterates

Spec == Init /\ [][Next]_vars

\* Apollo Server settles what it executes and ends its responses; the engine answers,
\* microtasks run and timers fire.  Clients and consumers owe nothing.
Respond == /\ aspect = "http" /\ \E r \in Posts : Http!Responds(r)
           /\ UNCHANGED <<aspect, types, reader>>
Pull == aspect = "iterator" /\ Reader!Progress /\ UNCHANGED <<aspect, types, http>>

FairSpec == Spec /\ WF_vars(Respond \/ Pull)

-----------------------------------------------------------------------------
\* Of every sound program a schema is built, and it says what is declared.
SchemaFaithful == Types!SchemaFaithful

\* "Hides a field from the GraphQL schema" (type.decorator.ts 366).
HideFieldHides == Types!HideFieldHides

\* Operations reach Apollo Server with their files in place, and no response keeps its
\* source.
RequestsServed == Http!UploadsPlaced /\ Http!ChunksReturned

\* The consumer sees the messages in order and without a gap it did not earn.
DeliveredInOrder == Reader!DeliveredInOrder

\* No engine subscription outlives the iterator.
NothingLeaked == Reader!NothingLeaked

\* The iterator uses the engine as PubSubEngine allows.
EngineSpec == Reader!EngineSpec

\* Every request that is executed is answered or fails; a next() that waits is answered
\* once the iterator is returned (comment 233-235), and with an idle timeout an abandoned
\* iterator gives its subscriptions back (pubsub-async-iterator.ts 46-50).
EverythingSettles ==
    /\ Reader!IterationSettles
    /\ (\E r \in Posts : Http!Serves(r)) ~> (\A r \in Posts : ~Http!Serves(r))
=============================================================================
