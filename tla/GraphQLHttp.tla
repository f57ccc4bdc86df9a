---------------------------- MODULE GraphQLHttp -----------------------------
(***************************************************************************)
(* apollo/src/services/apollo.service.ts, graphql.controller.ts and        *)
(* upload.ts: the life of the Apollo Server behind the GraphQL endpoint,   *)
(* the requests it answers, and the files of multipart requests.  Apollo   *)
(* Server itself is external: it answers a request whole or in chunks, or  *)
(* fails it.                                                               *)
(***************************************************************************)
EXTENDS Naturals, FiniteSets, SequencesExt

CONSTANTS
    Posts,          \* requests
    Uploads,        \* multipart bodies: [operations, map]
    MaxFiles,       \* the limit on files of one request
    Oversized,      \* files beyond maxFileSize
    Unsafe,         \* keys that may not be in a path
    MaxDepth,       \* MAX_PATH_DEPTH
    MaxChunks       \* bound: chunks of one response

\* A JSON value is the function from its paths (sequences of keys) to its leaves.
CONSTANTS Null, Text
NotAFile == "not a file"

\* Paths lead to something; a file is neither null nor text.
UploadsAssumption == MaxFiles \in Nat /\ MaxDepth \in Nat /\ \A u \in Uploads :
    /\ u.operations = [q \in DOMAIN u.operations |-> u.operations[q]]
    /\ DOMAIN u.operations \subseteq Seq(STRING) \ {<<>>}
    /\ u.map \in Seq(Range(u.map))
    /\ \A m \in Range(u.map) : /\ m.file \notin {Null, Text}
                               /\ m.paths \in Seq(Seq(STRING) \ {<<>>})

VARIABLES
    server,         \* "none", "starting", "started", "stopping", "stopped", "failed"
    disposed,       \* has the WebSocket handler been disposed?
    post,           \* per request: where the handler is
    upload, body,   \* of a multipart request: what came, and what Apollo Server gets
    chunks          \* state of the response's iterator, and how much was taken from it

httpVars == <<server, disposed, post, upload, body, chunks>>

Nothing == [operations |-> <<>>, map |-> <<>>]
NoChunks == [iter |-> "none", taken |-> 0]

Init ==
    /\ server = "none" /\ disposed = FALSE
    /\ post = [r \in Posts |-> "idle"]
    /\ upload = [r \in Posts |-> Nothing] /\ body = [r \in Posts |-> <<>>]
    /\ chunks = [r \in Posts |-> NoChunks]

\* start(): the options name no schema or buildSchema() throws (ok = FALSE), or Apollo
\* Server starts.  Routes are registered after it, so no request sees less.
Start ==
    /\ server = "none" /\ server' = "starting"
    /\ UNCHANGED <<disposed, post, upload, body, chunks>>
Started(ok) ==
    /\ server = "starting" /\ server' = IF ok THEN "started" ELSE "failed"
    /\ UNCHANGED <<disposed, post, upload, body, chunks>>

\* stop(), from ApolloShutdownService.onModuleDestroy().
Stop ==
    /\ server = "started" /\ server' = "stopping" /\ disposed' = TRUE
    /\ UNCHANGED <<post, upload, body, chunks>>
Stopped ==
    /\ server = "stopping" /\ server' = "stopped"
    /\ UNCHANGED <<disposed, post, upload, body, chunks>>

-----------------------------------------------------------------------------
(* upload.ts *)

Error == <<>>       \* of SetPath and Placed: the request is refused

Above(p) == {SubSeq(p, 1, k) : k \in 1 .. Len(p) - 1}

\* Faulty variant: null on the way is taken for an object that is missing.
SetPath_Faulty(value, p, file) ==
    IF value = Error \/ Len(p) > MaxDepth \/ \E k \in DOMAIN p : p[k] \in Unsafe THEN Error
    ELSE [q \in {q \in DOMAIN value : q \notin Above(p) /\ q # p} \union {p} |->
             IF q = p THEN file ELSE value[q]]

\* setPath(): text on the way is replaced by an object, a file gets a property, null
\* throws; what stood at the path or below it is gone.
SetPath(value, p, file) ==
    IF \/ value = Error \/ Len(p) > MaxDepth
       \/ \E k \in DOMAIN p : p[k] \in Unsafe
       \/ \E q \in Above(p) \intersect DOMAIN value : value[q] = Null
    THEN Error
    ELSE LET kept == {q \in DOMAIN value : /\ ~IsPrefix(p, q)
                                           /\ q \in Above(p) => value[q] # Text}
         IN [q \in kept \union {p} |-> IF q = p THEN file ELSE value[q]]

\* The paths of one file, in order; what is not a file has none.
OfFile(m) ==
    IF m.file = NotAFile THEN <<>>
    ELSE [j \in DOMAIN m.paths |-> [file |-> m.file, path |-> m.paths[j]]]

\* The files of a request with their paths, one by one, in the order of the map.
Placements(u) ==
    LET upTo[k \in 0 .. Len(u.map)] == IF k = 0 THEN <<>> ELSE upTo[k - 1] \o OfFile(u.map[k])
    IN  upTo[Len(u.map)]

\* The operations with the places filled one after the other.
Filled(value, places) ==
    LET after[k \in 0 .. Len(places)] ==
            IF k = 0 THEN value ELSE SetPath(after[k - 1], places[k].path, places[k].file)
    IN  after[Len(places)]

\* processMultipartRequest().
Placed(u) ==
    IF Len(u.map) > MaxFiles \/ \E k \in DOMAIN u.map : u.map[k].file \in Oversized THEN Error
    ELSE Filled(u.operations, Placements(u))

-----------------------------------------------------------------------------
(* graphql.controller.ts *)

Serving == server \in {"started", "stopping", "stopped"}

\* An upgrade is left to Elysia's ws(), OPTIONS is answered at once.
Arrives(r, how) ==
    /\ Serving /\ post[r] = "idle"
    /\ post' = [post EXCEPT ![r] = CASE how \in {"upgrade", "options"} -> "answered"
                                     [] how = "json" -> "executing"]
    /\ UNCHANGED <<server, disposed, upload, body, chunks>>

ArrivesMultipart(r, u) ==
    /\ Serving /\ post[r] = "idle"
    /\ upload' = [upload EXCEPT ![r] = u]
    /\ body' = [body EXCEPT ![r] = Placed(u)]
    /\ post' = [post EXCEPT ![r] = IF Placed(u) = Error THEN "refused" ELSE "executing"]
    /\ UNCHANGED <<server, disposed, chunks>>

\* executeHTTPGraphQLRequest() settles.
Executed(r, how) ==
    /\ post[r] = "executing"
    /\ post' = [post EXCEPT ![r] = CASE how = "complete" -> "answered"
                                     [] how = "chunked" -> "draining"
                                     [] how = "rejects" -> "failed"]
    /\ chunks' = IF how = "chunked" THEN [chunks EXCEPT ![r].iter = "open"] ELSE chunks
    /\ UNCHANGED <<server, disposed, upload, body>>

Chunk(r) ==
    /\ post[r] = "draining" /\ chunks[r].taken < MaxChunks
    /\ chunks' = [chunks EXCEPT ![r].taken = @ + 1]
    /\ UNCHANGED <<server, disposed, post, upload, body>>

\* Faulty variant: a source that yields nothing does not end the response.
Drained_Yielded(r, ok) ==
    /\ post[r] = "draining" /\ chunks[r].taken > 0
    /\ chunks' = [chunks EXCEPT ![r].iter = "returned"]
    /\ post' = [post EXCEPT ![r] = IF ok THEN "answered" ELSE "failed"]
    /\ UNCHANGED <<server, disposed, upload, body>>

\* The iterator is done, or throws; return() is called either way.
Drained(r, ok) ==
    /\ post[r] = "draining"
    /\ chunks' = [chunks EXCEPT ![r].iter = "returned"]
    /\ post' = [post EXCEPT ![r] = IF ok THEN "answered" ELSE "failed"]
    /\ UNCHANGED <<server, disposed, upload, body>>

Serves(r) == post[r] \in {"executing", "draining"}

Responds(r) == \/ \E how \in {"complete", "chunked", "rejects"} : Executed(r, how)
               \/ \E ok \in BOOLEAN : Drained(r, ok)

Next ==
    \/ Start \/ Stop \/ Stopped
    \/ \E ok \in BOOLEAN : Started(ok)
    \/ \E r \in Posts :
          \/ \E how \in {"upgrade", "options", "json"} : Arrives(r, how)
          \/ \E u \in Uploads : ArrivesMultipart(r, u)
          \/ Chunk(r) \/ Responds(r)

Spec == Init /\ [][Next]_httpVars

-----------------------------------------------------------------------------
\* A file placed at p stays there unless a later path is p or leads to p.
Stays(u, k) == \A j \in DOMAIN Placements(u) :
    j > k => ~IsPrefix(Placements(u)[j].path, Placements(u)[k].path)

\* What text stands for, a later path may need as an object.
Untouched(u, q) == \A k \in DOMAIN Placements(u) : LET p == Placements(u)[k].path IN
    ~IsPrefix(p, q) /\ (u.operations[q] = Text => ~IsPrefix(q, p))

\* Apollo Server gets the operations that came with every file at the paths its map
\* names, the last one where they overlap, and nothing else changed; with no path into
\* null, through an unsafe key or too deep, and no more or larger files than allowed.
UploadsPlaced == \A r \in Posts : post[r] \notin {"idle", "refused"} /\ upload[r] # Nothing =>
    LET u == upload[r]
        places == Placements(u)
        given == {k \in DOMAIN places : Stays(u, k)}
        rest == {q \in DOMAIN u.operations : Untouched(u, q)}
    IN /\ DOMAIN body[r] = rest \union {places[k].path : k \in given}
       /\ \A k \in given : body[r][places[k].path] = places[k].file
       /\ \A q \in rest : body[r][q] = u.operations[q]
       /\ \A k \in DOMAIN places : /\ Len(places[k].path) <= MaxDepth
                                   /\ Range(places[k].path) \intersect Unsafe = {}
                                   /\ places[k].file \notin Oversized
       /\ Cardinality({places[k].file : k \in DOMAIN places}) <= MaxFiles

\* No response keeps its source: an iterator that was begun is returned, also when
\* it failed on the way.
ChunksReturned == \A r \in Posts :
    post[r] \in {"answered", "failed"} => chunks[r].iter # "open"
=============================================================================
