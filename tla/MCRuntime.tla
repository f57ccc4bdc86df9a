------------------------------ MODULE MCRuntime -----------------------------
(* Routes of every tier, with guards and interceptors of every scope. *)
EXTENDS Runtime, TLC

Plain == [kind |-> "http", middleware |-> FALSE, guards |-> <<>>, interceptors |-> <<>>,
          params |-> "none", files |-> [kind |-> "none", name |-> "", limited |-> FALSE, most |-> 0],
          httpCode |-> FALSE, injects |-> FALSE]

Takes(kind, name, limited, most) ==
    [kind |-> kind, name |-> name, limited |-> limited, most |-> most]

Considered == {
    [Plain EXCEPT !.middleware = TRUE, !.injects = TRUE],
    [Plain EXCEPT !.guards = <<"single", "request">>, !.interceptors = <<"single">>],
    [Plain EXCEPT !.guards = <<"new">>, !.params = "di", !.httpCode = TRUE],
    [Plain EXCEPT !.guards = <<"request">>, !.interceptors = <<"request">>,
                  !.files = Takes("file", "a", TRUE, 0), !.middleware = TRUE],
    [Plain EXCEPT !.files = Takes("file", "", TRUE, 0), !.params = "di"],
    [Plain EXCEPT !.files = Takes("files", "a", TRUE, 1)],
    [Plain EXCEPT !.files = Takes("files", "", TRUE, 2)],
    [Plain EXCEPT !.files = Takes("form", "", TRUE, 0)],
    [Plain EXCEPT !.kind = "ws", !.guards = <<"single", "request">>],
    [Plain EXCEPT !.kind = "message"],
    [Plain EXCEPT !.kind = "event"],
    [Plain EXCEPT !.kind = "graphql", !.guards = <<"single", "new">>] }

One(n, f) == [name |-> n, array |-> FALSE, files |-> <<f>>]
Several(n, fs) == [name |-> n, array |-> TRUE, files |-> fs]
Posted == {
    [multipart |-> FALSE, fields |-> <<>>, valid |-> TRUE],
    [multipart |-> TRUE, fields |-> <<Several("a", <<TRUE, TRUE>>), One("b", FALSE)>>, valid |-> TRUE],
    [multipart |-> TRUE, fields |-> <<One("b", TRUE), One("a", FALSE)>>, valid |-> FALSE],
    [multipart |-> TRUE, fields |-> <<One("a", TRUE)>>, valid |-> TRUE]}

\* HTTP tells neither "passes" from "skips" nor "unknown" from "answers"; on
\* upgrades and resolvers filters have no say.
Catching == [http |-> {"skips", "answers", "throws"},
             message |-> {"skips", "passes", "answers", "throws", "unknown"},
             event |-> {"skips", "passes", "answers", "throws", "unknown"},
             ws |-> {}, graphql |-> {}]

\* A second application that provides more, or something else, and cleans or does not.
App(p, c) == [provides |-> p, cleans |-> c]
Restarts == {
    <<App(<<"jwt">>, TRUE), App(<<"jwt", "local">>, TRUE)>>,
    <<App(<<"local">>, FALSE), App(<<"jwt", "key">>, TRUE)>>}
Types == {<<>>, <<"jwt">>, <<"local", "jwt">>, <<"key">>}

\* A pattern that matches the event and one that does not, though its end would.
Name == <<"order", "item", "created">>
Registered == {Name, <<"order", "**">>, <<"*", "created">>}

Named == [w \in Writers |-> IF w = "orders" THEN "context" ELSE ""]
Lines(l, a) == [level |-> l, args |-> a]
Logged == {
    Lines("error", <<"text">>), Lines("error", <<"text", "error">>), Lines("fatal", <<"error">>),
    Lines("error", <<"text", "text">>), Lines("debug", <<"text", "data">>),
    Lines("log", <<"text", "text">>)}
Overrides ==
    {[kind |-> "levels", levels |-> s] : s \in {{"warn"}, {"debug", "error"}}}
    \cup {[kind |-> k, levels |-> {}] : k \in {"custom", "plain", "none"}}
    \cup {[kind |-> "console", levels |-> {"fatal"}]}

\* Two URLs with one clean form, methods that are not cached, and keys from @CacheKey.
Visit(m, b, r, c) == [method |-> m, by |-> b, raw |-> r, clean |-> c]
MCVisits == {
    Visit("GET", "url", "/a", "/a"), Visit("GET", "url", "/a..", "/a"), Visit("GET", "url", "/c", "/c"),
    Visit("POST", "url", "/b", "/b"), Visit("POST", "key", "/b", "/b"), Visit("GET", "key", "", "")}
MCStores ==
    {[stores |-> s, lruSize |-> n] : s \in {"own", "empty", "none"}, n \in {0, 1, Unset}}
=============================================================================
