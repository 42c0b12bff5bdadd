------------------------- MODULE MC_RequestHandling -------------------------
(***************************************************************************)
(* A small site after configs/multi.conf: pages, an upload store, a        *)
(* redirect, a listed directory, scripts, and an error page; and one       *)
(* request, or a few, for every way through the Router.                    *)
(***************************************************************************)
EXTENDS RequestHandling

Www == <<".", "/", "w">>
UploadName_ == <<"upload">>
RootPath == <<"/">>
IndexPage == <<"index">>
EmptyText == <<>>

Place(path, limit) == [NewLocation EXCEPT !.path = path, !.root = Www \o path, !.limit = limit]
Up == <<"/", "up">>
Locations ==
    <<[Place(Up, 12) EXCEPT !.uploadStore = Www \o Up],
      [Place(<<"/", "old">>, 0) EXCEPT !.redirect = Up,
                                       !.cgi = <<".", "py">> :> <<"python">>],
      [Place(<<"/", "dir">>, 0) EXCEPT !.methods = <<"GET">>, !.autoindex = TRUE],
      [Place(<<"/", "bin">>, 1) EXCEPT !.cgi = <<".", "py">> :> <<"python">>],
      Place(<<"/", "up", "/", "a">>, 1),
      [Place(<<"/", "pub", "/">>, 0) EXCEPT !.root = Www \o <<"/", "dir">>]>>

\* A page of the site, so that it comes and goes like the others.
ErrorFile == Www \o <<"/", "page">>
Config_ ==
    [NewServer EXCEPT !.root = Www, !.limit = 2, !.locations = Locations,
                      !.errorPages = (404 :> ErrorFile) @@ (500 :> ErrorFile)]

Directories == {<<>>, <<<<"w">>>>, <<<<"w">>, <<"up">>>>, <<<<"w">>, <<"dir">>>>}
Files == {<<<<"w">>, <<"page">>>>, <<<<"w">>, <<"dir">>, <<"index">>>>,
          <<<<"w">>, <<"up">>, <<"a">>>>, <<<<"w">>, <<"up">>, <<"upload">>>>}
Contents == {<<"x">>}

-----------------------------------------------------------------------------
Get_(path) == [method |-> "GET", path |-> path, version |-> "HTTP/1.1", parses |-> TRUE,
               cut |-> path, announced |-> 0, form |-> FALSE, body |-> <<>>, sent |-> <<>>]
Delete(path) == [Get_(path) EXCEPT !.method = "DELETE"]
Post(path, body) ==
    [Get_(path) EXCEPT !.method = "POST", !.body = body, !.announced = Len(body)]
\* Two spaces behind the method; and a body of which nothing was said.
Spaced(r) == [r EXCEPT !.cut = <<>>]
Unannounced(r) == [r EXCEPT !.announced = 0]

FormBody(parts) == FoldLeft(LAMBDA body, part : body \o Sent(part), <<>>, parts) \o <<Boundary>>
Form(parts) ==
    [Post(Up, FormBody(parts)) EXCEPT !.form = TRUE, !.sent = parts]

A == <<"a">>
FormFile(called, data) == [file |-> TRUE, name |-> called, data |-> data]
Field == [file |-> FALSE, name |-> <<>>, data |-> <<"v">>]

\* No browser sends this: a boundary right behind a header.
NoForm == <<Boundary, Crlf, Filename, "a", Quote, Crlf, Crlf, Boundary>>

Script == <<"/", "bin", "/", "s", ".", "py", "?", "q">>
Paths ==
    {<<"/", "page">>, <<"/", "none">>, <<"/", "dir">>, <<"/", "dir", "/">>, Up \o <<"/", "a">>,
     <<"/", "pub", "/", "index">>,
     <<"/", "old">>, <<"/", "old", "/", "s", ".", "py">>, <<"/", "bin", "/", "s", ".", "py">>,
     Script, <<"/", "page", "?", "q">>,
     <<"/", ".", ".", "/", "page">>, <<"/", "dir", "/", ".", ".", "/", "page">>,
     <<"/", ".", ".", "/", "w", "/", "page">>}
Requests ==
    {Get_(path) : path \in Paths}
    \cup {Delete(path) : path \in {<<"/", "page">>, Up \o <<"/", "a">>, Up, <<"/", "none">>,
                                   <<"/", "dir", "/", "index">>}}
    \cup {Post(Up, body) : body \in {<<>>, <<"d">>, <<"d", "d">>}}
    \cup {Post(Up \o <<"/", "a">>, <<"d", "d">>), Post(<<"/", "page">>, <<"d", "d", "d">>),
          Post(Script, <<"d">>), Post(Script, <<"d", "d">>),
          Spaced(Post(Script, <<"d", "d">>)),
          Unannounced(Post(<<"/", "page">>, <<"d", "d", "d">>)),
          [Get_(Script) EXCEPT !.version = "HTTP/1.0"], [Get_(Script) EXCEPT !.method = "PUT"]}
    \cup {Form(<<FormFile(A, <<"d">>)>>), Form(<<FormFile(A, <<>>)>>),
          Form(<<FormFile(A, <<"d", Crlf>>)>>), Form(<<FormFile(A, <<Crlf, Crlf>>)>>),
          Form(<<FormFile(<<>>, <<"d">>)>>), Form(<<FormFile(<<"b", "/", "a">>, <<"d">>)>>),
          Form(<<Field>>), Form(<<FormFile(A, <<"d">>), Field>>)}
    \cup {[Post(Up, NoForm) EXCEPT !.form = TRUE]}
    \cup {[Get_(<<"/", "page">>) EXCEPT !.version = "HTTP/1.0"],
          [Get_(<<"/", "page">>) EXCEPT !.method = "PUT"],
          [Get_(<<"/", "page">>) EXCEPT !.parses = FALSE]}

Line(k, v) == [key |-> k, value |-> v]
Headed_(lines, body) == [kind |-> "headed", lines |-> lines, body |-> body]
Outputs ==
    {[kind |-> "nothing"], [kind |-> "body", body |-> <<"o">>],
     Headed_(<<>>, <<"o", "o">>), Headed_(<<Line("Status", 404)>>, <<"o", "o">>),
     Headed_(<<Line("Content-Length", 9)>>, <<>>), Headed_(<<Line("content-length", 9)>>, <<"o">>),
     Headed_(<<Line("Content-Length", 9), Line("Status", 302), Line("Location", Up)>>, <<"o">>)}

=============================================================================
