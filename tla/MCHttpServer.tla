---------------------------- MODULE MCHttpServer ----------------------------
(* Streams of lines for HttpServer.                                        *)
EXTENDS HttpServer, SequencesExt

MCPages == [path \in {"/", "/hello"} |-> IF path = "/" THEN 3 ELSE 2]

MCWithoutQuery == [target \in {"/hello?q"} |-> "/hello"]

Close == <<"Connection", ":", "Close">>
KeepAlive == <<"Connection", ":", "Keep-Alive">>
Host == <<"Host", ":", "h">>

\* A line with three words that is no request line, and one without a colon.
Unknown == <<"GET", "/", "HTTP/2.0">>

GetPage == <<"GET", "/", "HTTP/1.1">>
GetHello10 == <<"GET", "/hello?q", "HTTP/1.0">>
GetNothing == <<"GET", "/nothing", "HTTP/1.1">>
Post == <<"POST", "/", "HTTP/1.1">>

MCLines == {GetPage, GetHello10, GetNothing, Post, Close, KeepAlive, Host,
            Unknown, EmptyLine}

\* Any four lines of these.
AnyStream == BoundedSeq(MCLines \ {GetNothing}, 4)

\* Well-formed requests with at most one header.
WellFormed == {<<r>> \o h \o <<EmptyLine>> :
                 r \in {GetPage, GetHello10, GetNothing},
                 h \in BoundedSeq({Close, KeepAlive, Host}, 1)}

\* Three of them, or two and a line that is refused.
RequestStreams == {a \o b \o c : a, b \in WellFormed,
                                 c \in WellFormed \cup {<<Unknown>>}}

=============================================================================
