---------------------------- MODULE ProxyRequest ----------------------------
(***************************************************************************)
(* What the egress proxy makes of one request head: the parsers of         *)
(* egress_proxy.cpp, as functions of texts.  A text is a sequence of       *)
(* characters, of which only the ones the parsers look at are told apart:  *)
(* "[", "]", ":", the blank " ", the digits "0" and "1", and "h" for any   *)
(* other character.  Numbers are those texts read in base 10, without a    *)
(* sign.                                                                   *)
(***************************************************************************)
EXTENDS Integers, Sequences, SequencesExt

CONSTANTS
    None,
    PortMax,         \* the largest u16
    HttpPort,        \* 80
    MaxContentLength,
    RunId,           \* the user name the proxy asks for
    AuthorityLength  \* bound of the texts the parser is checked on

Characters == {"[", "]", ":", " ", "0", "1", "h"}

ASSUME PortAssumption ==
    /\ PortMax \in Nat \ {0} /\ HttpPort \in 1..PortMax /\ AuthorityLength \in Nat
    /\ MaxContentLength \in Nat /\ RunId \in Seq(Characters)

\* A host and a port, 0 for a port still to be filled in.
Authorities == [host: Seq(Characters), port: 0..PortMax]

ASSUME NoAuthorityAssumption == None \notin Authorities /\ None \notin 1..PortMax

FindFirst(s, ch) ==
    IF \E i \in DOMAIN s : s[i] = ch
    THEN CHOOSE i \in DOMAIN s : s[i] = ch /\ \A k \in 1..(i - 1) : s[k] # ch
    ELSE 0

FindLast(s, ch) ==
    IF FindFirst(s, ch) = 0 THEN 0 ELSE Len(s) + 1 - FindFirst(Reverse(s), ch)

From(s, i) == SubSeq(s, i, Len(s))

TrimView(s) ==
    LET Kept == {i \in DOMAIN s : s[i] # " "}
    IN  IF Kept = {} THEN <<>>
        ELSE LET first == CHOOSE i \in Kept : \A k \in Kept : i <= k
                 last  == CHOOSE i \in Kept : \A k \in Kept : k <= i
             IN  SubSeq(s, first, last)

\* integers::Parse of an unsigned number: digits only, and no more than the type, or the
\* caller, allows.
ParseNumber(text, max) ==
    LET DigitOf(ch) == IF ch = "1" THEN 1 ELSE 0
        value == FoldLeft(LAMBDA sum, ch : 10 * sum + DigitOf(ch), 0, text)
    IN  IF text # <<>> /\ ToSet(text) \subseteq {"0", "1"} /\ value \in 0..max THEN value ELSE None

ParsePort(text) == LET port == ParseNumber(text, PortMax) IN IF port = 0 THEN None ELSE port

(* Mutant of ParseAuthority: the last colon separates the port, so that an *)
(* unbracketed IPv6 address is cut in two.                                 *)
ParseAuthorityLastColon(text, defaultPort, portRequired) ==
    LET a     == TrimView(text)
        colon == FindLast(a, ":")
        port  == ParsePort(From(a, colon + 1))
    IN  IF a = <<>> THEN None
        ELSE IF colon = 0
        THEN IF portRequired THEN None ELSE [host |-> a, port |-> defaultPort]
        ELSE IF colon = 1 \/ port = None THEN None
        ELSE [host |-> SubSeq(a, 1, colon - 1), port |-> port]

ParseAuthority(text, defaultPort, portRequired) ==
    LET a         == TrimView(text)
        bracketed == a # <<>> /\ a[1] = "["
        close     == FindFirst(a, "]")
        colon     == FindFirst(a, ":")
        hostEnd   == IF bracketed THEN close - 1 ELSE IF colon = 0 THEN Len(a) ELSE colon - 1
        host      == SubSeq(a, IF bracketed THEN 2 ELSE 1, hostEnd)
        remainder == From(a, IF bracketed THEN close + 1 ELSE hostEnd + 1)
        port      == ParsePort(Tail(remainder))
    IN  IF \/ a = <<>>
           \/ bracketed /\ close = 0
           \/ ~bracketed /\ colon # FindLast(a, ":")
           \/ host = <<>>
        THEN None
        ELSE IF remainder = <<>>
        THEN IF portRequired THEN None ELSE [host |-> host, port |-> defaultPort]
        ELSE IF remainder[1] # ":" \/ port = None THEN None
        ELSE [host |-> host, port |-> port]

(***************************************************************************)
(* A request head as it arrives.  large: it outgrows kMaxHeaderBytes       *)
(* before it ends; method, target, version: the parts of its request line  *)
(* at the first two blanks, None (or FALSE) where one is absent or empty;  *)
(* lines: its header lines at their first colon, None without a colon.     *)
(* Methods and names are compared without regard to case.                  *)
(***************************************************************************)

\* authority: the whole target, or what is between the scheme and the path.
Targets ==
    [form: {"absolute", "origin", "other"}, authority: Seq(Characters), long: BOOLEAN]

\* A Proxy-Authorization: the word before its blank, and what the rest decodes to.
Credentials == [scheme: {"basic", "other", None}, decoded: Seq(Characters) \cup {None}]

HeaderLines ==
    [name: {"host", "content-length", "other", None}, value: Seq(Characters)]
        \cup [name: {"proxy-authorization"}, value: Credentials]

RequestHeads ==
    [large: BOOLEAN, method: {"CONNECT", "GET", None}, target: Targets \cup {None},
     version: BOOLEAN, lines: Seq(HeaderLines \cup {None})]

\* Values keep their blanks here: whoever reads one trims it again.
ParseHeaderBlock(h) ==
    IF h.method = None \/ h.target = None \/ ~h.version THEN None
    ELSE [method |-> h.method, target |-> h.target,
          headers |-> SelectSeq(h.lines, LAMBDA line : line # None /\ line.name # None)]

\* The first header of a name, None if there is none.
FindHeaderValue(headers, name) ==
    LET i == SelectInSeq(headers, LAMBDA header : header.name = name)
    IN  IF i = 0 THEN None ELSE headers[i].value

\* The user of a Basic authorization, None if there is no user and password.
ParseBasicAuthUser(value) ==
    LET colon == FindFirst(value.decoded, ":")
    IN  IF value.scheme # "basic" \/ value.decoded = None THEN None
        ELSE IF colon = 0 THEN None ELSE SubSeq(value.decoded, 1, colon - 1)

ParseContentLength(value) == ParseNumber(TrimView(value), MaxContentLength)

ParseHttpRequestTarget(r) ==
    LET host == FindHeaderValue(r.headers, "host")
        a    == ParseAuthority(host, 0, FALSE)
    IN  IF r.target.form = "absolute" THEN ParseAuthority(r.target.authority, HttpPort, FALSE)
        ELSE IF r.target.form # "origin" \/ host = None THEN None
        ELSE IF a # None /\ a.port = 0 THEN [a EXCEPT !.port = HttpPort] ELSE a

\* The host and port a request is forwarded to; None when HandleConnect or HandleHttp
\* answers 400.  An absolute URL has a colon and no port behind it: no CONNECT target.
Target(h) ==
    LET r      == ParseHeaderBlock(h)
        length == FindHeaderValue(r.headers, "content-length")
    IN  IF r.method # "CONNECT"
        THEN IF length # None /\ ParseContentLength(length) = None
             THEN None ELSE ParseHttpRequestTarget(r)
        ELSE IF r.target.form = "absolute" THEN None
        ELSE ParseAuthority(r.target.authority, 0, TRUE)

\* HandleClient refuses the request before it looks where it goes.
Refused(h, requireAuth) ==
    LET r    == ParseHeaderBlock(h)
        auth == FindHeaderValue(r.headers, "proxy-authorization")
    IN  \/ h.large \/ r = None
        \/ r.target.long
        \/ requireAuth /\ (auth = None \/ ParseBasicAuthUser(auth) # RunId)

-----------------------------------------------------------------------------
\* The grammar of an authority: a host without a colon, or any host in brackets, and
\* then nothing or a colon and a port.
AuthorityForms(a, defaultPort, portRequired) ==
    LET Ports(rest) ==
            IF rest = <<>> THEN IF portRequired THEN {} ELSE {defaultPort}
            ELSE IF rest[1] = ":" THEN {ParsePort(Tail(rest))} \ {None} ELSE {}
        Split(first, last, next) ==
            {[host |-> SubSeq(a, first, last), port |-> p] : p \in Ports(From(a, next))}
    IN  IF a # <<>> /\ a[1] = "["
        THEN UNION {Split(2, i - 1, i + 1) :
                        i \in {k \in 3..Len(a) : a[k] = "]" /\ "]" \notin ToSet(SubSeq(a, 2, k - 1))}}
        ELSE UNION {Split(1, i, i + 1) :
                        i \in {k \in 1..Len(a) : ":" \notin ToSet(SubSeq(a, 1, k))}}

\* ParseAuthority finds the host and the port of every text of the grammar, and nothing
\* in any other: an authority names one upstream, whatever its brackets and colons.
AuthorityIsUnambiguous(Texts) ==
    \A text \in Texts, default \in {0, HttpPort}, required \in BOOLEAN :
        LET parsed == ParseAuthority(text, default, required)
        IN  AuthorityForms(TrimView(text), default, required)
                = IF parsed = None THEN {} ELSE {parsed}

\* Texts to look at.
SomeAuthorities == SeqOf(Characters, AuthorityLength)
=============================================================================
