------------------------------- MODULE Options -------------------------------
(***************************************************************************)
(* The configuration of one object: what the extension keeps of it         *)
(* (m_tlsOptions, m_proxyConfig, m_extraHeaders, m_formParams), what the   *)
(* library has been given, and the natives in between.  The object is a    *)
(* client (ws_natives_client.cpp), a server (ws_natives_server.cpp) or an  *)
(* HTTP request (http_natives.cpp, http_request.cpp).  Getters change      *)
(* nothing; they read own for the TLS options and the proxy, and lib for   *)
(* the others.                                                             *)
(***************************************************************************)
EXTENDS Naturals, Sequences, FiniteSets

CONSTANTS
  Values,      \* of an option; 0 is what it is at first, or false
  IsValid(_),  \* SocketTLSOptions::isValid (external): files there and readable
  FormKeys,    \* the keys of form parameters, in the order of a std::map
  MaxCalls     \* bound: natives called

TlsFields == {"cert", "ca", "ciphers", "tls", "hostname"}
TimeoutFields == {"pingTimeout", "idleTimeout", "sendTimeout", "closeTimeout"}
HeaderFields == {"Origin", "Content-Type"}
Protocols == {"chat", "game"}
GlobalFields == {"userAgent", "serverHeader"}
ClientFields == {"auto", "handshake", "pingInterval"}
WaitFields == {"minWait", "maxWait"}
ServerFields == {"pong", "deflate", "maxPerIp", "handshake"}
RequestFields == {"timeout", "redirects", "compression", "maxRedirects", "verbose"}
ConnectionFields == {"keepAlive", "pool"}

Fields ==
  TlsFields \cup TimeoutFields \cup HeaderFields \cup Protocols \cup GlobalFields
  \cup ClientFields \cup WaitFields \cup ServerFields \cup RequestFields
  \cup ConnectionFields \cup {"proxy", "auth"}

Cached == TlsFields \cup HeaderFields \cup {"proxy"}

ASSUME OptionsAssumption ==
  /\ {0, 1, 2} \subseteq Values
  /\ FormKeys \in Seq(STRING)
  /\ \A t \in [TlsFields -> Values] : IsValid(t) \in BOOLEAN
  /\ IsValid([f \in TlsFields |-> 0])
  /\ \A t, u \in [TlsFields -> Values] :
       t["cert"] = u["cert"] /\ t["ca"] = u["ca"] => IsValid(t) = IsValid(u)
  /\ MaxCalls \in Nat

VARIABLES
  kind,     \* of the object
  own,      \* the members of the extension's object
  lib,      \* what the library has
  form,     \* m_formParams, the value of each key that is in it
  body,     \* m_request->body: of a form, pairs with separators in between
  asked,    \* the options the last native is named for, and the value given
  rejected, \* the TLS options that were rejected and are only kept
  appended, \* the parameters appended, in order
  calls     \* natives called

forms == <<form, body, appended>>
vars == <<kind, own, lib, forms, asked, rejected, calls>>

Tls(s) == [f \in TlsFields |-> s[f]]

Kinds == {"client", "server", "http"}

(* The Content-Type that goes with a body. *)
JsonType == 1
FormType == 2

Init ==
  /\ kind \in Kinds
  /\ own = [f \in Cached |-> 0]
  /\ lib = [f \in Fields |-> 0]
  /\ form = [k \in {} |-> 0]
  /\ body = <<>>
  /\ asked = [options |-> {}, value |-> 0]
  /\ rejected = {}
  /\ appended = <<>>
  /\ calls = 0

(* A native that is called to give the options the value v. *)
Native(type, options, v) ==
  /\ kind = type
  /\ calls < MaxCalls
  /\ calls' = calls + 1
  /\ asked' = [options |-> options, value |-> v]
  /\ UNCHANGED kind

(* The library's configuration with some options taken from elsewhere.     *)
Given(options, from) == [f \in Fields |-> IF f \in options THEN from[f] ELSE lib[f]]

-----------------------------------------------------------------------------
(* Options the library keeps alone. *)

Plain(type, f, v) ==
  /\ Native(type, {f}, v)
  /\ lib' = [lib EXCEPT ![f] = v]
  /\ UNCHANGED <<own, rejected, forms>>

ClientOption(f, v) == Plain("client", f, v)
ServerOption(f, v) == Plain("server", f, v)
MaxConnectionsPerIp(v) == Plain("server", "maxPerIp", v)
ServerHandshake(v) == Plain("server", "handshake", v)
HttpAddHeader(f, v) == Plain("http", f, v)
SetGlobal(f, v) == Plain(kind, f, v)

(* Setters of HttpRequest for one of its m_request. *)
SetArgument(f, v) == lib' = [lib EXCEPT ![f] = v]

RequestOption(f, v) ==
  /\ Native("http", {f}, v)
  /\ SetArgument(f, v)
  /\ UNCHANGED <<own, rejected, forms>>

(* SetBasicAuth, SetBearerAuth, and ClearAuth with 0. *)
SetAuth(v) == lib' = [lib EXCEPT !["auth"] = v]

HttpAuth(v) ==
  /\ Native("http", {"auth"}, v)
  /\ SetAuth(v)
  /\ UNCHANGED <<own, rejected, forms>>

(* Setters of HttpRequest for its ix::HttpClient. *)
SetConnection(f, v) == lib' = [lib EXCEPT ![f] = v]

ConnectionOption(f, v) ==
  /\ Native("http", {f}, v)
  /\ SetConnection(f, v)
  /\ UNCHANGED <<own, rejected, forms>>

(* The waits are refused without automatic reconnection. *)
ReconnectWait(f, v) == lib["auto"] # 0 /\ Plain("client", f, v)

(* Subprotocols: added or removed one by one, or cleared. *)
SubProtocol(type, p, v) == Plain(type, p, v)

ClearSubProtocols(type) ==
  /\ Native(type, Protocols, 0)
  /\ lib' = Given(Protocols, [p \in Protocols |-> 0])
  /\ UNCHANGED <<own, rejected, forms>>

ClientSubProtocols ==
  \/ \E p \in Protocols, v \in {0, 1} : SubProtocol("client", p, v)
  \/ ClearSubProtocols("client")

ServerSubProtocols ==
  \/ \E p \in Protocols, v \in {0, 1} : SubProtocol("server", p, v)
  \/ ClearSubProtocols("server")

(* getTimeouts, one member assigned, setTimeouts. *)
Timeout(type, f, v) ==
  LET timeouts == [t \in TimeoutFields |-> lib[t]] IN
  /\ Native(type, {f}, v)
  /\ lib' = Given(TimeoutFields, [timeouts EXCEPT ![f] = v])
  /\ UNCHANGED <<own, rejected, forms>>

(* Mutant: a fresh struct instead of the one the library has. *)
ClientTimeoutFresh(f, v) ==
  /\ Native("client", {f}, v)
  /\ lib' = Given(TimeoutFields, [[t \in TimeoutFields |-> 0] EXCEPT ![f] = v])
  /\ UNCHANGED <<own, rejected, forms>>

ClientTimeout(f, v) == Timeout("client", f, v)
ServerTimeout(f, v) == Timeout("server", f, v)

-----------------------------------------------------------------------------
(* Options the extension keeps as well. *)

Keep(f, v) == own' = [own EXCEPT ![f] = v]

(* setTLSOptions hands over all of m_tlsOptions, rejected options as well. *)
SetTLSOptions ==
  /\ lib' = Given(TlsFields, own')
  /\ rejected' = {}

(* Certificate and key, or the authority: kept, then checked, then handed  *)
(* over or rejected.                                                       *)
CheckedTLS(type, f, v) ==
  /\ Native(type, {f}, v)
  /\ Keep(f, v)
  /\ IF IsValid(Tls(own')) THEN SetTLSOptions
     ELSE rejected' = rejected \cup {f} /\ UNCHANGED lib
  /\ UNCHANGED forms

ClientCheckedTLS(f, v) == CheckedTLS("client", f, v)

(* Mutant: checked, and not handed over. *)
ServerCheckedTLSKept(f, v) ==
  /\ Native("server", {f}, v)
  /\ Keep(f, v)
  /\ UNCHANGED <<lib, rejected, forms>>

ServerCheckedTLS(f, v) == CheckedTLS("server", f, v)

(* The check is in HttpRequest; the native checks once more to reject.     *)
HttpCheckedTLS(f, v) == CheckedTLS("http", f, v)

(* Ciphers, TLS on or off, hostname validation: kept and handed over.      *)
UncheckedTLS(type, f, v) ==
  /\ Native(type, {f}, v)
  /\ Keep(f, v)
  /\ SetTLSOptions
  /\ UNCHANGED forms

ClientUncheckedTLS(f, v) == UncheckedTLS("client", f, v)

ServerUncheckedTLS(f, v) == UncheckedTLS("server", f, v)

(* Mutant: checked like the others. *)
HttpUncheckedTLSIfValid(f, v) == CheckedTLS("http", f, v)

HttpUncheckedTLS(f, v) == UncheckedTLS("http", f, v)

(* SetHeader of a client: m_extraHeaders as a whole. *)
SetHeader(f, v) ==
  /\ Native("client", {f}, v)
  /\ Keep(f, v)
  /\ lib' = Given(HeaderFields, own')
  /\ UNCHANGED <<rejected, forms>>

(* SetProxy, and ClearProxy with 0. *)
Proxy(type, v) ==
  /\ Native(type, {"proxy"}, v)
  /\ Keep("proxy", v)
  /\ lib' = [lib EXCEPT !["proxy"] = v]
  /\ UNCHANGED <<rejected, forms>>

ClientProxy(v) == Proxy("client", v)
HttpProxy(v) == Proxy("http", v)

-----------------------------------------------------------------------------
(* The body of an HTTP request. *)

Text == <<<<"text">>>>
Json == <<<<"json">>>>

HttpSetBody ==
  /\ Native("http", {}, 0)
  /\ body' = Text
  /\ UNCHANGED <<own, lib, rejected, form, appended>>

(* SetJsonBody, by its native or with a JSON verb.  Without JSON, without  *)
(* its extension or with a value that cannot be written nothing is set,    *)
(* and the plugin is not told.                                             *)
HttpSetJsonBody ==
  /\ \/ /\ Native("http", {"Content-Type"}, JsonType)
        /\ lib' = [lib EXCEPT !["Content-Type"] = JsonType]
        /\ body' = Json
     \/ Native("http", {}, 0) /\ UNCHANGED <<lib, body>>
  /\ UNCHANGED <<own, rejected, form, appended>>

(* m_formParams[key] = value *)
Assigned(k, v) == [l \in DOMAIN form \cup {k} |-> IF l = k THEN v ELSE form[l]]

SetFormParam(k, v) == form' = Assigned(k, v)

AppendFormParam(k, v) ==
  /\ Native("http", {}, 0)
  /\ SetFormParam(k, v)
  /\ appended' = Append(appended, <<k, v>>)
  /\ UNCHANGED <<own, lib, rejected, body>>

And == <<"&">>


(* The loop over m_formParams, with a separator but before the first. *)
BuildFormData ==
  LET params == SelectSeq(FormKeys, LAMBDA k : k \in DOMAIN form)
      data[i \in 0..Len(params)] ==
        IF i = 0 THEN <<>>
        ELSE data[i - 1] \o (IF i = 1 THEN <<>> ELSE <<And>>)
               \o <<<<params[i], form[params[i]]>>>>
  IN  data[Len(params)]

PostForm ==
  /\ Native("http", {"Content-Type"}, FormType)
  /\ body' = BuildFormData
  /\ lib' = [lib EXCEPT !["Content-Type"] = FormType]
  /\ UNCHANGED <<own, rejected, form, appended>>

-----------------------------------------------------------------------------
ClientNext ==
  \/ \E v \in Values :
       \/ \E f \in ClientFields : ClientOption(f, v)
       \/ \E f \in WaitFields : ReconnectWait(f, v)
       \/ \E f \in {"cert", "ca"} : ClientCheckedTLS(f, v)
       \/ \E f \in {"ciphers", "tls", "hostname"} : ClientUncheckedTLS(f, v)
       \/ \E f \in TimeoutFields : ClientTimeout(f, v)
       \/ \E f \in HeaderFields : SetHeader(f, v)
       \/ ClientProxy(v)
  \/ ClientSubProtocols

ServerNext ==
  \/ \E v \in Values :
       \/ \E f \in {"pong", "deflate"} : ServerOption(f, v)
       \/ MaxConnectionsPerIp(v)
       \/ ServerHandshake(v)
       \/ \E f \in {"cert", "ca"} : ServerCheckedTLS(f, v)
       \/ \E f \in {"ciphers", "tls", "hostname"} : ServerUncheckedTLS(f, v)
       \/ \E f \in TimeoutFields : ServerTimeout(f, v)
  \/ ServerSubProtocols

HttpNext ==
  \/ \E v \in Values :
       \/ \E f \in RequestFields : RequestOption(f, v)
       \/ \E f \in ConnectionFields : ConnectionOption(f, v)
       \/ \E f \in {"cert", "ca"} : HttpCheckedTLS(f, v)
       \/ \E f \in {"ciphers", "hostname"} : HttpUncheckedTLS(f, v)
       \/ \E f \in HeaderFields : HttpAddHeader(f, v)
       \/ HttpProxy(v)
       \/ HttpAuth(v)
  \/ \E i \in DOMAIN FormKeys, v \in {0, 1} : AppendFormParam(FormKeys[i], v)
  \/ HttpSetBody
  \/ HttpSetJsonBody
  \/ PostForm

Next ==
  \/ ClientNext
  \/ ServerNext
  \/ HttpNext
  \/ \E f \in GlobalFields, v \in Values : SetGlobal(f, v)

Spec == Init /\ [][Next]_vars

-----------------------------------------------------------------------------
TypeOK ==
  /\ kind \in Kinds
  /\ own \in [Cached -> Values]
  /\ lib \in [Fields -> Values]
  /\ DOMAIN form \subseteq STRING /\ \A k \in DOMAIN form : form[k] \in Values
  /\ appended \in Seq(STRING \X Values)
  /\ asked \in [options : SUBSET Fields, value : Values]
  /\ rejected \subseteq {"cert", "ca"}
  /\ calls \in 0..MaxCalls

(* The library has each TLS option the extension keeps, but for those a    *)
(* setter has rejected since the options were last handed over; while one  *)
(* is only kept, what is kept as a whole is invalid                        *)
(* (ws_natives_client.cpp:353-362, 404-405, 416-417;                       *)
(* http_request.cpp:234-240).                                              *)
CachedUnlessRejected ==
  /\ \A f \in TlsFields : own[f] # lib[f] => f \in rejected
  /\ rejected # {} => ~IsValid(Tls(own))

(* The getters that read the extension's copy (ws_natives_client.cpp:421,  *)
(* 435, 648; http_request.cpp:267, 304) tell what the library does, also   *)
(* after setters were rejected; so it is with the headers of a client.     *)
GettersTruthful ==
  /\ \A f \in {"ciphers", "tls", "hostname", "proxy"} : own[f] = lib[f]
  /\ kind = "client" => \A f \in HeaderFields : own[f] = lib[f]

GivenAsAsked ==
  LET options == asked'.options IN
  IF options \cap rejected' # {} THEN lib' = lib
  ELSE /\ \A f \in options : lib'[f] = asked'.value
       /\ \A f \in Fields \ options :
            lib'[f] = lib[f] \/ (f \in rejected /\ options \cap TlsFields # {})

(* A native that is not rejected gives the library the option it is named  *)
(* for, with the value given, and no other - although timeouts, TLS        *)
(* options and headers are handed over as a whole                          *)
(* (ws_natives_client.cpp:162-176, 353-362, 397-451) - but for TLS options *)
(* rejected before, which go out with the next one that is not checked.    *)
(* One that is rejected changes nothing in the library.                    *)
AsAsked == [][GivenAsAsked]_vars

LastValue(k, params) ==
  LET last == CHOOSE i \in DOMAIN params :
                /\ params[i][1] = k
                /\ \A j \in DOMAIN params : j > i => params[j][1] # k
  IN  params[last][2]

=============================================================================
