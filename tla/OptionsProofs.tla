---------------------------- MODULE OptionsProofs ----------------------------
(* Theorems of Options, for any values, any notion of a valid              *)
(* configuration that judges files alone, and any number of calls.         *)
EXTENDS Options, TLAPS

(* What the natives do comes down to ten forms of step. *)
PlainStep ==
  \E type \in {"client", "server", "http"}, v \in Values,
     f \in Fields \ (TlsFields \cup {"proxy"}) :
    /\ f \in HeaderFields => type = "http"
    /\ Plain(type, f, v)
TimeoutStep ==
  \E type \in {"client", "server"}, v \in Values, f \in TimeoutFields : Timeout(type, f, v)
CheckedStep ==
  \E type \in {"client", "server", "http"}, v \in Values, f \in {"cert", "ca"} :
    CheckedTLS(type, f, v)
UncheckedStep ==
  \E type \in {"client", "server", "http"}, v \in Values,
     f \in {"ciphers", "tls", "hostname"} :
    UncheckedTLS(type, f, v)
HeaderStep == \E v \in Values, f \in HeaderFields : SetHeader(f, v)
ProxyStep == \E type \in {"client", "http"}, v \in Values : Proxy(type, v)

LEMMA Steps ==
  ASSUME Next, kind \in Kinds
  PROVE  \/ PlainStep \/ TimeoutStep \/ CheckedStep \/ UncheckedStep
         \/ HeaderStep \/ ProxyStep
         \/ \E type \in {"client", "server"} : ClearSubProtocols(type)
         \/ \E i \in DOMAIN FormKeys, v \in {0, 1} : AppendFormParam(FormKeys[i], v)
         \/ HttpSetBody \/ HttpSetJsonBody \/ PostForm
<1> USE DEF Fields, TlsFields, TimeoutFields, HeaderFields, Protocols, GlobalFields,
        ClientFields, WaitFields, ServerFields, RequestFields, ConnectionFields
<1>1. CASE ClientNext
  BY <1>1, OptionsAssumption
  DEF ClientNext, ClientOption, ReconnectWait, ClientCheckedTLS, ClientUncheckedTLS,
      ClientTimeout, ClientProxy, ClientSubProtocols, SubProtocol,
      PlainStep, TimeoutStep, CheckedStep, UncheckedStep, HeaderStep, ProxyStep
<1>2. CASE ServerNext
  BY <1>2, OptionsAssumption
  DEF ServerNext, ServerOption, MaxConnectionsPerIp, ServerHandshake,
      ServerCheckedTLS, ServerUncheckedTLS, ServerTimeout, ServerSubProtocols,
      SubProtocol, PlainStep, TimeoutStep, CheckedStep, UncheckedStep
<1>3. CASE HttpNext
  BY <1>3
  DEF HttpNext, RequestOption, SetArgument, ConnectionOption, SetConnection,
      HttpCheckedTLS, HttpUncheckedTLS, HttpAddHeader, HttpProxy, HttpAuth, SetAuth,
      Plain, PlainStep, CheckedStep, UncheckedStep, ProxyStep
<1>4. CASE \E f \in GlobalFields, v \in Values : SetGlobal(f, v)
  BY <1>4 DEF SetGlobal, PlainStep, Kinds
<1>5. QED
  BY <1>1, <1>2, <1>3, <1>4 DEF Next

-----------------------------------------------------------------------------
(* setTLSOptions makes the TLS options of the library the kept ones.       *)
LEMMA GivenTls ==
  ASSUME NEW o, NEW options \in SUBSET Fields, lib \in [Fields -> Values]
  PROVE  /\ options = TlsFields => Tls(Given(options, o)) = Tls(o)
         /\ options \cap TlsFields = {} => Tls(Given(options, o)) = Tls(lib)
         /\ \A f \in Fields : Given(options, o)[f] = IF f \in options THEN o[f] ELSE lib[f]
<1>1. TlsFields \subseteq Fields
  BY DEF Fields
<1>2. QED
  BY <1>1 DEF Given, Tls

Inv == TypeOK /\ CachedUnlessRejected /\ GettersTruthful

LEMMA InitInv == Init => Inv
<1> SUFFICES ASSUME Init PROVE Inv
  OBVIOUS
<1>1. TypeOK
  <2>1. <<>> \in Seq(STRING \X Values)
    OBVIOUS
  <2>2. QED
    BY <2>1, OptionsAssumption DEF Init, TypeOK, Cached, Fields
<1>2. CachedUnlessRejected /\ GettersTruthful
  BY DEF Init, CachedUnlessRejected, GettersTruthful, Cached, Fields, TlsFields,
         HeaderFields
<1>3. QED
  BY <1>1, <1>2 DEF Inv

(* The sets of options, as far as the proofs need to know them. *)
LEMMA FieldFacts ==
  /\ TlsFields \subseteq Fields /\ TlsFields \subseteq Cached
  /\ HeaderFields \subseteq Fields /\ HeaderFields \subseteq Cached
  /\ TimeoutFields \subseteq Fields /\ Protocols \subseteq Fields
  /\ "proxy" \in Fields \cap Cached
  /\ TlsFields \cap (HeaderFields \cup TimeoutFields \cup Protocols \cup {"proxy"}) = {}
  /\ {"ciphers", "tls", "hostname"} \subseteq TlsFields
  /\ {"cert", "ca"} \subseteq TlsFields
  /\ {"cert", "ca"} \cap {"ciphers", "tls", "hostname"} = {}
  /\ "proxy" \notin HeaderFields \cup TimeoutFields \cup Protocols
  /\ HeaderFields \cap (TimeoutFields \cup Protocols) = {}
  /\ "Content-Type" \in HeaderFields
  BY DEF TlsFields, Fields, Cached, HeaderFields, TimeoutFields, Protocols

(* A native called leaves a trace of its own. *)
LEMMA NativeFacts ==
  ASSUME NEW type, NEW options \in SUBSET Fields, NEW v \in Values,
         Native(type, options, v), TypeOK
  PROVE  /\ kind = type /\ kind' = kind /\ kind' \in Kinds
         /\ calls' \in 0..MaxCalls /\ calls' # calls
         /\ asked' = [options |-> options, value |-> v]
         /\ asked' \in [options : SUBSET Fields, value : Values]
         /\ asked'.options = options /\ asked'.value = v
  BY OptionsAssumption DEF Native, TypeOK

(* The value handed over, and all the rest as it was. *)
OnlyAsked(options, v) ==
  /\ \A f \in options : lib'[f] = v
  /\ \A f \in Fields \ options :
       lib'[f] = lib[f] \/ (f \in rejected /\ options \cap TlsFields # {})

Does(options, v) ==
  IF options \cap rejected' # {} THEN lib' = lib ELSE OnlyAsked(options, v)

(* What each native keeps of the invariant, and does to the library.       *)
LEMMA NextStep ==
  ASSUME Inv, Next
  PROVE  /\ Inv'
         /\ calls' # calls
         /\ \E options \in SUBSET Fields, v \in Values :
              asked' = [options |-> options, value |-> v] /\ Does(options, v)
<1> DEFINE Goal == /\ Inv'
                  /\ calls' # calls
                  /\ \E options \in SUBSET Fields, v \in Values :
                       asked' = [options |-> options, value |-> v] /\ Does(options, v)
<1>t. TypeOK /\ kind \in Kinds /\ own \in [Cached -> Values] /\ lib \in [Fields -> Values]
      /\ rejected \subseteq {"cert", "ca"}
  BY DEF Inv, TypeOK
<1>v. 0 \in Values /\ 1 \in Values /\ 2 \in Values
  BY OptionsAssumption
<1>k. ASSUME NEW type, NEW options \in SUBSET Fields, NEW v \in Values,
             Native(type, options, v),
             own' \in [Cached -> Values], lib' \in [Fields -> Values],
             rejected' \subseteq {"cert", "ca"},
             UNCHANGED <<form, appended>>,
             CachedUnlessRejected', GettersTruthful', Does(options, v)
      PROVE  Goal
  <2>1. TypeOK'
    BY <1>k, <1>t, NativeFacts DEF TypeOK
  <2>2. QED
    BY <1>k, <1>t, <2>1, NativeFacts DEF Inv
(* A step that leaves the kept options and the TLS options alone. *)
<1>p. ASSUME NEW type, NEW options \in SUBSET Fields, NEW v \in Values,
             Native(type, options, v),
             options \cap (TlsFields \cup {"proxy"}) = {},
             type = "client" => options \cap HeaderFields = {},
             lib' \in [Fields -> Values],
             \A f \in options : lib'[f] = v,
             \A f \in Fields \ options : lib'[f] = lib[f],
             UNCHANGED <<own, rejected, form, appended>>
      PROVE  Goal
  <2>1. kind = type /\ kind' = kind
    BY <1>p, <1>t, NativeFacts
  <2>2. CachedUnlessRejected'
    <3>1. Tls(own') = Tls(own)
      BY <1>p
    <3>2. QED
      BY <1>p, <3>1, FieldFacts DEF Inv, CachedUnlessRejected
  <2>3. GettersTruthful'
    BY <1>p, <2>1, FieldFacts DEF Inv, GettersTruthful
  <2>4. options \cap rejected' = {}
    BY <1>p, <1>t, FieldFacts
  <2>5. Does(options, v)
    BY <1>p, <2>4 DEF Does, OnlyAsked
  <2>6. QED
    BY <1>p, <1>t, <2>2, <2>3, <2>5, <1>k
<1>1. CASE PlainStep
  <2>1. PICK type \in {"client", "server", "http"}, v \in Values,
             f \in Fields \ (TlsFields \cup {"proxy"}) :
          /\ f \in HeaderFields => type = "http"
          /\ Plain(type, f, v)
    BY <1>1 DEF PlainStep
  <2>2. /\ Native(type, {f}, v) /\ lib' = [lib EXCEPT ![f] = v]
        /\ UNCHANGED <<own, rejected, form, appended>>
        /\ {f} \in SUBSET Fields
    BY <2>1 DEF Plain, forms
  <2>3. QED
    BY <2>1, <2>2, <1>t, <1>p
<1>2. CASE TimeoutStep
  <2>1. PICK type \in {"client", "server"}, v \in Values, g \in TimeoutFields :
          Timeout(type, g, v)
    BY <1>2 DEF TimeoutStep
  <2>2. /\ Native(type, {g}, v)
        /\ UNCHANGED <<own, rejected, form, appended>>
        /\ lib' \in [Fields -> Values]
        /\ lib'[g] = v
        /\ \A f \in Fields \ {g} : lib'[f] = lib[f]
    BY <2>1, <1>t, FieldFacts DEF Timeout, Given, forms
  <2>3. {g} \in SUBSET Fields /\ {g} \cap (TlsFields \cup {"proxy"} \cup HeaderFields) = {}
    BY <2>1, FieldFacts
  <2>4. QED
    BY <2>2, <2>3, <1>p
<1>3. CASE CheckedStep
  <2>1. PICK type \in {"client", "server", "http"}, v \in Values, g \in {"cert", "ca"} :
          CheckedTLS(type, g, v)
    BY <1>3 DEF CheckedStep
  <2>2. /\ own' \in [Cached -> Values]
        /\ own'[g] = v
        /\ \A f \in Cached \ {g} : own'[f] = own[f]
        /\ Native(type, {g}, v)
        /\ UNCHANGED <<form, appended>>
        /\ {g} \in SUBSET Fields
    BY <2>1, <1>t, FieldFacts DEF CheckedTLS, Keep, forms
  <2>3. kind' = kind
    BY <2>2, <1>t, NativeFacts
  <2>4. CASE IsValid(Tls(own'))
    <3>1. lib' = Given(TlsFields, own') /\ rejected' = {}
      BY <2>1, <2>4 DEF CheckedTLS, SetTLSOptions
    <3>2. /\ lib' \in [Fields -> Values]
          /\ \A f \in Fields : lib'[f] = IF f \in TlsFields THEN own'[f] ELSE lib[f]
      BY <3>1, <2>2, <1>t, FieldFacts DEF Given
    <3>3. CachedUnlessRejected'
      BY <3>1, <3>2, FieldFacts DEF CachedUnlessRejected
    <3>4. GettersTruthful'
      BY <2>2, <2>3, <3>2, FieldFacts DEF Inv, GettersTruthful
    <3>5. OnlyAsked({g}, v)
      BY <2>2, <3>2, FieldFacts DEF Inv, CachedUnlessRejected, OnlyAsked
    <3>6. QED
      BY <2>2, <3>1, <3>2, <3>3, <3>4, <3>5, <1>k DEF Does
  <2>5. CASE ~IsValid(Tls(own'))
    <3>1. lib' = lib /\ rejected' = rejected \cup {g}
      BY <2>1, <2>5 DEF CheckedTLS
    <3>2. CachedUnlessRejected'
      BY <2>2, <2>5, <3>1, FieldFacts DEF Inv, CachedUnlessRejected
    <3>3. GettersTruthful'
      BY <2>2, <2>3, <3>1, FieldFacts DEF Inv, GettersTruthful
    <3>4. Does({g}, v)
      BY <3>1 DEF Does
    <3>5. QED
      BY <2>2, <3>1, <3>2, <3>3, <3>4, <1>t, <1>k
  <2>6. QED
    BY <2>4, <2>5
<1>4. CASE UncheckedStep
  <2>1. PICK type \in {"client", "server", "http"}, v \in Values,
             g \in {"ciphers", "tls", "hostname"} : UncheckedTLS(type, g, v)
    BY <1>4 DEF UncheckedStep
  <2>2. /\ own' \in [Cached -> Values]
        /\ own'[g] = v
        /\ \A f \in Cached \ {g} : own'[f] = own[f]
        /\ Native(type, {g}, v)
        /\ UNCHANGED <<form, appended>>
        /\ {g} \in SUBSET Fields
    BY <2>1, <1>t, FieldFacts DEF UncheckedTLS, Keep, forms
  <2>3. /\ rejected' = {}
        /\ lib' \in [Fields -> Values]
        /\ \A f \in Fields : lib'[f] = IF f \in TlsFields THEN own'[f] ELSE lib[f]
    BY <2>1, <2>2, <1>t, FieldFacts DEF UncheckedTLS, SetTLSOptions, Given
  <2>4. kind' = kind
    BY <2>2, <1>t, NativeFacts
  <2>5. CachedUnlessRejected'
    BY <2>3, FieldFacts DEF CachedUnlessRejected
  <2>6. GettersTruthful'
    BY <2>2, <2>3, <2>4, FieldFacts DEF Inv, GettersTruthful
  <2>7. OnlyAsked({g}, v)
    BY <2>2, <2>3, FieldFacts DEF Inv, CachedUnlessRejected, OnlyAsked
  <2>8. QED
    BY <2>2, <2>3, <2>5, <2>6, <2>7, <1>k DEF Does
<1>5. CASE HeaderStep
  <2>1. PICK v \in Values, g \in HeaderFields : SetHeader(g, v)
    BY <1>5 DEF HeaderStep
  <2>2. /\ own' \in [Cached -> Values]
        /\ own'[g] = v
        /\ \A f \in Cached \ {g} : own'[f] = own[f]
        /\ Native("client", {g}, v)
        /\ UNCHANGED <<rejected, form, appended>>
        /\ {g} \in SUBSET Fields
    BY <2>1, <1>t, FieldFacts DEF SetHeader, Keep, forms
  <2>3. /\ lib' \in [Fields -> Values]
        /\ \A f \in Fields : lib'[f] = IF f \in HeaderFields THEN own'[f] ELSE lib[f]
    BY <2>1, <2>2, <1>t, FieldFacts DEF SetHeader, Given
  <2>4. kind = "client" /\ kind' = kind
    BY <2>2, <1>t, NativeFacts
  <2>5. Tls(own') = Tls(own)
    BY <2>2, FieldFacts DEF Tls
  <2>6. CachedUnlessRejected'
    BY <2>2, <2>3, <2>5, FieldFacts DEF Inv, CachedUnlessRejected
  <2>7. GettersTruthful'
    BY <2>2, <2>3, <2>4, FieldFacts DEF Inv, GettersTruthful
  <2>8. {g} \cap rejected' = {}
    BY <2>1, <2>2, <1>t, FieldFacts
  <2>9. OnlyAsked({g}, v)
    BY <2>2, <2>3, <2>4, FieldFacts DEF Inv, GettersTruthful, OnlyAsked
  <2>10. QED
    BY <2>2, <2>3, <2>6, <2>7, <2>8, <2>9, <1>t, <1>k DEF Does
<1>6. CASE ProxyStep
  <2>1. PICK type \in {"client", "http"}, v \in Values : Proxy(type, v)
    BY <1>6 DEF ProxyStep
  <2>2. /\ own' = [own EXCEPT !["proxy"] = v]
        /\ lib' = [lib EXCEPT !["proxy"] = v]
        /\ Native(type, {"proxy"}, v)
        /\ UNCHANGED <<rejected, form, appended>>
        /\ {"proxy"} \in SUBSET Fields
    BY <2>1, FieldFacts DEF Proxy, Keep, forms
  <2>3. kind' = kind
    BY <2>2, <1>t, NativeFacts
  <2>4. Tls(own') = Tls(own)
    BY <2>2, <1>t, FieldFacts DEF Tls
  <2>5. CachedUnlessRejected'
    BY <2>2, <2>4, <1>t, FieldFacts DEF Inv, CachedUnlessRejected
  <2>6. GettersTruthful'
    BY <2>2, <2>3, <1>t, FieldFacts DEF Inv, GettersTruthful
  <2>7. {"proxy"} \cap rejected' = {}
    BY <2>2, <1>t
  <2>8. OnlyAsked({"proxy"}, v)
    BY <2>2, <1>t, FieldFacts DEF OnlyAsked
  <2>9. own' \in [Cached -> Values] /\ lib' \in [Fields -> Values]
    BY <2>1, <2>2, <1>t
  <2>10. QED
    BY <2>1, <2>2, <2>5, <2>6, <2>7, <2>8, <2>9, <1>t, <1>k DEF Does
<1>7. CASE \E type \in {"client", "server"} : ClearSubProtocols(type)
  <2>1. PICK type \in {"client", "server"} : ClearSubProtocols(type)
    BY <1>7
  <2>2. /\ Native(type, Protocols, 0)
        /\ UNCHANGED <<own, rejected, form, appended>>
        /\ lib' \in [Fields -> Values]
        /\ \A f \in Protocols : lib'[f] = 0
        /\ \A f \in Fields \ Protocols : lib'[f] = lib[f]
    BY <2>1, <1>t, <1>v, FieldFacts DEF ClearSubProtocols, Given, forms
  <2>3. Protocols \in SUBSET Fields /\ Protocols \cap (TlsFields \cup {"proxy"} \cup HeaderFields) = {}
    BY FieldFacts
  <2>4. QED
    BY <2>2, <2>3, <1>v, <1>p
<1>8. CASE \E i \in DOMAIN FormKeys, v \in {0, 1} : AppendFormParam(FormKeys[i], v)
  <2>1. PICK i \in DOMAIN FormKeys, v \in {0, 1} : AppendFormParam(FormKeys[i], v)
    BY <1>8
  <2>2. FormKeys[i] \in STRING /\ v \in Values
    BY <1>v, OptionsAssumption
  <2>3. DOMAIN form' \subseteq STRING /\ \A k \in DOMAIN form' : form'[k] \in Values
    <3>1. form' = [l \in DOMAIN form \cup {FormKeys[i]} |->
                     IF l = FormKeys[i] THEN v ELSE form[l]]
      BY <2>1 DEF AppendFormParam, SetFormParam, Assigned
    <3>2. QED
      BY <2>2, <3>1, <1>t DEF TypeOK
  <2>4. appended' \in Seq(STRING \X Values)
    <3>1. appended \in Seq(STRING \X Values) /\ <<FormKeys[i], v>> \in STRING \X Values
      BY <2>2, <1>t DEF TypeOK
    <3>2. appended' = Append(appended, <<FormKeys[i], v>>)
      BY <2>1 DEF AppendFormParam
    <3>3. QED
      BY <3>1, <3>2
  <2>5. Native("http", {}, 0) /\ UNCHANGED <<own, lib, rejected>>
    BY <2>1 DEF AppendFormParam
  <2>6. /\ kind' = kind /\ kind' \in Kinds /\ calls' \in 0..MaxCalls /\ calls' # calls
        /\ asked' = [options |-> {}, value |-> 0]
        /\ asked' \in [options : SUBSET Fields, value : Values]
    BY <2>5, <1>t, <1>v, NativeFacts
  <2>7. TypeOK'
    BY <2>3, <2>4, <2>5, <2>6, <1>t DEF TypeOK
  <2>8. Tls(own') = Tls(own)
    BY <2>5
  <2>9. CachedUnlessRejected' /\ GettersTruthful'
    BY <2>5, <2>6, <2>8 DEF Inv, CachedUnlessRejected, GettersTruthful
  <2>10. {} \in SUBSET Fields /\ Does({}, 0)
    BY <2>5 DEF Does, OnlyAsked
  <2>11. QED
    BY <2>6, <2>7, <2>9, <2>10, <1>v DEF Inv
<1>9. CASE HttpSetBody \/ HttpSetJsonBody \/ PostForm
  <2>1. PICK options \in {{"Content-Type"}, {}}, v \in {JsonType, FormType, 0} :
          /\ Native("http", options, v)
          /\ lib' = IF options = {} THEN lib ELSE [lib EXCEPT !["Content-Type"] = v]
    BY <1>9 DEF HttpSetBody, HttpSetJsonBody, PostForm
  <2>2. UNCHANGED <<own, rejected, form, appended>>
    BY <1>9 DEF HttpSetBody, HttpSetJsonBody, PostForm
  <2>3. v \in Values /\ options \in SUBSET Fields /\ options \cap (TlsFields \cup {"proxy"}) = {}
    BY <2>1, <1>v, FieldFacts DEF JsonType, FormType
  <2>4. /\ lib' \in [Fields -> Values]
        /\ \A f \in options : lib'[f] = v
        /\ \A f \in Fields \ options : lib'[f] = lib[f]
    BY <2>1, <2>3, <1>t
  <2>5. QED
    BY <2>1, <2>2, <2>3, <2>4, <1>p
<1>10. QED
  BY <1>t, <1>1, <1>2, <1>3, <1>4, <1>5, <1>6, <1>7, <1>8, <1>9, Steps

LEMMA NextInv == Inv /\ [Next]_vars => Inv'
<1>1. CASE UNCHANGED vars
  BY <1>1
  DEF vars, forms, Inv, TypeOK, CachedUnlessRejected, GettersTruthful, Tls
<1>2. QED
  BY <1>1, NextStep

LEMMA Invariant == Spec => []Inv
<1>1. QED
  BY InitInv, NextInv, PTL DEF Spec

(* The types, for any number of calls. *)
THEOREM TypeCorrect == Spec => []TypeOK
<1>1. Inv => TypeOK
  BY DEF Inv
<1>2. QED
  BY Invariant, <1>1, PTL

(* The library and m_tlsOptions differ only over a rejected configuration, *)
(* for a client, a server and an HTTP request alike, rejections included.  *)
THEOREM KeptIsGiven == Spec => []CachedUnlessRejected
<1>1. Inv => CachedUnlessRejected
  BY DEF Inv
<1>2. QED
  BY Invariant, <1>1, PTL

(* Getters that read the extension's copy are right about the library.     *)
THEOREM GettersRight == Spec => []GettersTruthful
<1>1. Inv => GettersTruthful
  BY DEF Inv
<1>2. QED
  BY Invariant, <1>1, PTL

-----------------------------------------------------------------------------
(* Each native gives the library the option it is named for, whatever else *)
(* it hands over with it (ws_natives_client.cpp:162-176, 353-362,          *)
(* 397-451): in any order of natives, after rejections as before.          *)
THEOREM NativesDoAsAsked == Spec => AsAsked
<1>1. Inv /\ [Next]_vars => [GivenAsAsked]_vars
  <2>1. SUFFICES ASSUME Inv, Next
                 PROVE  GivenAsAsked
    OBVIOUS
  <2>2. PICK options \in SUBSET Fields, v \in Values :
          asked' = [options |-> options, value |-> v] /\ Does(options, v)
    BY <2>1, NextStep
  <2>3. asked'.options = options /\ asked'.value = v
    BY <2>2
  <2>4. QED
    BY <2>2, <2>3 DEF GivenAsAsked, Does, OnlyAsked
<1>2. QED
  BY Invariant, <1>1, PTL DEF Spec, AsAsked
=============================================================================
