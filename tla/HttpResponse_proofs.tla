------------------------- MODULE HttpResponse_proofs -------------------------
(***************************************************************************)
(* TLAPS proofs about HttpResponse, for all status codes and lengths that  *)
(* a delegate may set, and any number of calls of the delegates.           *)
(***************************************************************************)
EXTENDS HttpResponse, TLAPS

-----------------------------------------------------------------------------
(* The inductive invariant.                                                *)

\* What -[CGIHTTPContext main] makes of a response it does not leave to the
\* handler: the status and the page go together until they are sent.
MadeAsDecided ==
    /\ phase = "delegates" <=> outcome = "none"
    /\ phase = "made" /\ outcome # "handled" =>
          headers["Status"] = Number(Code(outcome)) /\ data = "error"

IInv == TypeOK /\ MadeAsDecided /\ StatusAsDocumented /\ BodyAsDescribed

-----------------------------------------------------------------------------
(* Lemmas.                                                                 *)

\* Every header value that the accessors and the pages make is one.
LEMMA ValueProps ==
    /\ Absent \in Value
    /\ \A n \in Nat : Number(n) \in Value /\ Text(n) \in Value
    /\ \A n \in Nat, m \in Nat : Text(n) # Number(m) /\ Absent # Text(n)
    /\ \A k \in Body : Length(k) \in Nat
    /\ \A code \in Codes : code \in Nat
    /\ \A n \in Lengths : n \in Nat
    /\ \A how \in {"rejected", "redacted", "exception"} : Code(how) \in Nat
BY CodesAssumption DEF Absent, Number, Text, Value, Body, Length, Code

\* A description is never a number, and says what the value said.
LEMMA DescribedProps ==
    ASSUME NEW value \in Value
    PROVE  /\ Described(value) \in Value
           /\ Described(value).is # "number"
           /\ Described(value).of = value.of
           /\ value = Absent => Described(value) = Absent
           /\ \A n \in Nat : value = Number(n) => Described(value) = Text(n)
BY DEF Described, Value, Absent, Number, Text

\* Setting one header to a value leaves the headers headers.
LEMMA WithProps ==
    ASSUME TypeOK, NEW k \in Key, NEW value \in Value, With(k, value)
    PROVE  headers' \in [Key -> Value]
BY DEF TypeOK, With

\* The length of what is sent is right in all cases of prepareForSend.
LEMMA LengthToSendProps ==
    ASSUME TypeOK
    PROVE  /\ LengthToSend \in Value
           /\ ~IsRedirection => \/ LengthToSend = Absent
                                \/ LengthToSend = Number(Length(DataToSend))
BY ValueProps DEF TypeOK, LengthToSend, DataToSend, IsRedirection, Length, Key

-----------------------------------------------------------------------------
(* Each step preserves the inductive invariant.                            *)

\* A delegate's call keeps the types, and is over before anything is made.
LEMMA DelegatesStep ==
    ASSUME IInv, Delegates
    PROVE  IInv'
<1>1. /\ phase = "delegates" /\ phase' = phase /\ outcome' = outcome
      /\ calls' \in 0..MaxCalls
  BY CodesAssumption DEF IInv, TypeOK, Called, Delegates, SetStatusCode,
     SetResponseWithRedirection, SetResponseWithError, SetContentLength,
     SetData, SetSetCookie, SetHeader, StatusCode, ContentLength,
     SetResponseWithTemplatePage
<1>2. headers' \in [Key -> Value]
  <2>1. ASSUME NEW code \in Codes, SetStatusCode(code) \/ SetResponseWithError(code)
        PROVE  headers' \in [Key -> Value]
    BY <2>1, ValueProps DEF IInv, TypeOK, SetStatusCode, SetResponseWithError,
       ErrorHeaders, TemplatePage, With, Key
  <2>2. ASSUME NEW code \in Codes, SetResponseWithRedirection(code)
        PROVE  headers' \in [Key -> Value]
    BY <2>2, ValueProps DEF IInv, TypeOK, SetResponseWithRedirection, Key
  <2>3. ASSUME NEW n \in Lengths, SetContentLength(n)
        PROVE  headers' \in [Key -> Value]
    BY <2>3, ValueProps, WithProps DEF IInv, SetContentLength, Key
  <2>4. ASSUME SetHeader
        PROVE  headers' \in [Key -> Value]
    BY <2>4, ValueProps, WithProps DEF IInv, SetHeader, Key
  <2>5. ASSUME ContentLength
        PROVE  headers' \in [Key -> Value]
    BY <2>5, ValueProps, WithProps DEF IInv, TypeOK, ContentLength, Key
  <2>6. ASSUME SetSetCookie \/ SetResponseWithTemplatePage
        PROVE  headers' \in [Key -> Value]
    BY <2>6, ValueProps, WithProps
       DEF IInv, SetSetCookie, SetResponseWithTemplatePage, TemplatePage, Key
  <2>7. ASSUME StatusCode \/ \E body \in {"empty", "page"} : SetData(body)
        PROVE  headers' \in [Key -> Value]
    BY <2>7 DEF IInv, TypeOK, StatusCode, SetData
  <2> QED BY <2>1, <2>2, <2>3, <2>4, <2>5, <2>6, <2>7 DEF Delegates
<1>3. data' \in Body /\ raised' \in BOOLEAN
  BY DEF IInv, TypeOK, Body, Delegates, SetStatusCode,
     SetResponseWithRedirection, SetResponseWithError, SetContentLength,
     SetData, SetSetCookie, SetHeader, StatusCode, ContentLength,
     SetResponseWithTemplatePage, TemplatePage
<1>4. TypeOK'
  BY <1>1, <1>2, <1>3 DEF IInv, TypeOK, Sent
<1> QED BY <1>1, <1>4 DEF IInv, MadeAsDecided, StatusAsDocumented, BodyAsDescribed,
           BodyIsSent, LengthIsOfTheData, Sent

\* A handler's response is left to the handler.
LEMMA HandledStep ==
    ASSUME IInv, Handled
    PROVE  IInv'
BY DEF IInv, TypeOK, Handled, MadeAsDecided, StatusAsDocumented, BodyAsDescribed,
       BodyIsSent, LengthIsOfTheData, Sent

\* Any other response gets the status and the page of how it ended.
LEMMA SetResponseWithStep ==
    ASSUME IInv, NEW how \in {"rejected", "redacted", "exception"},
           SetResponseWith(how)
    PROVE  IInv'
<1>1. headers' \in [Key -> Value] /\ headers'["Status"] = Number(Code(how))
  BY ValueProps DEF IInv, TypeOK, SetResponseWith, ErrorHeaders, TemplatePage, Key
<1>2. TypeOK'
  BY <1>1 DEF IInv, TypeOK, SetResponseWith, Sent, Body
<1>3. MadeAsDecided'
  BY <1>1 DEF MadeAsDecided, SetResponseWith
<1>4. StatusAsDocumented' /\ BodyAsDescribed'
  BY DEF SetResponseWith, StatusAsDocumented, BodyAsDescribed, BodyIsSent,
         LengthIsOfTheData, Sent
<1> QED BY <1>2, <1>3, <1>4 DEF IInv

\* prepareForSend sends the status it was given, and a length that is right.
LEMMA PrepareForSendStep ==
    ASSUME IInv, PrepareForSend
    PROVE  IInv'
<1>1. /\ headers \in [Key -> Value] /\ LengthToSend \in Value /\ data' \in Body
      /\ Text(0) \in Value /\ Text(0).is # "number"
  BY LengthToSendProps, ValueProps
     DEF IInv, TypeOK, PrepareForSend, DataToSend, Body, Text
<1>2. /\ headers'["Status"] = Described(headers["Status"])
      /\ headers'["Location"] = Described(headers["Location"])
      /\ headers'["Content-Length"] = Described(LengthToSend)
  BY DEF PrepareForSend, Key
<1>3. headers' \in [Key -> Value] /\ \A k \in Key : headers'[k].is # "number"
  BY <1>1, DescribedProps DEF PrepareForSend
<1>4. TypeOK'
  BY <1>1, <1>3 DEF IInv, TypeOK, PrepareForSend
<1>5. MadeAsDecided'
  BY DEF IInv, MadeAsDecided, PrepareForSend
<1>6. StatusAsDocumented'
  <2>1. outcome # "handled" => headers["Status"] = Number(Code(outcome))
    BY DEF IInv, MadeAsDecided, PrepareForSend
  <2>2. outcome # "handled" => Code(outcome) \in Nat
    BY ValueProps DEF IInv, TypeOK, MadeAsDecided, PrepareForSend
  <2> QED BY <1>1, <1>2, <2>1, <2>2, DescribedProps, ValueProps
          DEF StatusAsDocumented, PrepareForSend
<1>7. IsRedirection' <=> IsRedirection
  BY <1>1, <1>2, DescribedProps DEF IsRedirection, Key
<1>8. BodyIsSent'
  BY <1>7 DEF IInv, MadeAsDecided, BodyIsSent, PrepareForSend, DataToSend
<1>9. LengthIsOfTheData'
  <2>1. DataToSend \in Body /\ Length(DataToSend) \in Nat
    BY ValueProps DEF IInv, TypeOK, DataToSend, Body
  <2> QED BY <1>1, <1>2, <1>7, <2>1, LengthToSendProps, DescribedProps, ValueProps
          DEF IInv, LengthIsOfTheData, PrepareForSend
<1> QED BY <1>4, <1>5, <1>6, <1>8, <1>9 DEF IInv, BodyAsDescribed

\* didSendResponse: finds the response as it was sent.
LEMMA DidSendResponseStep ==
    ASSUME IInv, DidSendResponse
    PROVE  IInv'
BY DEF IInv, TypeOK, DidSendResponse, Readable, MadeAsDecided, StatusAsDocumented,
       BodyAsDescribed, BodyIsSent, LengthIsOfTheData, IsRedirection, Sent

-----------------------------------------------------------------------------
(* The specification.                                                      *)

\* A new response has no headers and no data.
LEMMA InitIInv == Init => IInv
<1> SUFFICES ASSUME Init PROVE IInv
  OBVIOUS
<1>1. TypeOK
  <2>1. headers \in [Key -> Value] /\ data \in Body /\ ~Sent
    BY ValueProps DEF Init, Body, Sent
  <2>2. calls \in 0..MaxCalls
    BY CodesAssumption DEF Init
  <2> QED BY <2>1, <2>2 DEF Init, TypeOK
<1>2. MadeAsDecided
  BY DEF Init, MadeAsDecided
<1>3. StatusAsDocumented /\ BodyAsDescribed
  BY DEF Init, StatusAsDocumented, BodyAsDescribed, BodyIsSent, LengthIsOfTheData, Sent
<1> QED BY <1>1, <1>2, <1>3 DEF IInv

\* No call of a delegate, and no step of the context, breaks the invariant.
LEMMA NextIInv == IInv /\ [Next]_vars => IInv'
<1> SUFFICES ASSUME IInv, [Next]_vars PROVE IInv'
  OBVIOUS
<1>1. CASE UNCHANGED vars
  BY <1>1 DEF vars, IInv, TypeOK, MadeAsDecided, StatusAsDocumented,
              BodyAsDescribed, BodyIsSent, LengthIsOfTheData, IsRedirection, Sent
<1> QED BY <1>1, DelegatesStep, HandledStep, SetResponseWithStep,
           PrepareForSendStep, DidSendResponseStep DEF Next

\* The inductive invariant of a response on its way to the stream.
THEOREM IInvariant == Spec => []IInv
BY InitIInv, NextIInv, PTL DEF Spec

\* No header that is sent is a number, which would raise an exception where
\* the lines are put together (CGIHTTPContext.m:152-163).
THEOREM TypeCorrect == Spec => []TypeOK
<1>1. IInv => TypeOK
  BY DEF IInv
<1> QED BY <1>1, IInvariant, PTL

\* A response that is rejected, redacted or raised has the documented status,
\* whatever the delegates did to it before (CGIHTTPContext.m:116-141).
THEOREM DocumentedStatus == Spec => []StatusAsDocumented
<1>1. IInv => StatusAsDocumented
  BY DEF IInv
<1> QED BY <1>1, IInvariant, PTL

\* The body that is sent is the right one, and its length is what the header
\* says, for all lengths that a delegate may set (prepareForSend,
\* CGIHTTPContext.m:146).
THEOREM DescribedBody == Spec => []BodyAsDescribed
<1>1. IInv => BodyAsDescribed
  BY DEF IInv
<1> QED BY <1>1, IInvariant, PTL
=============================================================================
