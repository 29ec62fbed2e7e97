---------------------------- MODULE HttpResponse ----------------------------
(***************************************************************************)
(* The response of one context (CGIKit/CGIHTTPResponse.m) on its way from  *)
(* the delegates' hands to the stream: the accessors and convenience       *)
(* methods that a delegate may call in any order, the pages that replace a *)
(* response which is rejected, redacted or raised, prepareForSend, and the *)
(* accessors once more from the didSendResponse: callback.                 *)
(*                                                                         *)
(* Data abstraction.  A header's value is a number object or a text, and   *)
(* what it says: a status code, a length, the length of a location; a text *)
(* whose wording no property is about says 0.  The body is its origin.     *)
(***************************************************************************)
EXTENDS Integers

CONSTANTS
    Codes,      \* the status codes a delegate may set
    Lengths,    \* the lengths a delegate may set as contentLength
    MaxCalls    \* bound: how many calls the delegates make before the send

ASSUME CodesAssumption ==
    Codes \subseteq Nat /\ Lengths \subseteq Nat /\ MaxCalls \in Nat

Key == {"Status", "Content-Type", "Content-Length", "Set-Cookie", "Location",
        "X-Powered-By"}

Body == {"empty", "page", "error"}
Length(body) == IF body = "empty" THEN 0 ELSE IF body = "page" THEN 5 ELSE 7

VARIABLES
    phase,      \* "delegates", "made", "prepared" (and written), "didSend"
    outcome,    \* how -[CGIHTTPContext main] ended the response
    headers,    \* the response's headers
    data,       \* and its data
    raised,     \* the last call of a delegate raised an exception
    calls       \* the number of delegate calls so far

vars == <<phase, outcome, headers, data, raised, calls>>

Absent == [is |-> "absent", of |-> 0]
Number(n) == [is |-> "number", of |-> n]
Text(n) == [is |-> "text", of |-> n]

Init ==
    /\ phase = "delegates"
    /\ outcome = "none"
    /\ headers = [k \in Key |-> Absent]
    /\ data = "empty"
    /\ raised = FALSE
    /\ calls = 0

-----------------------------------------------------------------------------
(* What a delegate does to the response in shouldHandle, handle and        *)
(* shouldSend.                                                             *)

With(k, value) == headers' = [headers EXCEPT ![k] = value]

Called ==
    /\ phase = "delegates" /\ calls < MaxCalls
    /\ calls' = calls + 1
    /\ UNCHANGED <<phase, outcome>>

SetStatusCode(code) ==
    Called /\ With("Status", Number(code)) /\ UNCHANGED <<data, raised>>

SetSetCookie ==
    Called /\ With("Set-Cookie", Text(0)) /\ UNCHANGED <<data, raised>>

SetContentLength(n) ==
    Called /\ With("Content-Length", Number(n)) /\ UNCHANGED <<data, raised>>

\* The headers are public: a delegate may put a text where the accessors put
\* a number, and a location that is empty.
SetHeader ==
    /\ Called
    /\ \/ \E code \in Codes : With("Status", Text(code))
       \/ \E n \in Lengths : With("Content-Length", Text(n))
       \/ \E n \in {0, 1} : With("Location", Text(n))
    /\ UNCHANGED <<data, raised>>

\* unsignedIntegerValue is a method of NSNumber; nil answers 0, NSString raises.
Readable(k) == headers[k].is # "text"

StatusCode ==
    /\ Called
    /\ raised' = ~Readable("Status")
    /\ UNCHANGED <<headers, data>>

\* The getter stores the length of the data if there is no length yet.
ContentLength ==
    /\ Called
    /\ raised' = ~Readable("Content-Length")
    /\ IF headers["Content-Length"] = Absent
       THEN With("Content-Length", Number(Length(data)))
       ELSE UNCHANGED headers
    /\ UNCHANGED data

\* context.response.data is mutable, and so is set behind the headers' back.
SetData(body) == Called /\ data' = body /\ UNCHANGED <<headers, raised>>

\* The substitutions go into the template, which is a page of its own.
TemplatePage(body) ==
    [data |-> body, type |-> Text(0)]

SetResponseWithTemplatePage ==
    /\ Called
    /\ data' = TemplatePage("page").data
    /\ With("Content-Type", TemplatePage("page").type)
    /\ UNCHANGED raised

\* Fault: the page of a response that has a status keeps it.
ErrorHeadersKept(code) ==
    [headers EXCEPT !["Status"] = IF @ = Absent THEN Number(code) ELSE @,
                    !["Content-Type"] = TemplatePage("error").type]
\* setResponseWithError:statusCode: and setResponseWithException: set these;
\* what else is in the headers stays.
ErrorHeaders(code) ==
    [headers EXCEPT !["Status"] = Number(code),
                    !["Content-Type"] = TemplatePage("error").type]

\* An NSError without a failure reason raises where the substitutions are put
\* together, when the status is set and the page is not.
SetResponseWithError(code) ==
    /\ Called
    /\ \/ /\ headers' = ErrorHeaders(code)
          /\ data' = TemplatePage("error").data
          /\ UNCHANGED raised
       \/ /\ With("Status", Number(code))
          /\ raised' = TRUE
          /\ UNCHANGED data

SetResponseWithRedirection(code) ==
    /\ Called
    /\ data' = "empty"
    /\ headers' = [headers EXCEPT !["Location"] = Text(1),
                                  !["Status"] = Number(code)]
    /\ UNCHANGED raised

-----------------------------------------------------------------------------
(* -[CGIHTTPContext main]: what the delegates' answers make of it.         *)

Code(how) ==
    CASE how = "rejected" -> 501 [] how = "redacted" -> 403
      [] how = "exception" -> 500

\* A call that raises ends the delegate with that exception.
Handled ==
    /\ phase = "delegates" /\ ~raised
    /\ phase' = "made"
    /\ outcome' = "handled"
    /\ UNCHANGED <<headers, data, raised, calls>>

SetResponseWith(how) ==
    /\ phase = "delegates"
    /\ raised => how = "exception"
    /\ phase' = "made"
    /\ outcome' = how
    /\ headers' = ErrorHeaders(Code(how))
    /\ data' = "error"
    /\ raised' = FALSE
    /\ UNCHANGED calls

IsRedirection == headers["Location"].of > 0

\* Fault: what is not a text is put into the line as it is.
DescribedNot(value) == value

\* -[NSObject description], for what is not a text already.
Described(value) == IF value = Absent THEN Absent ELSE Text(value.of)

\* Fault: contentLength is left as a delegate set it.
LengthToSendAsSet ==
    IF ~IsRedirection /\ data # "empty" THEN Absent
    ELSE headers["Content-Length"]

\* contentLength is set, and then removed again if there is any data.
LengthToSend ==
    IF IsRedirection THEN headers["Content-Length"]
    ELSE IF data = "empty" THEN Number(0) ELSE Absent

DataToSend == IF IsRedirection THEN "empty" ELSE data

\* prepareForSend, and the writing of headers and data.
PrepareForSend ==
    /\ phase = "made"
    /\ phase' = "prepared"
    /\ data' = DataToSend
    /\ headers' =
          [k \in Key |->
              CASE k = "X-Powered-By" -> Text(0)
                [] k = "Content-Length" -> Described(LengthToSend)
                [] OTHER -> Described(headers[k])]
    /\ UNCHANGED <<outcome, raised, calls>>

\* didSendResponse: reads an accessor of the response that was sent.
DidSendResponse ==
    /\ phase = "prepared"
    /\ phase' = "didSend"
    /\ raised' \in {~Readable("Status"), ~Readable("Content-Length")}
    /\ UNCHANGED <<outcome, headers, data, calls>>

Delegates ==
    /\ ~raised
    /\ \/ \E code \in Codes :
             \/ SetStatusCode(code)
             \/ SetResponseWithRedirection(code)
             \/ SetResponseWithError(code)
       \/ \E n \in Lengths : SetContentLength(n)
       \/ \E body \in {"empty", "page"} : SetData(body)
       \/ SetSetCookie \/ SetHeader \/ StatusCode \/ ContentLength
       \/ SetResponseWithTemplatePage

Next ==
    \/ Delegates
    \/ Handled
    \/ \E how \in {"rejected", "redacted", "exception"} : SetResponseWith(how)
    \/ PrepareForSend
    \/ DidSendResponse

Spec == Init /\ [][Next]_vars

-----------------------------------------------------------------------------
(* Properties.                                                             *)

Sent == phase \in {"prepared", "didSend"}

Value == [is : {"absent", "number", "text"}, of : Nat]

\* Every variable has its type, and a header that is sent is a text: a number
\* would raise where the header's line is put together.
TypeOK ==
    /\ phase \in {"delegates", "made", "prepared", "didSend"}
    /\ outcome \in {"none", "handled", "rejected", "redacted", "exception"}
    /\ headers \in [Key -> Value]
    /\ Sent => \A k \in Key : headers[k].is # "number"
    /\ data \in Body
    /\ raised \in BOOLEAN
    /\ calls \in 0..MaxCalls

\* A response that is not the handler's own goes out with the documented
\* status, 501, 403 or 500, whatever the delegates had made of it before.
StatusAsDocumented ==
    Sent /\ outcome # "handled" =>
        headers["Status"] = Text(Code(outcome))

\* A Content-Length that is sent with anything but a redirection is the length
\* of the data that is sent, whatever length the delegates set or read before.
LengthIsOfTheData ==
    Sent /\ ~IsRedirection =>
        headers["Content-Length"] \in {Absent, Text(Length(data))}

\* A redirection is sent without a body, and everything else with its own: an
\* error page is lost only to a location.
BodyIsSent ==
    Sent => /\ IsRedirection => data = "empty"
            /\ outcome # "handled" /\ ~IsRedirection => data = "error"

\* The body that is sent is the right one, and as long as its header says.
BodyAsDescribed == BodyIsSent /\ LengthIsOfTheData

=============================================================================
