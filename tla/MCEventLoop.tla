---------------------------- MODULE MCEventLoop ----------------------------
(* Instances of EventLoop for TLC: requests, response forms. *)
EXTENDS EventLoop

Get      == [method |-> "GET", coding |-> "none", body |-> 0,
             data |-> "plain", zero |-> FALSE, exact |-> TRUE]
Identity == [Get EXCEPT !.coding = "identity"]
Unknown  == [Get EXCEPT !.method = "OTHER"]
Plain    == [Get EXCEPT !.method = "POST", !.body = 1]
Chunked  == [Plain EXCEPT !.coding = "chunked", !.data = "blank"]
Port8080 == [Chunked EXCEPT !.zero = TRUE]
Embedded == [Chunked EXCEPT !.data = "end"]
Upload   == [Plain EXCEPT !.coding = "multipart"]
TypeLast == [Upload EXCEPT !.exact = FALSE]

AnyKind       == {Get, Identity, Plain, Chunked, Port8080, Embedded, Upload, TypeLast, Unknown}
SessionKinds  == {Get, Chunked, Unknown}
BrowserKinds  == {Get, Upload}
PageKinds     == {Get}
PairKinds     == {Get, Upload, Unknown}

OneShot  == [chunked |-> FALSE, ends |-> <<2>>]
Page     == [chunked |-> FALSE, ends |-> <<1>>]
Chunks   == [chunked |-> TRUE,  ends |-> <<1, 3, 4>>]
LongFile == [chunked |-> TRUE,  ends |-> <<1, 2, 3>>]

AnyShape   == {OneShot, Chunks}
OneAndMany == {Page, LongFile}
OnlyPage   == {Page}
TwoBytes   == {OneShot}
=============================================================================
