------------------------------ MODULE MCHotelSla ------------------------------
(* Small instances of HotelSla: the values the configurations give to its  *)
(* constants. A message is named for its kind, or for its kind and a       *)
(* number.                                                                 *)
EXTENDS Invariants, TLC

KindOf == [text |-> "text", text2 |-> "text", stop |-> "stop", start |-> "start",
           qr |-> "qr", qr2 |-> "qr", bad |-> "bad"]

\* Who writes: one guest of one hotel, or two guests of two hotels.
OneHotel == {"hotel"}
OneGuest == {"guest"}
TheHotel == [g \in {"guest"} |-> "hotel"]
TwoHotels == {"hotel", "inn"}
TwoGuests == {"guest", "lodger"}
EachAHotel == [guest |-> "hotel", lodger |-> "inn"]

\* Messages.
Keywords == {"text", "stop", "start"}
TextAndStop == {"text", "stop"}
TwoTexts == {"text", "text2"}
TextAndQr == {"text", "qr", "bad"}
TwoQrs == {"qr", "qr2"}
KeywordsKind == [m \in Keywords |-> KindOf[m]]
TextAndStopKind == [m \in TextAndStop |-> KindOf[m]]
TwoTextsKind == [m \in TwoTexts |-> KindOf[m]]
TextAndQrKind == [m \in TextAndQr |-> KindOf[m]]
TwoQrsKind == [m \in TwoQrs |-> KindOf[m]]
KeywordsFrom == [m \in Keywords |-> "guest"]
TextAndStopFrom == [m \in TextAndStop |-> "guest"]
TwoTextsFrom == [text |-> "guest", text2 |-> "lodger"]
TwoQrsFrom == [m \in TwoQrs |-> "guest"]
TwoTextsFromOne == [m \in TwoTexts |-> "guest"]
TextAndQrFrom == [m \in TextAndQr |-> "guest"]

\* What Meta has to deliver.
BatchTextStop == {<<"text", "stop">>}
BatchesKeywords == {<<"text", "stop">>, <<"start">>}
BatchesStopApart == {<<"text">>, <<"stop">>}
BatchesTwoTexts == {<<"text", "text2">>}
BatchesTwoQrs == {<<"qr">>, <<"qr2">>}
BatchesQr == {<<"bad", "text", "text", "qr">>}

\* Who is at work.
OneWorker == {"w1"}
TwoWorkers == {"w1", "w2"}
NoClerks == {}
OneClerk == {"c1"}
ClerkSymmetry == Permutations(Clerks)
TheUser == {"user"}
ByTheUser == [c \in Clerks |-> "user"]
UsersHotel == [u \in {"user"} |-> "hotel"]
AllRequests == Workers \cup Clerks
OneServer == {"server"}
TheServer == [c \in AllRequests |-> "server"]
TwoServers == {"server1", "server2"}
EachAServer == [c \in AllRequests |-> IF c \in {"w1", "c1"} THEN "server1" ELSE "server2"]
OneScanner == {"s1"}
TwoScanners == {"s1", "s2"}
NoScanners == {}

\* What can go wrong.
Everything == {"accepted", "refused", "lost_answer"}
Accepted == {"accepted"}
AcceptedOrRefused == {"accepted", "refused"}
AllFaults == {"process", "handler", "scanner"}
Crashes == {"process", "scanner"}
NoFaults == {}
=============================================================================
