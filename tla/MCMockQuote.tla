---------------------------- MODULE MCMockQuote ----------------------------
(***************************************************************************)
(* MockQuoteApi with an owner, a second client and two instruments.        *)
(***************************************************************************)
EXTENDS MockQuoteApi

CONSTANTS Spot, Future

BothInstruments == {Spot, Future}

\* Lists that share an instrument, swap two, and name one twice.
SomeLists == {<<Spot>>, <<Spot, Future>>, <<Future, Spot>>, <<Spot, Spot>>}
ShortLists == {<<Spot>>, <<Future, Spot>>}
=============================================================================
