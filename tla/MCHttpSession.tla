--------------------------- MODULE MCHttpSession ---------------------------
EXTENDS HttpSession
Request(minor, url, headers, body) == [minor |-> minor, url |-> url, headers |-> headers, body |-> body, upgrade |-> FALSE]
Requests_ ==
  {Request("1", "a", << <<"x", "1">> >>, "json"),
   Request("1", "b", << <<"Content-Type", "json">>, <<"x", "2">> >>, "bad"),
   Request("1", "malformed", << <<"connection", "close">>, <<"Content-Type", "json">> >>, "json"),
   Request("0", "c", << <<"x", "1">>, <<"connection", "Keep-Alive">> >>, "none"),
   Request("0", "d", <<>>, "none"),
   [Request("1", "e", << <<"x", "3">> >>, "none") EXCEPT !.upgrade = TRUE]}
MaxRequests_ == [s \in Sessions |-> 1]
Cuts_ == {"begin", "url", "field", "value", "body", "complete"} \X (0 .. 2)
=============================================================================
