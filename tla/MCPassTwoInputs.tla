---- MODULE MCPassTwoInputs ----
EXTENDS PassTwoInputs

MCDiscoveries == {{"msg"}, {"scatter", "exc", "pal", "msg"}}
====
