----------------------------- MODULE MCServices -----------------------------
(***************************************************************************)
(* A model-checking instance of the board's services and network ports and *)
(* of the debug host's own: Ports and Services, one part at a time.        *)
(***************************************************************************)
EXTENDS Ports, Services, TLC

Init == PortsInit \/ ServicesInit
Next == PortsNext \/ ServicesNext
Spec == Init /\ [][Next]_vars

-----------------------------------------------------------------------------
(* The environment: integers of two bits, sequence numbers that wrap.       *)
Literal(n) == [kind |-> "literal", value |-> <<n>>]
Name(k) == [kind |-> "name", name |-> k]
Now == [kind |-> "now", value |-> <<1>>]
Text(f, n, a) == [form |-> f, name |-> n, arg |-> a]
Sum(l, r, m) == [kind |-> "op", left |-> l, right |-> r, minus |-> m]
EnvironmentTexts ==
  {Text("help", "", Literal(0)), Text("default", "b", Literal(1)),
   Text("assign", "a", Literal(-2)),
   Text("assign", "A", Sum(Name("b"), Literal(-1), TRUE)),
   Text("assign", "c", Now),
   Text("delta", "A", Literal(1)), Text("delete", "a", Literal(0)),
   Text("show", "b", Literal(0)), Text("assign", "", Literal(0))}

LeastInt == -2

-----------------------------------------------------------------------------
(* The USB shell and the log queue.                                         *)
NoSettings ==
  [f \in {"SSID", "PASSWORD", "SERVER", "PROVIDER", "ENDPOINT", "API_KEY"} |-> ""]

PowerOnEnvs ==
  {NoSettings, [NoSettings EXCEPT !["SSID"] = "a", !["PROVIDER"] = "compatible",
                                  !["ENDPOINT"] = "a"]}
Accepted == [f \in DOMAIN NoSettings |-> IF f = "PROVIDER" THEN {"openai", "compatible"}
                                         ELSE {"", "a"}]
ProgramStores == [f \in DOMAIN NoSettings |->
  CASE f = "SSID" -> {"", "bad"} [] f = "SERVER" -> {"a"}
    [] f = "PROVIDER" -> {"compatible"} [] f = "ENDPOINT" -> {""} [] OTHER -> {}]

LogMessages == {<<"x", "\n">>, <<"x", "x", "\r">>, <<"\n">>}

-----------------------------------------------------------------------------
(* The debug host's own chat and weather ports.                             *)
HostChatConfigs ==
  {[key |-> FALSE, provider |-> "openai", endpoint |-> TRUE],
   [key |-> FALSE, provider |-> "compatible", endpoint |-> TRUE]}
HostChatWires ==
  {<<"data:", "content", "a", "quote", "\r", "\n", "data:", "[DONE]", "\n">>,
   <<"id:", "\n", "data:", "content", "x", "x", "x", "\n",
     "data:", "content", "...", "?", "\n">>}

Setting(k, l, u) == [key |-> k, location |-> l, units |-> u]
HostWeatherSettings ==
  {Setting(TRUE, "oslo", "metric"), Setting(TRUE, "rome", "imperial"),
   Setting(FALSE, "rome", "standard")}

-----------------------------------------------------------------------------
(* What servers send.                                                       *)
Status(n) == [kind |-> "status", n |-> n]
Length(n) == [kind |-> "length", n |-> n]
Size(n) == [kind |-> "size", n |-> n]
Chunked == [kind |-> "chunked"]
End == [kind |-> "end"]
Crlf == [kind |-> "crlf"]
Byte(f, n) == [kind |-> "byte", of |-> f, n |-> n]

HttpResponses ==
  [len   |-> <<Status(200), Length(3), End, Byte("len", 1), Byte("len", 2), Byte("len", 3)>>,
   chunk |-> <<Status(100), End, Status(200), Chunked, End, Size(1), Byte("chunk", 1),
               Crlf, Size(0), End>>,
   redir |-> <<Status(302), [kind |-> "location"], End>>]
HttpContents == LET len == <<Byte("len", 1), Byte("len", 2), Byte("len", 3)>> IN
  [len |-> len, chunk |-> <<Byte("chunk", 1)>>, redir |-> len]

HttpLocations == [len |-> "no", chunk |-> "no", redir |-> "len"]

Header(n) == [kind |-> "header", name |-> n, n |-> 2]
Blank == [kind |-> "blank"]
Done == [kind |-> "done"]
Leaf(p, t) == [path |-> p, text |-> t]
Content == <<"choices", 0, "delta", "content">>
Event(l) == [kind |-> "event", leaves |-> l, wellformed |-> TRUE]
ChatReplies ==
  (<<"p">> :> <<Status(200), Header("type"), Header("chunked"), Blank, Size(1),
     Event(<<Leaf(<<"choices", 0, "reasoning", "content">>, <<9>>), Leaf(Content, <<1, 2, 3>>)>>),
     [kind |-> "delimiter"], Size(2), Event(<<Leaf(Content, <<4>>)>>), Done>>)
  @@ (<<"q">> :> <<Status(200), Header("type"), Header("length"), Blank,
                   Event(<<Leaf(Content, <<5>>)>>), Done>>)
  @@ (<<"r">> :> <<Status(200), Header("type"), Blank, Event(<<Leaf(Content, <<6>>)>>),
                   Event(<<Leaf(<<"error">>, <<>>)>>)>>)
  @@ (<<"s">> :> <<Status(401), Header("type"), Blank>>)

ChatContents ==
  (<<"p">> :> <<1, 2, 3, 4>>) @@ (<<"q">> :> <<5>>) @@ (<<"r">> :> <<6>>) @@ (<<"s">> :> <<>>)
ChatSetting(p, k, e) == [provider |-> p, key |-> k, endpoint |-> e]
ChatConfigs ==
  {ChatSetting("", "key", ""), ChatSetting("ollama", "key", "lan"), ChatSetting("x", "", "bad")}
ErrorMark == <<0>>

Report(p, k) == [kind |-> "byte", of |-> k, place |-> p]
WeatherAnswers(p, k) ==
  {<<Status(200), Length(1), End, Report(p, k)>>, <<Status(500), End>>,
   <<Status(200), Chunked, End, Size(1), Report(p, k), Crlf, Size(0), End>>,
   <<Status(200), Length(2), End, Report(p, k)>>}

Servers == [a \in {"x", "y"} \X {"weather", "forecast"} |-> WeatherAnswers(a[1], a[2])]
=============================================================================
