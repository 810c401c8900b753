---------------------------- MODULE MCHttpParser ----------------------------
EXTENDS HttpParser

\* Letters, by their bytes.
a == 97
b == 98
f == 102
h == 104
j == 106
p == 112
q == 113
t == 116
u == 117
v == 118
w == 119
z == 122
Two == 50
Zero == 48
NewLine == 10

Message(target_, headers_, body_, trailers_) ==
  [target |-> target_, headers |-> headers_, body |-> body_, trailers |-> trailers_,
   garbled |-> FALSE]

\* t stands for Content-Type, j for application/json.
MCMessages == {
  Message(<<Slash>>, <<>>, <<>>, <<>>),
  \* one name a prefix of another, an empty value, a name twice
  Message(<<Slash, p>>, << <<<<a, b>>, <<v>>>>, <<<<a>>, <<>>>>, <<<<a, b>>, <<w>>>> >>, <<>>, <<>>),
  \* JSON, good and bad
  Message(<<Slash>>, << <<<<t>>, <<j>>>> >>, <<z, z>>, <<>>),
  Message(<<Slash>>, << <<<<t>>, <<j>>>> >>, <<z>>, <<>>),
  \* a chunked body with trailers, the first of which names a header again
  Message(<<Slash>>, << <<<<a>>, <<v>>>> >>, <<z, z>>, << <<<<a>>, <<u>>>>, <<<<b>>, <<w>>>> >>),
  \* exactly the budget, and a byte more
  Message(<<Slash>>, << <<<<a, b>>, <<v, v, v, v, v, v, v>>>> >>, <<>>, <<>>),
  Message(<<Slash>>, << <<<<a, b>>, <<v, v, v, v, v, v, v, v>>>> >>, <<>>, <<>>),
  [target |-> <<Slash, q>>, headers |-> <<>>, body |-> <<>>, trailers |-> <<>>, garbled |-> TRUE]}

\* Every short text after a slash, and longer ones of the forms there are.
MCTargets ==
  {<<Slash>> \o s : s \in BoundedSeq({p, Question, Ampersand, Equals, Plus, Percent, Slash, Two}, 3)}
  \cup {
  <<h, Colon, Slash, Slash, h, Slash, p>>,                            \* h://h/p
  <<h, Colon, Slash, Slash, h>>,                                      \* h://h
  <<h, Colon, Slash, Slash, Slash, Question, a, Equals, b>>,          \* h:///?a=b
  <<h, Colon, Slash, Slash, Question, a, Equals, Slash>>,             \* h://?a=/
  <<h, Colon, Slash, Slash, h, Question, a, Equals, b>>,              \* h://h?a=b
  <<h, Colon, Slash, Slash, h, Slash, Question, a, Equals,
    h, Colon, Slash, Slash, h, Slash, q>>,                            \* h://h/?a=h://h/q
  <<Slash, h, Colon, Slash, Slash, h, Slash, q>>,                     \* /h://h/q
  <<Slash, p, Question, h, Colon, Slash, Slash, h, Slash, q>>,        \* /p?h://h/q
  <<Slash, Question, a, Equals, b, Ampersand, a, Equals, Equals, p>>, \* /?a=b&a==p
  <<Slash, Question, Percent, 54, 49, Equals, Percent, Two, 49>>,     \* /?%61=%21
  <<Slash, Question, a, Equals, Percent, Zero, Zero, b>>,             \* /?a=%00b
  <<Slash, p, Percent, Two, 70, Percent, 51, f>>,                     \* /p%2F%3f
  <<Slash>> \o UrlEncode(<<Space, z>>) \o <<Percent, z, z>>}          \* /%20z%zz

MCPlainTexts == BoundedSeq({0, NewLine, Space, Percent, Plus, 57, a, Slash, 126, 255}, 2)

MCEncoded == {<<Slash>> \o UrlEncode(s) : s \in MCPlainTexts}

MCScripts ==
  SeqOf(MCMessages, 2) \cup {<<Message(s, <<>>, <<>>, <<>>)>> : s \in MCTargets \cup MCEncoded}

MCContentType == <<t>>
MCJsonType    == <<j>>
MCJsonTexts   == {<<z, z>>}

=============================================================================
