------------------------------ MODULE MCViews ------------------------------
(* Instances of Views for TLC. *)
EXTENDS Views

Val(type, of) == [type |-> type, inner |-> "", of |-> of, items |-> <<>>]
Computed(type, inner, of) == [Val(type, of) EXCEPT !.inner = inner]
Item(inner, of) == [inner |-> inner, of |-> of]
Array(items) == [Val("rollup", <<>>) EXCEPT !.inner = "array", !.items = items]

\* The schema that goes with a page's properties.
FormOf(props) ==
    [schema |-> [name \in DOMAIN props |-> props[name].type], props |-> props, live |-> TRUE]

Only(name, v) == FormOf([m \in {name} |-> v])
Two(m, v, n, w) == FormOf([x \in {m, n} |-> IF x = m THEN v ELSE w])

\* A date property, under a name the row has too, that is filled in or turned into a text.
DateForms ==
    {Two(<<"Due">>, Val("date", of), <<"title">>, Val("title", <<"a">>)) :
        of \in {<<>>, <<"day">>, <<"day", "later">>}}
    \cup {Two(<<"Due">>, Val("rich_text", <<"day">>), <<"title">>, Val("title", <<"a">>))}

\* A value of each kind.
Values ==
    {Val("checkbox", <<x>>) : x \in {"true", "false"}}
    \cup {Val("number", of) : of \in {<<>>, <<"1">>}}
    \cup {Val(type, of) : type \in {"multi_select", "relation"}, of \in {<<>>, <<"a">>}}
    \cup {Val("unique_id", of) : of \in {<<"1">>, <<"A", "1">>}}
    \cup {Val("created_by", <<"a">>), Val("button", <<"a">>)}
    \cup {Computed("formula", "boolean", <<x>>) : x \in {"true", "false"}}
    \cup {Computed("formula", "number", <<>>), Computed("rollup", "number", <<"1">>)}
    \cup {Array(items) : items \in {<<>>, <<Item("number", <<>>), Item("number", <<"1">>)>>}}

ValueForms == {Only(<<"URL">>, v) : v \in Values}

\* A source whose page comes and goes, shared later or at first.
Dates == DateForms \cup {[f EXCEPT !.live = FALSE] : f \in DateForms}
Plain == CHOOSE f \in DateForms : f.props[<<"Due">>].of = <<>>
Checked == Only(<<"URL">>, Val("checkbox", <<"true">>))

TwoSources == [s \in Sources |-> IF s = "dates" THEN Dates ELSE ValueForms]
DatesLater == [s \in Sources |-> IF s = "dates" THEN {NoForm, Plain} ELSE {Checked}]
OneSource == [s \in Sources |-> DateForms]
PlainFirst == [s \in Sources |-> {Plain}]
OwnDatabase == [s \in Sources |-> s]
=============================================================================
