----------------------------- MODULE MCSpecSync -----------------------------
(* Two resources, one with two bindings that share an operation; a group    *)
(* mapped whole, mapped part by part, and under two names of which one is   *)
(* the plural of the other; two parameters with names that become one       *)
(* field, and one that needs a person.                                      *)
EXTENDS SpecSync

FooBar == <<"FooBar">>
Foo_Bar == <<"Foo_Bar">>
Tag == <<"Tag">>
TagKey == <<"Tag", "Key">>
TagValue == <<"Tag", "Value">>
TagsKey == <<"Tags", "Key">>
TagsValue == <<"Tags", "Value">>
SpotPrice == <<"SpotPrice">>

MCParameters == {FooBar, Foo_Bar, Tag, TagKey, TagValue, TagsKey, TagsValue, SpotPrice}
MCLeaves == {FooBar, Foo_Bar, TagKey, TagsKey, SpotPrice}
MCResourceOf == [create |-> "instance", modify |-> "instance", describe |-> "disk"]
MCUsedBy == [create |-> {"create"}, modify |-> {"create", "update"}, describe |-> {"get"}]
MCFirstLive == [create |-> {Tag, TagsValue}, modify |-> {TagValue}, describe |-> {Foo_Bar}]
MCFirstFields == [instance |-> {<<"tags">>, <<"tags", "value">>}, disk |-> {<<"foo_bar">>}]
MCSnakeCase == [n \in {"FooBar", "Foo_Bar", "Tag", "Tags", "Key", "Value", "SpotPrice"} |->
  CASE n \in {"FooBar", "Foo_Bar"} -> "foo_bar" [] n = "Tag" -> "tag" [] n = "Tags" -> "tags" [] n = "Key" -> "key"
    [] n = "Value" -> "value" [] n = "SpotPrice" -> "spot_price"]
MCPluralize == [tag |-> "tags", tags |-> "tagses"]
MCTraits == [p \in MCParameters |->
  IF p = SpotPrice THEN {"needs_review"} ELSE {}]

ParamOrder == <<FooBar, Foo_Bar, SpotPrice, Tag, TagKey, TagValue, TagsKey, TagsValue>>
KindOrder == <<KindMissing, KindRemoved, KindUncovered>>
BindingOrder == <<"describe", "create", "modify">>
MCPlanOrder ==
  [n \in 1..72 |-> [kind |-> KindOrder[(n - 1) \div 24 + 1], binding |-> BindingOrder[(((n - 1) \div 8) % 3) + 1],
                    param |-> ParamOrder[((n - 1) % 8) + 1]]]
=============================================================================
