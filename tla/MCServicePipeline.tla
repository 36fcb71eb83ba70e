-------------------------- MODULE MCServicePipeline --------------------------
(* Values of the constants of ServicePipeline for TLC. *)
EXTENDS ServicePipeline, TLC

Service == [language |-> "go", kind |-> "deployable", rest |-> TRUE]
Foreign == [language |-> "other", kind |-> "deployable", rest |-> FALSE]
OneService == {Service}
TwoKinds == {Service, Foreign}

\* One job of every shape: the classifiers, a gate, the deployment and the report.
OneOfEach == {"docs_only", "pin_only", "build_test", "artifact", "notify"}
\* Gates the deployment waits for: one a version can break, and one only the source
\* can, which pins skip.
Varied == {"build_test", "structure"}
NoJob == {}
=============================================================================
