---------------------------- MODULE MCDemoRunner ----------------------------
EXTENDS DemoRunner

\* Three steps: a clip that is not waited for before another action, a clip that
\* is, and a step without one, which is where a clip left over is heard.
MCScript == << <<"clip", "api">>, <<"clip, wait">>, <<"api">> >>
==============================================================================
